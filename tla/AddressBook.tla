---------------------------- MODULE AddressBook ----------------------------
(***************************************************************************)
(* The addresses of one user and their default marks, under concurrent     *)
(* requests (internal/addresses, the address half of the user handler).    *)
(*                                                                         *)
(* The database runs at READ COMMITTED: a statement finds the rows it will *)
(* change in a snapshot taken when it starts, waits for the lock of each,  *)
(* and looks again at the row it got.  SetDefault, SetDefaultBilling and   *)
(* SetDefaultShipping clear and set in one transaction; Create and Update  *)
(* clear in a statement that commits by itself.  At most one row per user  *)
(* can be marked in each of the partial unique indexes, which exist for    *)
(* billing and shipping and not for is_default.                            *)
(*                                                                         *)
(* Abstractions.  checkUserAuthorization admits a user to the user's own   *)
(* rows only and every statement filters on user_id, so users do not       *)
(* interact and somebody else's address is an address not in the book.     *)
(* The text of an address is not modelled.  Rows are cleared in any order. *)
(***************************************************************************)
EXTENDS FiniteSets

CONSTANTS
  Addresses, \* identifiers of rows: an INSERT beyond them fails
  Requests   \* requests served at the same time

VARIABLES
  book,    \* rows of the addresses table
  marks,   \* marks[k]: the rows whose default flag for k is committed
  stage,      \* the statement each request is in
  job,     \* what each request was asked to do
  todo,    \* rows its clearing statement has found and not yet changed
  cleared, \* rows it has changed and not committed
  alone    \* history: nobody else was changing is_default meanwhile

bookVars == <<book, marks, stage, job, todo, cleared, alone>>

\* is_default, is_default_billing, is_default_shipping
Kinds   == {"default", "billing", "shipping"}
Indexed == {"billing", "shipping"}

Jobs == [op : {"create"}, kind : {"default"}]
        \cup [op : {"update"}, kind : {"default"}, target : Addresses]
        \cup [op : {"set"}, kind : Kinds, target : Addresses]

NoJob == [op |-> "none"]

Busy(r) == stage[r] # "idle"

(***************************************************************************)
(* Locks                                                                   *)
(***************************************************************************)

\* Rows r has written in a transaction that is still open.
Locked(r) ==
  cleared[r] \cup (IF stage[r] = "commit" THEN {job[r].target} ELSE {})

\* The other requests that hold a lock on one of the rows of S.
Holders(r, S) == {q \in Requests \ {r} : Locked(q) \cap S # {}}

\* The open transactions whose change to the index of k an insertion into
\* the same index must wait for.
IndexHolders(r) ==
  {q \in Requests \ {r} : /\ job[r].kind \in Indexed
                          /\ Busy(q)
                          /\ job[q].kind = job[r].kind
                          /\ Locked(q) # {}}

\* No partial unique index: a faulty variant of the next definition.
NoIndex(r) == FALSE

\* The partial unique index refuses the mark r wants to set.
Duplicate(r) ==
  /\ job[r].kind \in Indexed
  /\ marks[job[r].kind] \ (cleared[r] \cup {job[r].target}) # {}

WaitsFor(r) ==
  CASE /\ stage[r] = "clear" /\ todo[r] # {}
       /\ \A a \in todo[r] : Holders(r, {a}) # {}
         -> Holders(r, todo[r])
    [] stage[r] = "write" /\ job[r].op = "set"
         -> Holders(r, {job[r].target}) \cup IndexHolders(r)
    [] stage[r] = "write" /\ job[r].op = "update" -> Holders(r, {job[r].target})
    [] OTHER -> {}

(***************************************************************************)
(* Requests that set a default                                             *)
(***************************************************************************)

BookInit ==
  /\ book = {}
  /\ marks = [k \in Kinds |-> {}]
  /\ stage = [r \in Requests |-> "idle"]
  /\ job = [r \in Requests |-> NoJob]
  /\ todo = [r \in Requests |-> {}]
  /\ cleared = [r \in Requests |-> {}]
  /\ alone = [r \in Requests |-> FALSE]

\* Nobody looks for the earlier defaults: a faulty variant of Found.
FoundNothing(k) == {}

\* The rows the clearing statement finds in its snapshot.
Found(k) == marks[k]

\* A handler has validated its request and starts the first statement of the
\* repository method: Create or Update with is_default, or a SetDefault method.
Begin(r, j) ==
  /\ stage[r] = "idle"
  /\ stage' = [stage EXCEPT ![r] = "clear"]
  /\ job' = [job EXCEPT ![r] = j]
  /\ todo' = [todo EXCEPT ![r] = Found(j.kind)]
  /\ alone' = [q \in Requests |->
                 IF j.kind # "default" THEN alone[q] /\ q # r
                 ELSE IF q = r
                   THEN ~ \E p \in Requests : Busy(p) /\ job[p].kind = "default"
                   ELSE FALSE]
  /\ UNCHANGED <<book, marks, cleared>>

AddAddress(r) == Begin(r, [op |-> "create", kind |-> "default"])

UpdateAddress(r, a) ==
  Begin(r, [op |-> "update", kind |-> "default", target |-> a])

SetDefaultAddress(r, a) ==
  Begin(r, [op |-> "set", kind |-> "default", target |-> a])

SetDefaultBillingAddress(r, a) ==
  Begin(r, [op |-> "set", kind |-> "billing", target |-> a])

SetDefaultShippingAddress(r, a) ==
  Begin(r, [op |-> "set", kind |-> "shipping", target |-> a])

\* The clearing statement gets the lock of a row and looks at it again.
ClearRow(r, a) ==
  /\ stage[r] = "clear"
  /\ a \in todo[r]
  /\ Holders(r, {a}) = {}
  /\ todo' = [todo EXCEPT ![r] = @ \ {a}]
  /\ cleared' = [cleared EXCEPT ![r] = IF a \in marks[job[r].kind] THEN @ \cup {a}
                                                                  ELSE @]
  /\ UNCHANGED <<book, marks, stage, job, alone>>

\* Every clearing statement commits by itself: a faulty variant of the next.
NeverInTransaction(r) == FALSE

\* unsetDefaultAddresses runs on the pool, the setters in a transaction.
InTransaction(r) == job[r].op = "set"

\* The clearing statement is done.
Cleared(r) ==
  /\ stage[r] = "clear"
  /\ todo[r] = {}
  /\ stage' = [stage EXCEPT ![r] = "write"]
  /\ IF InTransaction(r)
     THEN UNCHANGED <<marks, cleared>>
     ELSE /\ marks' = [marks EXCEPT ![job[r].kind] = @ \ cleared[r]]
          /\ cleared' = [cleared EXCEPT ![r] = {}]
  /\ UNCHANGED <<book, job, todo, alone>>

\* Nobody rolls back: a faulty variant of the next definition.
EndsHolding(r) ==
  /\ stage' = [stage EXCEPT ![r] = "idle"]
  /\ job' = [job EXCEPT ![r] = NoJob]
  /\ alone' = [alone EXCEPT ![r] = FALSE]
  /\ UNCHANGED <<todo, cleared>>

\* The request is over and what its transaction had not committed is gone.
Ends(r) ==
  /\ stage' = [stage EXCEPT ![r] = "idle"]
  /\ job' = [job EXCEPT ![r] = NoJob]
  /\ todo' = [todo EXCEPT ![r] = {}]
  /\ cleared' = [cleared EXCEPT ![r] = {}]
  /\ alone' = [alone EXCEPT ![r] = FALSE]

\* Create: the INSERT, under an identifier nobody has.
Insert(r) ==
  /\ stage[r] = "write" /\ job[r].op = "create"
  /\ \/ \E a \in Addresses \ book :
          /\ book' = book \cup {a}
          /\ marks' = [marks EXCEPT !["default"] = @ \cup {a}]
     \/ book = Addresses /\ UNCHANGED <<book, marks>>
  /\ Ends(r)

\* Update: its UPDATE, which may find no row although the defaults are gone.
Rewrite(r) ==
  /\ stage[r] = "write" /\ job[r].op = "update"
  /\ Holders(r, {job[r].target}) = {}
  /\ marks' = [marks EXCEPT !["default"] = @ \cup ({job[r].target} \cap book)]
  /\ Ends(r)
  /\ UNCHANGED book

\* The second statement of a setter finds its row.
Affected(r) == job[r].target \in book

\* The second statement of a setter: no such row or a duplicate in the index
\* rolls back, anything else is ready to commit.
Set(r) ==
  /\ stage[r] = "write" /\ job[r].op = "set"
  /\ WaitsFor(r) = {}
  /\ IF Affected(r) /\ ~Duplicate(r)
     THEN /\ stage' = [stage EXCEPT ![r] = "commit"]
          /\ UNCHANGED <<job, todo, cleared, alone>>
     ELSE Ends(r)
  /\ UNCHANGED <<book, marks>>

Commit(r) ==
  /\ stage[r] = "commit"
  /\ marks' = [marks EXCEPT ![job[r].kind] = (@ \ cleared[r]) \cup {job[r].target}]
  /\ Ends(r)
  /\ UNCHANGED book

\* A circle of transactions waiting for one another, r among them.
Deadlocked(r) ==
  \E S \in SUBSET Requests :
    /\ r \in S
    /\ \A q \in S : WaitsFor(q) \cap S # {} /\ \E p \in S : q \in WaitsFor(p)

\* The database aborts one transaction of such a circle.
Victim(r) == Deadlocked(r) /\ Ends(r) /\ UNCHANGED <<book, marks>>

\* The client goes away: the request's context is cancelled.
Cancel(r) == Busy(r) /\ Ends(r) /\ UNCHANGED <<book, marks>>

(***************************************************************************)
(* Requests of one statement                                               *)
(***************************************************************************)

Unlocked(a) == \A r \in Requests : a \notin Locked(r)

\* Create without is_default
Add(a) ==
  /\ a \notin book
  /\ book' = book \cup {a}
  /\ UNCHANGED <<marks, stage, job, todo, cleared, alone>>

\* Update without is_default: the column is written all the same.
Edit(a) ==
  /\ a \in book /\ Unlocked(a)
  /\ marks' = [marks EXCEPT !["default"] = @ \ {a}]
  /\ UNCHANGED <<book, stage, job, todo, cleared, alone>>

\* The DELETE and what it takes along.
Delete(a) ==
  /\ book' = book \ {a}
  /\ marks' = [k \in Kinds |-> marks[k] \ {a}]

DeleteAddress(a) ==
  /\ a \in book /\ Unlocked(a)
  /\ Delete(a)
  /\ UNCHANGED <<stage, job, todo, cleared, alone>>

Handle(r) ==
  \/ AddAddress(r)
  \/ \E a \in Addresses :
       \/ UpdateAddress(r, a)
       \/ SetDefaultAddress(r, a)
       \/ SetDefaultBillingAddress(r, a)
       \/ SetDefaultShippingAddress(r, a)

Advance(r) ==
  \/ \E a \in Addresses : ClearRow(r, a)
  \/ Cleared(r)
  \/ Insert(r)
  \/ Rewrite(r)
  \/ Set(r)
  \/ Commit(r)
  \/ Victim(r)

BookNext ==
  \/ \E r \in Requests : Handle(r) \/ Advance(r) \/ Cancel(r)
  \/ \E a \in Addresses : Add(a) \/ Edit(a) \/ DeleteAddress(a)

\* The server and the database carry on with a request they have begun; one
\* that waits for a lock gets it when it is free often enough, for the
\* database queues those who wait.
Fairness == \A r \in Requests : SF_bookVars(Advance(r))

BookSpec == BookInit /\ [][BookNext]_bookVars /\ Fairness

(***************************************************************************)
(* Properties                                                              *)
(***************************************************************************)

BookTypeOK ==
  /\ book \subseteq Addresses
  /\ marks \in [Kinds -> SUBSET Addresses]
  /\ \A k \in Kinds : marks[k] \subseteq book
  /\ stage \in [Requests -> {"idle", "clear", "write", "commit"}]
  /\ job \in [Requests -> Jobs \cup {NoJob}]
  /\ \A r \in Requests : Busy(r) => job[r] \in Jobs
  /\ todo \in [Requests -> SUBSET Addresses]
  /\ cleared \in [Requests -> SUBSET Addresses]
  /\ alone \in [Requests -> BOOLEAN]

\* However requests interleave, a user has at most one default billing and at
\* most one default shipping address (SetDefaultBilling, SetDefaultShipping).
OneDefaultPerPurpose ==
  \A k \in Indexed : \A a, b \in marks[k] : a = b

\* A user who has a default billing or shipping address keeps having one until
\* that address is deleted: no failed, cancelled, aborted or overtaken request
\* leaves the user without (the clear and the set of a setter commit together).
PurposeNeverLost ==
  [][\A k \in Indexed : marks[k] # {} /\ marks'[k] = {}
                          => marks[k] \subseteq book \ book']_bookVars

\* is_default has no index, so overlapping requests may leave two defaults.
\* A request that no other one overlaps leaves its own address as the only
\* default, whatever it finds: a double mark is repaired by the next change.
AloneLeavesOne ==
  [][\A r \in Requests :
       alone[r] /\ Busy(r) /\ marks' # marks /\ Ends(r)
         => Cardinality(marks'["default"]) = 1]_bookVars

\* Every request that begins to change a default ends, even when transactions
\* that swap the billing and the shipping default wait for one another.
RequestsEnd == \A r \in Requests : Busy(r) ~> ~Busy(r)
=============================================================================
