----------------------------- MODULE UserProofs -----------------------------
(***************************************************************************)
(* Proofs about what the program keeps for its users: AddressBook,         *)
(* Accounts and Reviews, for any rows, users, products and requests.       *)
(*                                                                         *)
(* AddressBook: its inductive invariant adds to the types what is known of *)
(* a setter that is ready to commit: its row is there and stays (the row   *)
(* is locked), it is the only one about to commit to its index, and the    *)
(* only mark in the index that it has not cleared is its own.  A second    *)
(* invariant says what a request knows that no other one overlaps.         *)
(*                                                                         *)
(* Accounts: no two share an e-mail, and what nobody has edited is in the  *)
(* normal spelling.  Reviews: a count that nobody has overtaken is wrong   *)
(* only while whoever changed the reviews has yet to count or to write.    *)
(***************************************************************************)
EXTENDS AddressBook, Reviews, FiniteSetTheorems, TLAPS

(***************************************************************************)
(* Addresses                                                               *)
(***************************************************************************)

\* What the lock and the unique index guarantee a setter before it commits.
ReadyToCommit(r) ==
  /\ job[r].op = "set"
  /\ job[r].target \in book
  /\ job[r].kind \in Indexed =>
       /\ marks[job[r].kind] \subseteq cleared[r] \cup {job[r].target}
       /\ \A q \in Requests :
            stage[q] = "commit" /\ job[q].kind = job[r].kind => q = r

CommitsSafely == \A r \in Requests : stage[r] = "commit" => ReadyToCommit(r)

IInv == BookTypeOK /\ OneDefaultPerPurpose /\ CommitsSafely

\* What the handlers may ask for.
LEMMA JobFacts ==
  ASSUME NEW j \in Jobs
  PROVE  /\ j.op \in {"create", "update", "set"}
         /\ j.kind \in Kinds
         /\ j.op # "set" => j.kind = "default"
         /\ j.op # "create" => j.target \in Addresses
  BY DEF Jobs, Kinds

\* An empty book has no marks.
LEMMA InitIInv == BookInit => IInv
  BY DEF BookInit, IInv, BookTypeOK, OneDefaultPerPurpose, CommitsSafely,
         Busy, Kinds, Indexed

\* A request that starts, clears a row or ends leaves the rows of the others'
\* transactions alone.
LEMMA BeginStep ==
  ASSUME IInv, NEW r \in Requests, NEW j \in Jobs, Begin(r, j)
  PROVE  IInv'
<1>. USE DEF IInv, Begin, Found
<1>1. BookTypeOK'
  BY JobFacts DEF BookTypeOK, Busy
<1>2. OneDefaultPerPurpose'
  BY DEF OneDefaultPerPurpose
<1>3. CommitsSafely'
  BY DEF CommitsSafely, ReadyToCommit, BookTypeOK
<1>. QED
  BY <1>1, <1>2, <1>3

LEMMA ClearRowStep ==
  ASSUME IInv, NEW r \in Requests, NEW a \in Addresses, ClearRow(r, a)
  PROVE  IInv'
<1>. USE DEF IInv, ClearRow
<1>1. BookTypeOK'
  BY DEF BookTypeOK, Busy
<1>2. OneDefaultPerPurpose'
  BY DEF OneDefaultPerPurpose
<1>3. CommitsSafely'
  BY DEF CommitsSafely, ReadyToCommit, BookTypeOK
<1>. QED
  BY <1>1, <1>2, <1>3

\* The clearing statement that commits by itself changes is_default only.
LEMMA ClearedStep ==
  ASSUME IInv, NEW r \in Requests, Cleared(r)
  PROVE  IInv' /\ (\A k \in Indexed : marks'[k] = marks[k])
<1>. USE DEF IInv, Cleared
<1>1. job[r] \in Jobs
  BY DEF BookTypeOK, Busy
<1>2. CASE InTransaction(r)
  <2>1. BookTypeOK'
    BY <1>2 DEF BookTypeOK, Busy
  <2>2. CommitsSafely'
    BY <1>2 DEF CommitsSafely, ReadyToCommit, BookTypeOK
  <2>. QED
    BY <1>2, <2>1, <2>2 DEF OneDefaultPerPurpose
<1>3. CASE ~InTransaction(r)
  <2>1. job[r].kind = "default"
    BY <1>1, <1>3, JobFacts DEF InTransaction
  <2>2. /\ marks' = [marks EXCEPT !["default"] = @ \ cleared[r]]
        /\ cleared' = [cleared EXCEPT ![r] = {}]
    BY <1>3, <2>1
  <2>3. BookTypeOK'
    BY <2>2 DEF BookTypeOK, Busy, Kinds
  <2>4. \A k \in Indexed : marks'[k] = marks[k]
    BY <2>2 DEF BookTypeOK, Kinds, Indexed
  <2>5. CommitsSafely'
    BY <2>2, <2>4 DEF CommitsSafely, ReadyToCommit, BookTypeOK
  <2>. QED
    BY <2>3, <2>4, <2>5 DEF OneDefaultPerPurpose
<1>. QED
  BY <1>2, <1>3

\* A request that ends without a write: cancelled, aborted or refused.
LEMMA EndsStep ==
  ASSUME IInv, NEW r \in Requests, Ends(r), UNCHANGED <<book, marks>>
  PROVE  IInv'
<1>. USE DEF IInv, Ends
<1>1. BookTypeOK'
  BY DEF BookTypeOK, Busy
<1>2. CommitsSafely'
  BY DEF CommitsSafely, ReadyToCommit, BookTypeOK
<1>. QED
  BY <1>1, <1>2 DEF OneDefaultPerPurpose

\* INSERT and UPDATE with is_default add rows and is_default marks only.
LEMMA WriteStep ==
  ASSUME IInv, NEW r \in Requests, Insert(r) \/ Rewrite(r)
  PROVE  IInv' /\ (\A k \in Indexed : marks'[k] = marks[k])
<1>. USE DEF IInv
<1>1. /\ book \subseteq book' /\ book' \subseteq Addresses
      /\ Ends(r)
      /\ \E S \in SUBSET book' :
           marks' = [marks EXCEPT !["default"] = @ \cup S]
  <2>1. CASE Insert(r)
    <3>1. CASE book = Addresses /\ UNCHANGED <<book, marks>>
      <4>1. marks' = [marks EXCEPT !["default"] = @ \cup {}]
        BY <3>1 DEF BookTypeOK, Kinds
      <4>. QED
        BY <2>1, <3>1, <4>1 DEF Insert, BookTypeOK
    <3>2. ASSUME NEW a \in Addresses \ book,
                 book' = book \cup {a},
                 marks' = [marks EXCEPT !["default"] = @ \cup {a}]
          PROVE  <1>1!2
      BY <2>1, <3>2 DEF Insert, BookTypeOK
    <3>. QED
      BY <2>1, <3>1, <3>2 DEF Insert, BookTypeOK
  <2>2. CASE Rewrite(r)
    BY <2>2 DEF Rewrite, BookTypeOK
  <2>. QED
    BY <2>1, <2>2
<1>2. PICK S \in SUBSET book' : marks' = [marks EXCEPT !["default"] = @ \cup S]
  BY <1>1
<1>3. \A k \in Indexed : marks'[k] = marks[k]
  BY <1>2 DEF BookTypeOK, Kinds, Indexed
<1>4. BookTypeOK'
  BY <1>1, <1>2 DEF BookTypeOK, Busy, Ends, Kinds
<1>5. CommitsSafely'
  BY <1>1, <1>3 DEF CommitsSafely, ReadyToCommit, BookTypeOK, Ends
<1>. QED
  BY <1>3, <1>4, <1>5 DEF OneDefaultPerPurpose

\* A setter becomes ready only when no other one is ready for its index.
LEMMA SetStep ==
  ASSUME IInv, NEW r \in Requests, Set(r)
  PROVE  IInv'
<1>. USE DEF IInv
<1>1. CASE Ends(r)
  BY <1>1, EndsStep DEF Set
<1>2. CASE ~Ends(r)
  <2>1. /\ stage[r] = "write" /\ job[r].op = "set"
        /\ WaitsFor(r) = {}
        /\ job[r].target \in book
        /\ ~Duplicate(r)
        /\ stage' = [stage EXCEPT ![r] = "commit"]
        /\ UNCHANGED <<book, marks, job, todo, cleared, alone>>
    BY <1>2 DEF Set, Affected
  <2>2. IndexHolders(r) = {}
    BY <2>1 DEF WaitsFor
  <2>3. BookTypeOK'
    BY <2>1 DEF BookTypeOK, Busy
  <2>4. ASSUME job[r].kind \in Indexed, NEW q \in Requests, q # r,
               stage[q] = "commit", job[q].kind = job[r].kind
        PROVE  FALSE
    BY <2>2, <2>4 DEF IndexHolders, Locked, Busy
  <2>5. job[r].kind \in Indexed
          => marks[job[r].kind] \subseteq cleared[r] \cup {job[r].target}
    BY <2>1 DEF Duplicate
  <2>6. ReadyToCommit(r)'
    BY <2>1, <2>4, <2>5 DEF ReadyToCommit, BookTypeOK
  <2>7. ASSUME NEW q \in Requests, q # r, stage'[q] = "commit"
        PROVE  ReadyToCommit(q)'
    BY <2>1, <2>4, <2>7 DEF ReadyToCommit, CommitsSafely, BookTypeOK
  <2>8. CommitsSafely'
    BY <2>6, <2>7 DEF CommitsSafely
  <2>. QED
    BY <2>1, <2>3, <2>8 DEF OneDefaultPerPurpose
<1>. QED
  BY <1>1, <1>2

\* The commit replaces the marks of one kind by the setter's own.
LEMMA CommitStep ==
  ASSUME IInv, NEW r \in Requests, Commit(r)
  PROVE  /\ IInv'
         /\ \A k \in Indexed : marks[k] # {} => marks'[k] # {}
<1>. USE DEF IInv
<1>. DEFINE k == job[r].kind
            a == job[r].target
<1>1. /\ stage[r] = "commit" /\ ReadyToCommit(r)
      /\ k \in Kinds /\ a \in book
      /\ marks' = [marks EXCEPT ![k] = (@ \ cleared[r]) \cup {a}]
      /\ Ends(r) /\ UNCHANGED book
  BY JobFacts DEF Commit, CommitsSafely, ReadyToCommit, BookTypeOK, Busy
<1>2. \A l \in Kinds \ {k} : marks'[l] = marks[l]
  BY <1>1 DEF BookTypeOK
<1>3. marks'[k] = (marks[k] \ cleared[r]) \cup {a}
  BY <1>1 DEF BookTypeOK
<1>4. k \in Indexed => marks'[k] = {a}
  BY <1>1, <1>3 DEF ReadyToCommit
<1>5. BookTypeOK'
  BY <1>1 DEF BookTypeOK, Busy, Ends
<1>6. OneDefaultPerPurpose'
  BY <1>2, <1>4 DEF OneDefaultPerPurpose, Indexed, Kinds
<1>7. CommitsSafely'
  <2>. SUFFICES ASSUME NEW q \in Requests, stage'[q] = "commit"
                PROVE  ReadyToCommit(q)'
    BY DEF CommitsSafely
  <2>1. /\ q # r /\ stage[q] = "commit" /\ ReadyToCommit(q)
        /\ job'[q] = job[q] /\ cleared'[q] = cleared[q]
    BY <1>1 DEF Ends, BookTypeOK, CommitsSafely
  <2>2. job[q].kind \in Indexed => job[q].kind # k
    BY <1>1, <2>1 DEF ReadyToCommit
  <2>3. job[q].kind \in Indexed => marks'[job[q].kind] = marks[job[q].kind]
    BY <1>2, <2>2 DEF Indexed, Kinds
  <2>4. ASSUME NEW p \in Requests, stage'[p] = "commit"
        PROVE  stage[p] = "commit" /\ job'[p] = job[p]
    BY <1>1, <2>4 DEF Ends, BookTypeOK
  <2>. QED
    BY <1>1, <2>1, <2>3, <2>4 DEF ReadyToCommit
<1>8. \A l \in Indexed : marks[l] # {} => marks'[l] # {}
  BY <1>2, <1>4 DEF Indexed, Kinds
<1>. QED
  BY <1>5, <1>6, <1>7, <1>8

\* Statements that stand alone, on a row nobody holds.
LEMMA PlainStep ==
  ASSUME IInv, NEW a \in Addresses, Add(a) \/ Edit(a) \/ DeleteAddress(a)
  PROVE  IInv'
<1>. USE DEF IInv
<1>1. CASE Add(a)
  <2>1. BookTypeOK'
    BY <1>1 DEF Add, BookTypeOK, Busy
  <2>2. CommitsSafely'
    BY <1>1 DEF Add, CommitsSafely, ReadyToCommit
  <2>. QED
    BY <1>1, <2>1, <2>2 DEF Add, OneDefaultPerPurpose
<1>2. CASE Edit(a)
  <2>1. BookTypeOK'
    BY <1>2 DEF Edit, BookTypeOK, Busy, Kinds
  <2>2. \A k \in Indexed : marks'[k] = marks[k]
    BY <1>2 DEF Edit, BookTypeOK, Kinds, Indexed
  <2>3. CommitsSafely'
    BY <1>2, <2>2 DEF Edit, CommitsSafely, ReadyToCommit
  <2>. QED
    BY <2>1, <2>2, <2>3 DEF OneDefaultPerPurpose
<1>3. CASE DeleteAddress(a)
  <2>1. BookTypeOK'
    BY <1>3 DEF DeleteAddress, Delete, BookTypeOK, Busy
  <2>2. \A k \in Indexed : marks'[k] = marks[k] \ {a}
    BY <1>3 DEF DeleteAddress, Delete, Kinds, Indexed
  <2>3. ASSUME NEW r \in Requests, stage[r] = "commit"
        PROVE  job[r].target # a
    BY <1>3, <2>3 DEF DeleteAddress, Unlocked, Locked
  <2>4. CommitsSafely'
    BY <1>3, <2>2, <2>3
       DEF DeleteAddress, Delete, CommitsSafely, ReadyToCommit
  <2>. QED
    BY <2>1, <2>2, <2>4 DEF OneDefaultPerPurpose
<1>. QED
  BY <1>1, <1>2, <1>3

\* The steps of a request, by what they do to the marks of the indexes.
LEMMA AdvanceStep ==
  ASSUME IInv, NEW r \in Requests, Handle(r) \/ Advance(r) \/ Cancel(r)
  PROVE  /\ IInv'
         /\ \A k \in Indexed : marks[k] # {} => marks'[k] # {}
<1>1. ASSUME NEW j \in Jobs, Begin(r, j)
      PROVE  IInv' /\ UNCHANGED marks
  BY <1>1, BeginStep DEF Begin
<1>2. CASE Handle(r)
  <2>1. PICK j \in Jobs : Begin(r, j)
    BY <1>2 DEF Handle, AddAddress, UpdateAddress, SetDefaultAddress,
                SetDefaultBillingAddress, SetDefaultShippingAddress, Jobs, Kinds
  <2>. QED
    BY <1>1, <2>1
<1>3. ASSUME NEW a \in Addresses, ClearRow(r, a)
      PROVE  IInv' /\ UNCHANGED marks
  BY <1>3, ClearRowStep DEF ClearRow
<1>4. CASE Cleared(r)
  BY <1>4, ClearedStep
<1>5. CASE Insert(r) \/ Rewrite(r)
  BY <1>5, WriteStep
<1>6. CASE Set(r)
  BY <1>6, SetStep DEF Set
<1>7. CASE Commit(r)
  BY <1>7, CommitStep
<1>8. CASE Victim(r) \/ Cancel(r)
  BY <1>8, EndsStep DEF Victim, Cancel
<1>. QED
  BY <1>2, <1>3, <1>4, <1>5, <1>6, <1>7, <1>8 DEF Advance

\* Every step preserves the invariant.
LEMMA StepIInv == IInv /\ [BookNext]_bookVars => IInv'
<1>. SUFFICES ASSUME IInv, [BookNext]_bookVars PROVE IInv'
  OBVIOUS
<1>1. CASE UNCHANGED bookVars
  BY <1>1 DEF bookVars, IInv, BookTypeOK, OneDefaultPerPurpose, CommitsSafely,
              ReadyToCommit, Busy
<1>2. CASE BookNext
  BY <1>2, AdvanceStep, PlainStep DEF BookNext
<1>. QED
  BY <1>1, <1>2

\* The invariant holds in every reachable state.
THEOREM Invariance == BookSpec => []IInv
  BY InitIInv, StepIInv, PTL DEF BookSpec

\* Types, and marks only on rows that exist, for any number of rows and
\* requests (all operations of the address repository).
THEOREM TypeCorrect == BookSpec => []BookTypeOK
  BY Invariance, PTL DEF IInv

\* The partial unique indexes and the order of clear, set and commit keep one
\* billing and one shipping default per user (SetDefaultBilling and
\* SetDefaultShipping), however many requests overlap.
THEOREM OnePerPurpose == BookSpec => []OneDefaultPerPurpose
  BY Invariance, PTL DEF IInv

\* A billing or shipping default goes away only with its address: every other
\* step leaves one (the setters, their rollbacks, Create, Update).
THEOREM PurposeKept == BookSpec => PurposeNeverLost
<1>1. ASSUME IInv, [BookNext]_bookVars
      PROVE  [\A k \in Indexed : marks[k] # {} /\ marks'[k] = {}
                => marks[k] \subseteq book \ book']_bookVars
  <2>. SUFFICES ASSUME BookNext,
                       NEW k \in Indexed, marks[k] # {}, marks'[k] = {}
                PROVE  marks[k] \subseteq book \ book'
    BY <1>1 DEF bookVars
  <2>1. ASSUME NEW r \in Requests, Handle(r) \/ Advance(r) \/ Cancel(r)
        PROVE  FALSE
    BY <1>1, <2>1, AdvanceStep
  <2>2. ASSUME NEW a \in Addresses, Add(a) \/ Edit(a)
        PROVE  FALSE
    BY <1>1, <2>2 DEF Add, Edit, IInv, BookTypeOK, Kinds, Indexed
  <2>3. ASSUME NEW a \in Addresses, DeleteAddress(a)
        PROVE  marks[k] \subseteq book \ book'
    <3>1. marks'[k] = marks[k] \ {a} /\ book' = book \ {a} /\ a \in book
      BY <2>3 DEF DeleteAddress, Delete, Kinds, Indexed
    <3>. QED
      BY <3>1
  <2>. QED
    BY <2>1, <2>2, <2>3 DEF BookNext
<1>. QED
  BY <1>1, Invariance, PTL DEF BookSpec, PurposeNeverLost

(***************************************************************************)
(* A request that no other one overlaps                                    *)
(***************************************************************************)

\* It is the only one that changes is_default, and whatever is marked it has
\* found in its snapshot or changed already.
SeesAll(r) ==
  /\ Busy(r) /\ job[r].kind = "default"
  /\ \A q \in Requests : Busy(q) /\ job[q].kind = "default" => q = r
  /\ stage[r] = "clear" => marks["default"] \subseteq todo[r] \cup cleared[r]
  /\ stage[r] # "clear" =>
       marks["default"] \subseteq (IF InTransaction(r) THEN cleared[r] ELSE {})

AloneSeesAll == \A r \in Requests : alone[r] => SeesAll(r)

\* What a step that leaves the request's own variables alone must keep.
LEMMA SeesAllKept ==
  ASSUME IInv, NEW r \in Requests, SeesAll(r),
         stage'[r] = stage[r], job'[r] = job[r], todo'[r] = todo[r],
         cleared'[r] = cleared[r], marks'["default"] \subseteq marks["default"],
         \A q \in Requests \ {r} :
           Busy(q)' /\ job'[q].kind = "default"
             => Busy(q) /\ job[q].kind = "default"
  PROVE  SeesAll(r)'
  BY DEF SeesAll, Busy, InTransaction

\* A statement of a request q other than r, if it can be one of a request for
\* another kind.
LEMMA OtherRequest ==
  ASSUME IInv, NEW q \in Requests, NEW r \in Requests,
         q # r, SeesAll(r), Busy(q)
  PROVE  job[q].kind \in Indexed /\ job[q].op = "set"
  BY JobFacts DEF IInv, BookTypeOK, SeesAll, Kinds, Indexed

\* A request that begins alone finds every mark; one that overlaps ends the
\* solitude of the others.
LEMMA AloneBegin ==
  ASSUME IInv, AloneSeesAll, NEW q \in Requests, NEW j \in Jobs, Begin(q, j)
  PROVE  AloneSeesAll'
<1>. USE DEF AloneSeesAll
<1>1. SUFFICES ASSUME NEW r \in Requests, alone'[r] PROVE SeesAll(r)'
  OBVIOUS
<1>2. /\ stage' = [stage EXCEPT ![q] = "clear"] /\ job' = [job EXCEPT ![q] = j]
      /\ todo' = [todo EXCEPT ![q] = marks[j.kind]]
      /\ UNCHANGED <<book, marks, cleared>>
  BY DEF Begin, Found
<1>3. CASE r = q
  <2>1. /\ j.kind = "default"
        /\ \A p \in Requests : Busy(p) => job[p].kind # "default"
    BY <1>1, <1>3 DEF Begin
  <2>. QED
    BY <1>2, <1>3, <2>1 DEF SeesAll, InTransaction, Busy, IInv, BookTypeOK
<1>4. CASE r # q
  <2>1. j.kind # "default" /\ alone[r]
    BY <1>1, <1>4 DEF Begin
  <2>. QED
    BY <1>2, <1>4, <2>1, SeesAllKept DEF Busy, IInv, BookTypeOK
<1>. QED
  BY <1>3, <1>4

\* A row it clears moves from what it has found to what it has changed.
LEMMA AloneClearRow ==
  ASSUME IInv, AloneSeesAll, NEW q \in Requests, NEW a \in Addresses,
         ClearRow(q, a)
  PROVE  AloneSeesAll'
<1>1. SUFFICES ASSUME NEW r \in Requests, alone[r], SeesAll(r) PROVE SeesAll(r)'
  BY DEF AloneSeesAll, ClearRow
<1>2. CASE r = q
  BY <1>1, <1>2 DEF ClearRow, SeesAll, InTransaction, Busy, IInv, BookTypeOK
<1>3. CASE r # q
  BY <1>1, <1>3, SeesAllKept DEF ClearRow, Busy, IInv, BookTypeOK
<1>. QED
  BY <1>2, <1>3

\* A clearing statement that commits by itself leaves no mark.
LEMMA AloneCleared ==
  ASSUME IInv, AloneSeesAll, NEW q \in Requests, Cleared(q)
  PROVE  AloneSeesAll'
<1>1. SUFFICES ASSUME NEW r \in Requests, alone[r], SeesAll(r) PROVE SeesAll(r)'
  BY DEF AloneSeesAll, Cleared
<1>2. /\ stage[q] = "clear" /\ todo[q] = {} /\ Busy(q)
      /\ stage' = [stage EXCEPT ![q] = "write"]
      /\ UNCHANGED <<book, job, todo, alone>>
  BY DEF Cleared, Busy
<1>3. CASE r = q
  <2>1. CASE InTransaction(r)
    BY <1>1, <1>2, <1>3, <2>1 DEF Cleared, SeesAll, InTransaction, Busy,
                                       IInv, BookTypeOK
  <2>2. CASE ~InTransaction(r)
    <3>1. marks'["default"] = marks["default"] \ cleared[r]
      BY <1>1, <1>3, <2>2 DEF Cleared, SeesAll, IInv, BookTypeOK, Kinds
    <3>2. marks'["default"] = {}
      BY <1>1, <1>2, <1>3, <3>1 DEF SeesAll
    <3>. QED
      BY <1>1, <1>2, <1>3, <2>2, <3>2
         DEF SeesAll, InTransaction, Busy, IInv, BookTypeOK
  <2>. QED
    BY <2>1, <2>2
<1>4. CASE r # q
  <2>1. InTransaction(q)
    BY <1>1, <1>2, <1>4, OtherRequest DEF InTransaction
  <2>. QED
    BY <1>1, <1>2, <1>4, <2>1, SeesAllKept DEF Cleared, Busy, IInv, BookTypeOK
<1>. QED
  BY <1>3, <1>4

\* The end of a request takes nothing from one that is alone, and has marked
\* nothing for it.
LEMMA AloneEnds ==
  ASSUME IInv, AloneSeesAll, NEW q \in Requests, Busy(q), Ends(q),
         \/ marks'["default"] \subseteq marks["default"]
         \/ job[q].kind = "default"
  PROVE  AloneSeesAll'
<1>1. SUFFICES ASSUME NEW r \in Requests, alone[r], SeesAll(r), r # q
               PROVE  SeesAll(r)'
  BY DEF AloneSeesAll, Ends, IInv, BookTypeOK
<1>2. job[q].kind # "default"
  BY <1>1 DEF SeesAll
<1>. QED
  BY <1>1, <1>2, SeesAllKept DEF Ends, Busy, IInv, BookTypeOK

\* The second statement, the commit, and every other way to end.
LEMMA AloneWrites ==
  ASSUME IInv, AloneSeesAll, NEW q \in Requests,
         \/ Insert(q) \/ Rewrite(q) \/ Set(q)
         \/ Commit(q) \/ Victim(q) \/ Cancel(q)
  PROVE  AloneSeesAll'
<1>1. CASE Insert(q) \/ Rewrite(q)
  <2>1. Busy(q) /\ job[q].kind = "default" /\ Ends(q)
    BY <1>1, JobFacts DEF Insert, Rewrite, Busy, IInv, BookTypeOK
  <2>. QED
    BY <2>1, AloneEnds
<1>2. CASE Set(q) /\ ~Ends(q)
  <2>1. SUFFICES ASSUME NEW r \in Requests, alone[r], SeesAll(r)
                 PROVE  SeesAll(r)'
    BY <1>2 DEF AloneSeesAll, Set
  <2>2. /\ stage[q] = "write" /\ stage' = [stage EXCEPT ![q] = "commit"]
        /\ UNCHANGED <<book, marks, job, todo, cleared>>
    BY <1>2 DEF Set
  <2>. QED
    BY <2>1, <2>2 DEF SeesAll, InTransaction, Busy, IInv, BookTypeOK
<1>3. CASE Set(q) /\ Ends(q)
  <2>1. Busy(q) /\ UNCHANGED marks
    BY <1>3 DEF Set, Busy
  <2>. QED
    BY <1>3, <2>1, AloneEnds
<1>4. CASE Commit(q)
  <2>1. Busy(q) /\ Ends(q) /\ job[q].kind \in Kinds
    BY <1>4, JobFacts DEF Commit, Busy, IInv, BookTypeOK
  <2>2. job[q].kind # "default" => marks'["default"] = marks["default"]
    BY <1>4 DEF Commit, IInv, BookTypeOK, Kinds
  <2>. QED
    BY <2>1, <2>2, AloneEnds
<1>5. CASE Victim(q) \/ Cancel(q)
  <2>1. Busy(q) /\ Ends(q) /\ UNCHANGED marks
    <3>1. CASE Cancel(q)
      BY <3>1 DEF Cancel
    <3>2. CASE Victim(q)
      <4>1. WaitsFor(q) # {}
        BY <3>2 DEF Victim, Deadlocked
      <4>. QED
        BY <3>2, <4>1 DEF Victim, WaitsFor, Busy
    <3>. QED
      BY <1>5, <3>1, <3>2
  <2>. QED
    BY <2>1, AloneEnds
<1>. QED
  BY <1>1, <1>2, <1>3, <1>4, <1>5

\* The statements that stand alone take marks away at most.
LEMMA AlonePlain ==
  ASSUME IInv, AloneSeesAll,
         \/ UNCHANGED bookVars
         \/ \E a \in Addresses : Add(a) \/ Edit(a) \/ DeleteAddress(a)
  PROVE  AloneSeesAll'
<1>1. /\ UNCHANGED <<stage, job, todo, cleared, alone>>
      /\ marks'["default"] \subseteq marks["default"]
  BY DEF bookVars, Add, Edit, DeleteAddress, Delete, IInv, BookTypeOK, Kinds
<1>. QED
  BY <1>1, SeesAllKept DEF AloneSeesAll, Busy

\* It holds in every reachable state.
LEMMA AloneInvariance == BookSpec => [](IInv /\ AloneSeesAll)
<1>1. BookInit => AloneSeesAll
  BY DEF BookInit, AloneSeesAll
<1>2. IInv /\ AloneSeesAll /\ [BookNext]_bookVars => AloneSeesAll'
  <2>. SUFFICES ASSUME IInv, AloneSeesAll, [BookNext]_bookVars
                PROVE  AloneSeesAll'
    OBVIOUS
  <2>1. ASSUME NEW r \in Requests, Handle(r)
        PROVE  AloneSeesAll'
    <3>1. PICK j \in Jobs : Begin(r, j)
      BY <2>1 DEF Handle, AddAddress, UpdateAddress, SetDefaultAddress,
                  SetDefaultBillingAddress, SetDefaultShippingAddress, Jobs,
                  Kinds
    <3>. QED
      BY <3>1, AloneBegin
  <2>2. ASSUME NEW r \in Requests, Advance(r) \/ Cancel(r)
        PROVE  AloneSeesAll'
    BY <2>2, AloneClearRow, AloneCleared, AloneWrites DEF Advance
  <2>. QED
    BY <2>1, <2>2, AlonePlain DEF BookNext
<1>. QED
  BY <1>1, <1>2, Invariance, PTL DEF BookSpec

\* The write that ends such a request leaves its own row as the only default.
LEMMA AloneStep ==
  ASSUME IInv, AloneSeesAll, [BookNext]_bookVars, NEW r \in Requests,
         alone[r], Busy(r), marks' # marks, Ends(r)
  PROVE  Cardinality(marks'["default"]) = 1
<1>1. SeesAll(r) /\ stage'[r] = "idle" /\ stage[r] # "idle"
  BY DEF AloneSeesAll, Busy, Ends, IInv, BookTypeOK
<1>2. \A a \in Addresses : ~(Add(a) \/ Edit(a) \/ DeleteAddress(a))
  BY <1>1 DEF Add, Edit, DeleteAddress
<1>3. ASSUME NEW q \in Requests, Handle(q) \/ Advance(q) \/ Cancel(q)
      PROVE  Insert(r) \/ Rewrite(r) \/ Commit(r)
  <2>1. \A j : ~Begin(q, j)
    BY <1>1 DEF Begin, IInv, BookTypeOK
  <2>2. ~Handle(q)
    BY <2>1 DEF Handle, AddAddress, UpdateAddress, SetDefaultAddress,
                SetDefaultBillingAddress, SetDefaultShippingAddress
  <2>3. ~Cleared(q) /\ \A a \in Addresses : ~ClearRow(q, a)
    BY <1>1 DEF Cleared, ClearRow, IInv, BookTypeOK
  <2>4. ~Set(q) /\ ~Victim(q) /\ ~Cancel(q)
    BY DEF Set, Victim, Cancel
  <2>5. Insert(q) \/ Rewrite(q) \/ Commit(q)
    BY <1>3, <2>2, <2>3, <2>4 DEF Advance
  <2>6. Ends(q)
    BY <2>5 DEF Insert, Rewrite, Commit
  <2>7. q = r
    BY <1>1, <2>6 DEF Ends, IInv, BookTypeOK
  <2>. QED
    BY <2>5, <2>7
<1>4. Insert(r) \/ Rewrite(r) \/ Commit(r)
  BY <1>2, <1>3 DEF BookNext, bookVars
<1>5. \E a : marks'["default"] = {a}
  <2>1. CASE Insert(r)
    <3>1. job[r].op = "create" /\ stage[r] = "write"
      BY <2>1 DEF Insert
    <3>2. marks["default"] = {}
      BY <1>1, <3>1 DEF SeesAll, InTransaction
    <3>3. PICK a : marks' = [marks EXCEPT !["default"] = @ \cup {a}]
      BY <2>1 DEF Insert
    <3>. QED
      BY <3>2, <3>3 DEF IInv, BookTypeOK, Kinds
  <2>2. CASE Rewrite(r)
    <3>1. job[r].op = "update" /\ stage[r] = "write"
      BY <2>2 DEF Rewrite
    <3>2. marks["default"] = {}
      BY <1>1, <3>1 DEF SeesAll, InTransaction
    <3>3. marks' = [marks EXCEPT !["default"] =
                      @ \cup ({job[r].target} \cap book)]
      BY <2>2 DEF Rewrite
    <3>4. job[r].target \in book
      <4>1. CASE {job[r].target} \cap book = {}
        BY <3>3, <4>1 DEF IInv, BookTypeOK
      <4>. QED
        BY <4>1
    <3>5. {job[r].target} \cap book = {job[r].target}
      BY <3>4
    <3>. QED
      BY <3>2, <3>3, <3>5 DEF IInv, BookTypeOK, Kinds
  <2>3. CASE Commit(r)
    <3>1. marks' = [marks EXCEPT !["default"] =
                      (@ \ cleared[r]) \cup {job[r].target}]
      <4>1. job[r].kind = "default"
        BY <1>1 DEF SeesAll
      <4>. QED
        BY <2>3, <4>1 DEF Commit
    <3>2. marks["default"] \subseteq cleared[r]
      <4>1. stage[r] # "clear"
        BY <2>3 DEF Commit
      <4>2. marks["default"] \subseteq
              (IF InTransaction(r) THEN cleared[r] ELSE {})
        BY <1>1, <4>1 DEF SeesAll
      <4>. QED
        BY <4>2
    <3>3. marks'["default"]
            = (marks["default"] \ cleared[r]) \cup {job[r].target}
      BY <3>1 DEF IInv, BookTypeOK, Kinds
    <3>. QED
      BY ONLY <3>2, <3>3
  <2>. QED
    BY <1>4, <2>1, <2>2, <2>3
<1>. QED
  BY <1>5, FS_Singleton

\* A change of the default that no other request overlaps leaves one default,
\* whatever double marks it finds (Create, Update, SetDefault).
THEOREM AloneRepairs == BookSpec => AloneLeavesOne
<1>1. ASSUME IInv /\ AloneSeesAll, [BookNext]_bookVars
      PROVE  [\A r \in Requests :
                alone[r] /\ Busy(r) /\ marks' # marks /\ Ends(r)
                  => Cardinality(marks'["default"]) = 1]_bookVars
  BY <1>1, AloneStep
<1>. QED
  BY <1>1, AloneInvariance, PTL DEF BookSpec, AloneLeavesOne

(***************************************************************************)
(* Accounts                                                                *)
(***************************************************************************)

\* No two accounts share an e-mail, and an e-mail that its user has not edited
\* is in the normal spelling.
Unique == \A u, v \in Accounts : email[u] = email[v] => u = v
Spelled == \A u \in Users \ edited : step[u] # "none" => email[u][2] = "normal"

AInv == AccountsTypeOK /\ Unique /\ Spelled

\* A spelling is a pair, and so is the normal one.
LEMMA EmailFacts ==
  /\ <<>> \notin Emails
  /\ \A e \in Emails : /\ e[1] \in Mailboxes /\ e = <<e[1], e[2]>>
                       /\ Normal(e) \in Emails
                       /\ Normal(e)[1] = e[1] /\ Normal(e)[2] = "normal"
  BY DEF Emails, Normal

\* There are no accounts at first.
LEMMA AccountInitInv == AccountInit => AInv
  BY DEF AccountInit, AInv, AccountsTypeOK, Unique, Spelled, Accounts,
         HasAccount

\* Each of the six handlers, and what it needs: the normal spelling of a new
\* e-mail, and the constraint where a row is written.
LEMMA AccountStep ==
  ASSUME AInv, AccountNext
  PROVE  AInv' /\ \A u \in Users : HasAccount(u) => HasAccount(u)'
<1>. USE DEF AInv, HasAccount, Accounts
<1>1. ASSUME NEW u \in Users, NEW e \in Emails, RegisterLooks(u, e)
      PROVE  AInv' /\ \A v \in Users : HasAccount(v) => HasAccount(v)'
  <2>1. /\ step[u] = "none" /\ step' = [step EXCEPT ![u] = "hashing"]
        /\ email' = [email EXCEPT ![u] = Normal(e)]
        /\ UNCHANGED <<tokens, edited>>
        /\ Normal(e) \in Emails /\ Normal(e) # <<>> /\ Normal(e)[2] = "normal"
    BY <1>1, EmailFacts DEF RegisterLooks
  <2>2. AccountsTypeOK'
    BY <2>1 DEF AccountsTypeOK
  <2>3. Unique' /\ Spelled'
    BY <2>1 DEF AccountsTypeOK, Unique, Spelled
  <2>. QED
    BY <2>1, <2>2, <2>3 DEF AccountsTypeOK
<1>2. ASSUME NEW u \in Users, NEW e \in Emails, Login(u, e)
      PROVE  AInv' /\ \A v \in Users : HasAccount(v) => HasAccount(v)'
  BY <1>2 DEF Login, AccountsTypeOK, Unique, Spelled
<1>3. ASSUME NEW u \in Users, NEW e \in Emails, UpdateMe(u, e)
      PROVE  AInv' /\ \A v \in Users : HasAccount(v) => HasAccount(v)'
  <2>1. /\ step[u] = "created" /\ email' = [email EXCEPT ![u] = e]
        /\ edited' = edited \cup {u} /\ UNCHANGED <<step, tokens>>
        /\ \A v \in Accounts : email[v] = e => v = u
        /\ e # <<>>
    BY <1>3, EmailFacts DEF UpdateMe, Authenticated, EmailFree, FindByEmail
  <2>2. AccountsTypeOK'
    BY <2>1 DEF AccountsTypeOK
  <2>3. Unique' /\ Spelled'
    BY <2>1 DEF AccountsTypeOK, Unique, Spelled
  <2>. QED
    BY <2>1, <2>2, <2>3
<1>4. ASSUME NEW u \in Users, RegisterCreates(u)
      PROVE  AInv' /\ \A v \in Users : HasAccount(v) => HasAccount(v)'
  <2>1. /\ step[u] = "hashing" /\ step' = [step EXCEPT ![u] = "created"]
        /\ \A v \in Accounts : email[v] = email[u] => v = u
        /\ UNCHANGED <<email, tokens, edited>>
    BY <1>4 DEF RegisterCreates, EmailFree, FindByEmail
  <2>2. AccountsTypeOK'
    BY <2>1 DEF AccountsTypeOK
  <2>3. Unique' /\ Spelled'
    BY <2>1 DEF AccountsTypeOK, Unique, Spelled
  <2>. QED
    BY <2>1, <2>2, <2>3 DEF AccountsTypeOK
<1>5. ASSUME NEW u \in Users, RegisterFails(u)
      PROVE  AInv' /\ \A v \in Users : HasAccount(v) => HasAccount(v)'
  <2>1. /\ step[u] = "hashing" /\ step' = [step EXCEPT ![u] = "none"]
        /\ email' = [email EXCEPT ![u] = <<>>]
        /\ UNCHANGED <<tokens, edited>>
    BY <1>5 DEF RegisterFails
  <2>2. AccountsTypeOK'
    BY <2>1 DEF AccountsTypeOK
  <2>3. Unique' /\ Spelled'
    BY <2>1 DEF AccountsTypeOK, Unique, Spelled
  <2>. QED
    BY <2>1, <2>2, <2>3 DEF AccountsTypeOK
<1>6. ASSUME NEW u \in Users, TokenExpires(u)
      PROVE  AInv' /\ \A v \in Users : HasAccount(v) => HasAccount(v)'
  BY <1>6 DEF TokenExpires, AccountsTypeOK, Unique, Spelled
<1>. QED
  BY <1>1, <1>2, <1>3, <1>4, <1>5, <1>6 DEF AccountNext

\* Two accounts of one mailbox in the normal spelling would share an e-mail.
LEMMA MailboxFromUnique == AInv => OneAccountPerMailbox
<1>. SUFFICES ASSUME AInv, NEW u \in Accounts, NEW v \in Accounts, u # v,
                     email[u][1] = email[v][1]
              PROVE  email[u] # email[v] /\ (u \in edited \/ v \in edited)
  BY DEF OneAccountPerMailbox
<1>1. email[u] # email[v]
  BY DEF AInv, Unique
<1>2. email[u] \in Emails /\ email[v] \in Emails
      /\ step[u] # "none" /\ step[v] # "none" /\ u \in Users /\ v \in Users
  BY DEF AInv, AccountsTypeOK, Accounts, HasAccount
<1>3. CASE u \notin edited /\ v \notin edited
  <2>1. email[u][2] = email[v][2]
    BY <1>2, <1>3 DEF AInv, Spelled
  <2>. QED
    BY <1>1, <1>2, <2>1, EmailFacts
<1>. QED
  BY <1>1, <1>3

\* The normal spelling of whatever is typed is the e-mail of one account.
LEMMA SignInFromUnique == AInv => NobodyLocksOut
<1>. SUFFICES ASSUME AInv, NEW u \in Accounts \ edited, NEW e \in Emails,
                     e[1] = email[u][1]
              PROVE  Admits(u, e)
  BY DEF NobodyLocksOut
<1>1. email[u] \in Emails /\ email[u][2] = "normal"
  BY DEF AInv, AccountsTypeOK, Spelled, Accounts, HasAccount
<1>2. email[u] = Normal(e)
  BY <1>1, EmailFacts DEF Normal
<1>. QED
  BY <1>2 DEF Admits, FindByEmail, AInv, Unique

(***************************************************************************)
(* Reviews                                                                 *)
(***************************************************************************)

\* Somebody will put the aggregate of p right: with a count still to be made,
\* or with one that is right.
Repairs(h, p) ==
  product[h] = p /\ (at[h] = "recompute" \/ seen[h] = Summary(p))

Repaired(p) == \E h \in Handlers : Repairs(h, p)

\* A handler has a product exactly while it serves a request.
HasProduct ==
  \A h \in Handlers :
    IF at[h] = "idle" THEN product[h] = NoProduct ELSE product[h] \in Products

\* A count nobody has overtaken is right unless the reviews have changed, and
\* whoever changed them has yet to count or has counted again.
FreshCounts ==
  \A h \in Handlers : \A p \in Products :
    at[h] = "write" /\ fresh[h] /\ product[h] = p /\ seen[h] # Summary(p) =>
      p \in excused \/ Repaired(p)

\* The inductive invariant.
RInv == TypeOK /\ AInv /\ HasProduct /\ FreshCounts /\ StaleHasCause

\* A count is a natural number.
LEMMA SummaryType ==
  ASSUME NEW p
  PROVE  Summary(p) \in [sum : Nat, count : Nat]
<1>1. IsFiniteSet(Approved(p))
  <2>1. Approved(p) \subseteq Users
    BY DEF Approved
  <2>. QED
    BY <2>1, UsersAreFinite, FS_Subset
<1>2. IsFiniteSet(Approved(p) \X (1 .. 5))
  <2>1. 1 \in Int /\ 5 \in Int
    OBVIOUS
  <2>2. IsFiniteSet(1 .. 5)
    BY <2>1, FS_Interval, Zenon
  <2>. QED
    BY <1>1, <2>2, FS_Product, Zenon
<1>3. IsFiniteSet(Stars(p))
  BY <1>2, FS_Subset DEF Stars
<1>. QED
  BY <1>1, <1>3, FS_CardinalityType DEF Summary

\* It depends on nothing but the ratings and statuses of the product's reviews.
LEMMA SummaryKept ==
  ASSUME NEW p, rating'[p] = rating[p], status'[p] = status[p]
  PROVE  Summary(p)' = Summary(p)
  BY DEF Summary, Stars, Approved, Exists

\* A cause stays while its handler and the reviews of the product do.
LEMMA RepairsKept ==
  ASSUME NEW p, NEW h \in Handlers, Repairs(h, p), Summary(p)' = Summary(p),
         product'[h] = product[h],
         \/ at'[h] = at[h] /\ seen'[h] = seen[h]
         \/ seen'[h] = Summary(p)
  PROVE  Repaired(p)'
  BY DEF Repairs, Repaired

\* No reviews, and aggregates of 0.
LEMMA ReviewsInitInv == Init => RInv
<1>. SUFFICES ASSUME Init PROVE RInv
  OBVIOUS
<1>. USE DEF Init
<1>1. AInv
  BY AccountInitInv
<1>2. TypeOK /\ HasProduct /\ FreshCounts
  BY <1>1 DEF TypeOK, AInv, Nothing, HasProduct, FreshCounts, Exists
<1>3. ASSUME NEW p \in Products
      PROVE  Summary(p) = Nothing
  <2>1. Approved(p) = {}
    BY <1>3 DEF Approved, Exists
  <2>2. Stars(p) = {}
    BY <2>1 DEF Stars
  <2>. QED
    BY <2>1, <2>2, FS_EmptySet DEF Summary, Nothing
<1>4. StaleHasCause
  BY <1>3 DEF StaleHasCause
<1>. QED
  BY <1>1, <1>2, <1>4 DEF RInv

\* StaleHasCause, by the causes named here.
LEMMA StaleIs ==
  StaleHasCause <=>
    \A p \in Products :
      aggregate[p] = Summary(p) \/ p \in excused \/ Repaired(p)
  BY DEF StaleHasCause, Repaired, Repairs

\* The accounts move; the reviews and their aggregates do not.
LEMMA AccountsMove ==
  ASSUME RInv,
         \/ AccountNext
         \/ UNCHANGED accountVars,
         UNCHANGED <<rating, status, aggregate, at, product, seen, fresh,
                     excused>>
  PROVE  RInv'
<1>1. AInv' /\ \A u \in Users : HasAccount(u) => HasAccount(u)'
  BY AccountStep DEF RInv, accountVars, AInv, AccountsTypeOK, Unique, Spelled,
                     Accounts, HasAccount
<1>2. TypeOK'
  BY <1>1 DEF RInv, TypeOK, AInv, Exists
<1>3. \A p : Summary(p)' = Summary(p)
  BY SummaryKept
<1>4. HasProduct' /\ FreshCounts' /\ StaleHasCause'
  BY <1>3 DEF RInv, HasProduct, FreshCounts, Repaired, Repairs, StaleHasCause
<1>. QED
  BY <1>1, <1>2, <1>4 DEF RInv

\* The reviews of one product change, and the handler that changed them goes
\* on to count them.
LEMMA ReviewsMove ==
  ASSUME RInv, NEW h \in Handlers, NEW p \in Products, at[h] = "idle",
         TypeOK', RecomputesNext(h, p), UNCHANGED accountVars,
         \A q \in Products \ {p} :
           rating'[q] = rating[q] /\ status'[q] = status[q]
  PROVE  RInv'
<1>1. AInv'
  BY DEF RInv, accountVars, AInv, AccountsTypeOK, Unique, Spelled, Accounts,
         HasAccount
<1>2. /\ at' = [at EXCEPT ![h] = "recompute"]
      /\ product' = [product EXCEPT ![h] = p]
      /\ UNCHANGED <<aggregate, seen, fresh, excused>>
  BY DEF RecomputesNext
<1>3. HasProduct'
  BY <1>2 DEF RInv, TypeOK, HasProduct
<1>4. Repaired(p)'
  BY <1>2 DEF Repaired, Repairs, RInv, TypeOK
<1>5. ASSUME NEW q \in Products, q # p
      PROVE  Summary(q)' = Summary(q) /\ (Repaired(q) => Repaired(q)')
  <2>1. Summary(q)' = Summary(q)
    BY <1>5, SummaryKept
  <2>2. ASSUME NEW g \in Handlers, Repairs(g, q)
        PROVE  Repaired(q)'
    <3>1. g # h
      BY <1>5, <2>2, ProductsAreProducts DEF Repairs, RInv, HasProduct
    <3>. QED
      BY <1>2, <2>1, <2>2, <3>1, RepairsKept DEF RInv, TypeOK
  <2>. QED
    BY <2>1, <2>2 DEF Repaired
<1>6. FreshCounts'
  <2>. SUFFICES ASSUME NEW g \in Handlers, NEW q \in Products, at'[g] = "write",
                       fresh'[g], product'[g] = q, seen'[g] # Summary(q)'
                PROVE  q \in excused' \/ Repaired(q)'
    BY DEF FreshCounts
  <2>1. g # h /\ product[g] = q /\ at[g] = "write" /\ fresh[g]
        /\ seen'[g] = seen[g]
    BY <1>2 DEF RInv, TypeOK, HasProduct
  <2>. QED
    BY <1>2, <1>4, <1>5, <2>1 DEF RInv, FreshCounts
<1>7. StaleHasCause'
  <2>1. \A q \in Products :
          aggregate[q] = Summary(q) \/ q \in excused \/ Repaired(q)
    BY StaleIs DEF RInv
  <2>2. \A q \in Products :
          aggregate'[q] = Summary(q)' \/ q \in excused' \/ Repaired(q)'
    BY <1>2, <1>4, <1>5, <2>1
  <2>. QED
    BY <2>2 DEF StaleHasCause, Repaired, Repairs
<1>. QED
  BY <1>1, <1>3, <1>6, <1>7 DEF RInv

\* A review is written by a user with an account, with 1 to 5 stars.
LEMMA CreateReviewStep ==
  ASSUME RInv, NEW h \in Handlers, NEW p \in Products, NEW u \in Users,
         NEW n \in RatingInputs, CreateReview(h, u, p, n)
  PROVE  RInv'
<1>1. /\ n \in 1 .. 5 /\ HasAccount(u)
      /\ rating' = [rating EXCEPT ![p][u] = n]
      /\ status' = [status EXCEPT ![p][u] = "approved"]
  BY RatingsAreIntegers DEF CreateReview, ValidRating, Authenticated, Create
<1>2. /\ RecomputesNext(h, p) /\ UNCHANGED accountVars /\ at[h] = "idle"
  BY DEF CreateReview
<1>3. TypeOK'
  BY <1>1, <1>2 DEF RInv, TypeOK, AccountsTypeOK, Accounts, HasAccount, Exists,
                    RecomputesNext, accountVars
<1>4. \A q \in Products \ {p} : rating'[q] = rating[q] /\ status'[q] = status[q]
  BY <1>1 DEF RInv, TypeOK
<1>. QED
  BY <1>2, <1>3, <1>4, ReviewsMove

\* Moderation changes a status that a review has.
LEMMA ModerateReviewStep ==
  ASSUME RInv, NEW h \in Handlers, NEW p \in Products, NEW u \in Users,
         NEW s \in StatusInputs, ModerateReview(h, u, p, s)
  PROVE  RInv'
<1>1. /\ s \in {"pending", "approved", "rejected"}
      /\ rating' = rating
      /\ status' = [status EXCEPT ![p][u] = s]
  BY DEF ModerateReview, validReviewStatus, Moderate
<1>2. /\ RecomputesNext(h, p) /\ UNCHANGED accountVars /\ at[h] = "idle"
  BY DEF ModerateReview
<1>3. TypeOK'
  BY <1>1, <1>2 DEF RInv, TypeOK, AccountsTypeOK, Accounts, HasAccount, Exists,
                    RecomputesNext, accountVars
<1>4. \A q \in Products \ {p} : rating'[q] = rating[q] /\ status'[q] = status[q]
  BY <1>1 DEF RInv, TypeOK
<1>. QED
  BY <1>2, <1>3, <1>4, ReviewsMove

\* Whoever has yet to count has a right count then.
LEMMA CountStep ==
  ASSUME RInv, NEW h \in Handlers, Count(h)
  PROVE  RInv'
<1>1. /\ at[h] = "recompute" /\ at' = [at EXCEPT ![h] = "write"]
      /\ seen' = [seen EXCEPT ![h] = Summary(product[h])]
      /\ fresh' = [fresh EXCEPT ![h] = TRUE]
      /\ UNCHANGED <<rating, status, aggregate, product, excused>>
      /\ UNCHANGED <<step, email, tokens, edited>>
  BY DEF Count
<1>2. TypeOK'
  BY <1>1, SummaryType DEF RInv, TypeOK, AccountsTypeOK, Accounts, HasAccount,
                           Exists
<1>3. AInv'
  BY <1>1 DEF RInv, AInv, AccountsTypeOK, Unique, Spelled, Accounts, HasAccount
<1>4. HasProduct'
  BY <1>1 DEF RInv, TypeOK, HasProduct
<1>5. \A p : Summary(p)' = Summary(p)
  BY <1>1, SummaryKept
<1>6. ASSUME NEW p \in Products, Repaired(p) PROVE Repaired(p)'
  <2>1. PICK g \in Handlers : Repairs(g, p)
    BY <1>6 DEF Repaired
  <2>2. CASE g = h
    <3>1. seen'[h] = Summary(p) /\ product'[h] = product[h]
      BY <1>1, <2>1, <2>2 DEF Repairs, RInv, TypeOK
    <3>. QED
      BY <1>5, <2>1, <2>2, <3>1, RepairsKept
  <2>3. CASE g # h
    BY <1>1, <1>5, <2>1, <2>3, RepairsKept DEF RInv, TypeOK
  <2>. QED
    BY <2>2, <2>3
<1>7. FreshCounts'
  <2>. SUFFICES ASSUME NEW g \in Handlers, NEW q \in Products, at'[g] = "write",
                       fresh'[g], product'[g] = q, seen'[g] # Summary(q)'
                PROVE  q \in excused' \/ Repaired(q)'
    BY DEF FreshCounts
  <2>1. g # h
    BY <1>1, <1>5 DEF RInv, TypeOK
  <2>2. at[g] = "write" /\ fresh[g] /\ product[g] = q
        /\ seen'[g] = seen[g]
    BY <1>1, <2>1 DEF RInv, TypeOK, HasProduct
  <2>. QED
    BY <1>1, <1>5, <1>6, <2>2 DEF RInv, FreshCounts
<1>8. StaleHasCause'
  <2>1. \A q \in Products :
          aggregate'[q] = Summary(q)' \/ q \in excused' \/ Repaired(q)'
    BY <1>1, <1>5, <1>6, StaleIs DEF RInv
  <2>. QED
    BY <2>1 DEF StaleHasCause, Repaired, Repairs
<1>. QED
  BY <1>2, <1>3, <1>4, <1>7, <1>8 DEF RInv

\* The causes at other handlers than the one that ends outlive it.
LEMMA DoneFacts ==
  ASSUME RInv, NEW h \in Handlers, at[h] # "idle", NEW G, Done(h, G)
  PROVE  /\ AInv' /\ HasProduct' /\ product[h] \in Products
         /\ \A p : Summary(p)' = Summary(p)
         /\ \A g \in Handlers \ {h} :
              at'[g] = at[g] /\ product'[g] = product[g] /\ seen'[g] = seen[g]
         /\ \A p \in Products : \A g \in Handlers \ {h} :
              Repairs(g, p) => Repaired(p)'
<1>1. /\ at' = [at EXCEPT ![h] = "idle"]
      /\ product' = [product EXCEPT ![h] = NoProduct]
      /\ seen' = [seen EXCEPT ![h] = Nothing]
      /\ UNCHANGED <<rating, status>>
      /\ UNCHANGED <<step, email, tokens, edited>>
  BY DEF Done
<1>2. AInv'
  BY <1>1 DEF RInv, AInv, AccountsTypeOK, Unique, Spelled, Accounts, HasAccount
<1>3. HasProduct' /\ product[h] \in Products
  BY <1>1 DEF RInv, TypeOK, HasProduct
<1>4. \A p : Summary(p)' = Summary(p)
  BY <1>1, SummaryKept
<1>5. \A g \in Handlers \ {h} : /\ at'[g] = at[g] /\ product'[g] = product[g]
                                /\ seen'[g] = seen[g]
  BY <1>1 DEF RInv, TypeOK
<1>6. ASSUME NEW p \in Products, NEW g \in Handlers \ {h}, Repairs(g, p)
      PROVE  Repaired(p)'
  BY <1>4, <1>5, <1>6, RepairsKept
<1>. QED
  BY <1>2, <1>3, <1>4, <1>5, <1>6

\* The write outdates every other count for the product; a write of a wrong
\* count leaves somebody to repair it or is a named cause.
LEMMA WriteAggregateStep ==
  ASSUME RInv, NEW h \in Handlers, Write(h)
  PROVE  RInv'
<1>0. PICK p \in Products : product[h] = p
  BY DEF Write, RInv, HasProduct
<1>. DEFINE G == {g \in Handlers : product[g] = p}
<1>1. /\ at[h] = "write" /\ Done(h, G)
      /\ aggregate' = [aggregate EXCEPT ![p] = seen[h]]
      /\ excused' = IF seen[h] = Summary(p) THEN excused \ {p}
                    ELSE IF fresh[h] THEN excused ELSE excused \cup {p}
  BY <1>0 DEF Write
<1>2. /\ AInv' /\ HasProduct'
      /\ \A q : Summary(q)' = Summary(q)
      /\ \A g \in Handlers \ {h} : /\ at'[g] = at[g] /\ product'[g] = product[g]
                                   /\ seen'[g] = seen[g]
      /\ \A q \in Products : \A g \in Handlers \ {h} :
           Repairs(g, q) => Repaired(q)'
  <2>. HIDE DEF G
  <2>. QED
    BY <1>1, DoneFacts
<1>3. TypeOK'
  BY <1>1, <1>2 DEF RInv, TypeOK, AccountsTypeOK, Accounts, HasAccount, Exists,
                    Done, Nothing
<1>4. fresh' = [g \in Handlers |-> fresh[g] /\ g \notin G]
  BY <1>1 DEF Done
<1>5. ASSUME NEW q \in Products \ {p}, Repaired(q) PROVE Repaired(q)'
  <2>1. PICK g \in Handlers \ {h} : Repairs(g, q)
    BY <1>0, <1>5 DEF Repaired, Repairs
  <2>. QED
    BY <1>2, <2>1
<1>6. \A q \in Products \ {p} : q \in excused => q \in excused'
  BY <1>1
<1>7. FreshCounts'
  <2>. SUFFICES ASSUME NEW g \in Handlers, NEW q \in Products, at'[g] = "write",
                       fresh'[g], product'[g] = q, seen'[g] # Summary(q)'
                PROVE  q \in excused' \/ Repaired(q)'
    BY DEF FreshCounts
  <2>1. g # h
    BY <1>1 DEF Done, RInv, TypeOK
  <2>2. at[g] = "write" /\ fresh[g] /\ product[g] = q
        /\ seen'[g] = seen[g] /\ q # p
    BY <1>0, <1>2, <1>4, <2>1 DEF RInv, HasProduct
  <2>. QED
    BY <1>2, <1>5, <1>6, <2>2 DEF RInv, FreshCounts
<1>8. aggregate'[p] = Summary(p)' \/ p \in excused' \/ Repaired(p)'
  <2>1. CASE seen[h] = Summary(p)
    BY <1>1, <1>2, <2>1 DEF RInv, TypeOK
  <2>2. CASE seen[h] # Summary(p) /\ ~fresh[h]
    BY <1>1, <2>2
  <2>3. CASE seen[h] # Summary(p) /\ fresh[h]
    <3>1. p \in excused \/ Repaired(p)
      BY <1>0, <1>1, <2>3 DEF RInv, FreshCounts
    <3>2. Repaired(p) => \E g \in Handlers \ {h} : Repairs(g, p)
      BY <1>1, <2>3 DEF Repaired, Repairs
    <3>. QED
      BY <1>1, <1>2, <2>3, <3>1, <3>2
  <2>. QED
    BY <2>1, <2>2, <2>3
<1>9. StaleHasCause'
  <2>1. \A q \in Products :
          aggregate'[q] = Summary(q)' \/ q \in excused' \/ Repaired(q)'
    BY <1>1, <1>2, <1>5, <1>6, <1>8, StaleIs DEF RInv, TypeOK
  <2>. QED
    BY <2>1 DEF StaleHasCause, Repaired, Repairs
<1>. QED
  BY <1>2, <1>3, <1>7, <1>9 DEF RInv

\* A failure is a cause of its own.
LEMMA RecomputeFailsStep ==
  ASSUME RInv, NEW h \in Handlers, RecomputeFails(h)
  PROVE  RInv'
<1>. DEFINE p == product[h]
<1>1. /\ at[h] # "idle" /\ Done(h, {h})
      /\ excused' = excused \cup {p} /\ aggregate' = aggregate
  BY DEF RecomputeFails
<1>2. /\ AInv' /\ HasProduct' /\ p \in Products
      /\ \A q : Summary(q)' = Summary(q)
      /\ \A g \in Handlers \ {h} : /\ at'[g] = at[g] /\ product'[g] = product[g]
                                   /\ seen'[g] = seen[g]
      /\ \A q \in Products : \A g \in Handlers \ {h} :
           Repairs(g, q) => Repaired(q)'
  BY <1>1, DoneFacts
<1>3. TypeOK'
  BY <1>1, <1>2 DEF RInv, TypeOK, AccountsTypeOK, Accounts, HasAccount, Exists,
                    Done, Nothing
<1>4. \A q \in Products \ {p} : Repaired(q) => Repaired(q)'
  BY <1>2 DEF Repaired, Repairs
<1>5. FreshCounts'
  <2>. SUFFICES ASSUME NEW g \in Handlers, NEW q \in Products, at'[g] = "write",
                       fresh'[g], product'[g] = q, seen'[g] # Summary(q)'
                PROVE  q \in excused' \/ Repaired(q)'
    BY DEF FreshCounts
  <2>1. g # h
    BY <1>1 DEF Done, RInv, TypeOK
  <2>2. at[g] = "write" /\ fresh[g] /\ product[g] = q
        /\ seen'[g] = seen[g]
    BY <1>1, <1>2, <2>1 DEF RInv, HasProduct, Done
  <2>. QED
    BY <1>1, <1>2, <1>4, <2>2 DEF RInv, FreshCounts
<1>6. StaleHasCause'
  <2>1. \A q \in Products :
          aggregate'[q] = Summary(q)' \/ q \in excused' \/ Repaired(q)'
    BY <1>1, <1>2, <1>4, StaleIs DEF RInv
  <2>. QED
    BY <2>1 DEF StaleHasCause, Repaired, Repairs
<1>. QED
  BY <1>2, <1>3, <1>5, <1>6 DEF RInv

\* The invariant holds in every reachable state.
LEMMA ReviewsInvariance == Spec => []RInv
<1>1. RInv /\ [Next]_vars => RInv'
  <2>. SUFFICES ASSUME RInv, [Next]_vars PROVE RInv'
    OBVIOUS
  <2>1. CASE UNCHANGED vars
    BY <2>1, AccountsMove DEF vars, accountVars
  <2>2. CASE AccountNext /\ UNCHANGED <<rating, status, aggregate, at, product,
                                        seen, fresh, excused>>
    BY <2>2, AccountsMove
  <2>3. CASE ReviewNext
    BY <2>3, CreateReviewStep, ModerateReviewStep, CountStep,
       WriteAggregateStep, RecomputeFailsStep DEF ReviewNext
  <2>. QED
    BY <2>1, <2>2, <2>3 DEF Next
<1>. QED
  BY <1>1, ReviewsInitInv, PTL DEF Spec

\* Accounts, reviews and aggregates keep their types; a review belongs to an
\* account (Create).
THEOREM ReviewsTyped == Spec => []TypeOK
  BY ReviewsInvariance, PTL DEF RInv

\* However registrations and edits overlap, one account per e-mail, and a second
\* one for a mailbox only through an edited spelling (Register, UpdateMe).
THEOREM OneAccount == Spec => []OneAccountPerMailbox
<1>1. RInv => OneAccountPerMailbox
  BY MailboxFromUnique DEF RInv
<1>. QED
  BY <1>1, ReviewsInvariance, PTL

\* Whoever never edited the e-mail can sign in with every spelling of it
\* (Login).
THEOREM SignIn == Spec => []NobodyLocksOut
<1>1. RInv => NobodyLocksOut
  BY SignInFromUnique DEF RInv
<1>. QED
  BY <1>1, ReviewsInvariance, PTL

\* An aggregate is wrong only for a named cause, for any number of handlers
\* that count, write and fail at the same time (RecomputeAggregate).
THEOREM StaleForCause == Spec => []StaleHasCause
  BY ReviewsInvariance, PTL DEF RInv
=============================================================================
