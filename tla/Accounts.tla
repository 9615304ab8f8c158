------------------------------ MODULE Accounts ------------------------------
(***************************************************************************)
(* Accounts and the tokens that stand for them (internal/users,            *)
(* internal/auth, the authentication handler, GET and PUT /users/me).      *)
(*                                                                         *)
(* Abstractions.  An e-mail is a mailbox and a spelling: "normal" is what  *)
(* ToLower and TrimSpace make of every spelling, "other" stands for all    *)
(* the rest.  An account is named after the registration that creates it,  *)
(* and its password is known to nobody else: whoever has it is the user.   *)
(* Names, tax numbers and roles are not modelled (nothing in the program   *)
(* writes a role), and neither is the cryptography of hashes and tokens.   *)
(***************************************************************************)
EXTENDS Integers, FiniteSets

CONSTANTS
  Users,    \* registrations, and the accounts they create
  Mailboxes \* mailboxes that receive what is sent to their spellings

ASSUME UsersAreFinite == IsFiniteSet(Users)

VARIABLES
  step,   \* how far each registration is
  email,  \* users.email; what a registration asked for before it has one
  tokens, \* the users who hold a token that has not expired
  edited  \* history: the users who changed their e-mail with UpdateMe

accountVars == <<step, email, tokens, edited>>

Emails == Mailboxes \X {"normal", "other"}

\* Not normalised at all: a faulty variant of the next definition.
AsTyped(e) == e

\* strings.TrimSpace(strings.ToLower(e))
Normal(e) == <<e[1], "normal">>

HasAccount(u) == step[u] = "created"
Accounts == {u \in Users : HasAccount(u)}

\* FindByEmail: the accounts stored under exactly this e-mail.
FindByEmail(e) == {u \in Accounts : email[u] = e}

\* No constraint: a faulty variant of the next definition.
AlwaysFree(e, u) == TRUE

\* users.email is UNIQUE.
EmailFree(e, u) == FindByEmail(e) \subseteq {u}

AccountInit ==
  /\ step = [u \in Users |-> "none"]
  /\ email = [u \in Users |-> <<>>]
  /\ tokens = {}
  /\ edited = {}

\* Register looks whether the e-mail is taken ...
RegisterLooks(u, e) ==
  /\ step[u] = "none"
  /\ FindByEmail(Normal(e)) = {}
  /\ step' = [step EXCEPT ![u] = "hashing"]
  /\ email' = [email EXCEPT ![u] = Normal(e)]
  /\ UNCHANGED <<tokens, edited>>

\* ... hashes the password, and inserts the row.
RegisterCreates(u) ==
  /\ step[u] = "hashing"
  /\ EmailFree(email[u], u)
  /\ step' = [step EXCEPT ![u] = "created"]
  /\ UNCHANGED <<email, tokens, edited>>

\* Somebody else inserted the e-mail first, or the server failed.
RegisterFails(u) ==
  /\ step[u] = "hashing"
  /\ step' = [step EXCEPT ![u] = "none"]
  /\ email' = [email EXCEPT ![u] = <<>>]
  /\ UNCHANGED <<tokens, edited>>

\* The user signs in with this e-mail and the user's own password.
Admits(u, e) == FindByEmail(Normal(e)) = {u}

Login(u, e) ==
  /\ HasAccount(u)
  /\ Admits(u, e)
  /\ tokens' = tokens \cup {u}
  /\ UNCHANGED <<step, email, edited>>

TokenExpires(u) ==
  /\ u \in tokens
  /\ tokens' = tokens \ {u}
  /\ UNCHANGED <<step, email, edited>>

\* A valid token of a user who still has a row.
Authenticated(u) == u \in tokens /\ HasAccount(u)

\* UpdateMe stores the e-mail as it was typed.
UpdateMe(u, e) ==
  /\ Authenticated(u)
  /\ EmailFree(e, u)
  /\ email' = [email EXCEPT ![u] = e]
  /\ edited' = edited \cup {u}
  /\ UNCHANGED <<step, tokens>>

AccountNext ==
  \E u \in Users :
    \/ \E e \in Emails : RegisterLooks(u, e) \/ Login(u, e) \/ UpdateMe(u, e)
    \/ RegisterCreates(u)
    \/ RegisterFails(u)
    \/ TokenExpires(u)

(***************************************************************************)
(* Properties                                                              *)
(***************************************************************************)

AccountsTypeOK ==
  /\ step \in [Users -> {"none", "hashing", "created"}]
  /\ email \in [Users -> Emails \cup {<<>>}]
  /\ \A u \in Users : email[u] = <<>> <=> step[u] = "none"
  /\ tokens \subseteq Accounts
  /\ edited \subseteq Accounts

\* Two registrations that look at the same time create one account, and an
\* account for a mailbox that has one already comes only from an e-mail that
\* was changed to another spelling (Register, UpdateMe).
OneAccountPerMailbox ==
  \A u, v \in Accounts :
    u # v /\ email[u][1] = email[v][1]
      => /\ email[u] # email[v]
         /\ u \in edited \/ v \in edited

\* Users who never changed their e-mail can sign in with it, in any spelling:
\* nobody else's registration or change locks them out (Register, Login).
NobodyLocksOut ==
  \A u \in Accounts \ edited : \A e \in Emails : e[1] = email[u][1] => Admits(u, e)
=============================================================================
