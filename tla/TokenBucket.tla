---------------------------- MODULE TokenBucket ----------------------------
(***************************************************************************)
(* What the rate limiter promises each client: a bucket that fills by one  *)
(* unit per tick and is never forgotten.  A request that is admitted costs *)
(* a token; one is refused only when there is no token to pay with.  Slack *)
(* is how far the time a request was stamped with may lag behind.          *)
(***************************************************************************)
EXTENDS Integers

CONSTANTS Clients, Capacity, TokenTime, Slack

VARIABLES
  level,  \* what each client's bucket holds now
  answer  \* the last answer each client got

vars == <<level, answer>>

Full(n) == IF n > Capacity THEN Capacity ELSE n

Init ==
  /\ level = [c \in Clients |-> Capacity]
  /\ answer = [c \in Clients |-> "none"]

TimePasses ==
  /\ level' = [c \in Clients |-> Full(level[c] + 1)]
  /\ UNCHANGED answer

Admit(c) ==
  /\ level[c] >= TokenTime
  /\ level' = [level EXCEPT ![c] = level'[c]]
  /\ level[c] - TokenTime <= level'[c]
  /\ level'[c] <= Full(level[c] - TokenTime + Slack)
  /\ answer' = [answer EXCEPT ![c] = "admitted"]

Refuse(c) ==
  /\ level[c] < TokenTime + Slack
  /\ answer' = [answer EXCEPT ![c] = "refused"]
  /\ UNCHANGED level

Next == TimePasses \/ \E c \in Clients : Admit(c) \/ Refuse(c)

Spec == Init /\ [][Next]_vars
=============================================================================
