----------------------------- MODULE RateLimit -----------------------------
(***************************************************************************)
(* The per-client rate limiter (internal/middleware/ratelimit.go).         *)
(*                                                                         *)
(* Every request reads the clock and then takes the mutex: requests may    *)
(* enter allow in another order than their times, and the time a bucket    *)
(* remembers may go back.  The table of buckets is swept by the requests   *)
(* themselves, at most once per interval.                                  *)
(*                                                                         *)
(* Abstractions.  Time is counted in ticks and tokens in the ticks their   *)
(* refill takes, so a bucket gains one unit per tick and a request costs   *)
(* TokenTime, sixty seconds divided by the requests per minute; rounding   *)
(* of floats is not modelled.  A client is the host part of RemoteAddr.    *)
(***************************************************************************)
EXTENDS Integers

CONSTANTS
  Clients,         \* client addresses
  Requests,        \* requests served at the same time
  TokenTime,       \* ticks that refill one token
  ConfiguredBurst, \* the burst RateLimit is called with
  Second,          \* ticks of a second
  SweepInterval,   \* sweepInterval
  BucketTTL,       \* bucketTTL
  MaxDelay,        \* longest time between reading the clock and the mutex
  MaxTime          \* bound: the clock stops there

\* burst < 1 counts as 1
Burst == IF ConfiguredBurst < 1 THEN 1 ELSE ConfiguredBurst

Capacity == Burst * TokenTime

ASSUME TimesArePositive ==
  /\ ConfiguredBurst \in Int
  /\ TokenTime \in Nat \ {0}
  /\ Second \in Nat \ {0}
  /\ SweepInterval \in Nat \ {0}
  /\ MaxDelay \in Nat
  /\ MaxTime \in Nat
ASSUME TTLCoversRefill == BucketTTL \in Nat /\ BucketTTL >= Capacity + 2 * MaxDelay

VARIABLES
  now,       \* the clock
  lastSweep, \* rl.lastSweep
  known,     \* clients that have a bucket
  tokens,    \* bucket.tokens, 0 without a bucket
  lastSeen,  \* bucket.lastSeen, 0 without a bucket
  stamp,     \* the time each request has read, Idle when there is none
  sender,    \* the client of each request
  answer,    \* the last answer each client got
  spent,     \* history: what all admitted requests of a client cost
  due        \* history: when the last refusal told the client to come back

vars == <<now, lastSweep, known, tokens, lastSeen, stamp, sender, answer, spent,
          due>>

Idle == -1
Nobody == "nobody"

Waiting(r) == stamp[r] # Idle

Init ==
  /\ now = 0
  /\ lastSweep = 0
  /\ known = {}
  /\ tokens = [c \in Clients |-> 0]
  /\ lastSeen = [c \in Clients |-> 0]
  /\ stamp = [r \in Requests |-> Idle]
  /\ sender = [r \in Requests |-> Nobody]
  /\ answer = [c \in Clients |-> "none"]
  /\ spent = [c \in Clients |-> 0]
  /\ due = [c \in Clients |-> 0]

\* The mutex is held for a few map operations: nobody waits longer than
\* MaxDelay for it.
Tick ==
  /\ now < MaxTime
  /\ \A r \in Requests : Waiting(r) => now - stamp[r] < MaxDelay
  /\ now' = now + 1
  /\ UNCHANGED <<lastSweep, known, tokens, lastSeen, stamp, sender, answer,
                 spent, due>>

\* A request reads the clock before it takes the mutex.
Arrive(r, c) ==
  /\ ~Waiting(r)
  /\ stamp' = [stamp EXCEPT ![r] = now]
  /\ sender' = [sender EXCEPT ![r] = c]
  /\ UNCHANGED <<now, lastSweep, known, tokens, lastSeen, answer, spent, due>>

(***************************************************************************)
(* Under the mutex, at the time t the request has read                     *)
(***************************************************************************)

SweepsAt(t) == t - lastSweep >= SweepInterval

\* The wrong constant, and no eviction: faulty variants of the next.
IdleForInterval(t) == {c \in known : t - lastSeen[c] > SweepInterval}
NeverEvicted(t) == {}

\* The buckets idle for longer than bucketTTL.
Expired(t) == {c \in known : t - lastSeen[c] > BucketTTL}

\* sweepLocked
Evicted(t) == IF SweepsAt(t) THEN Expired(t) ELSE {}

\* The bucket after the elapsed time, capped at the burst.
Refilled(c, t) ==
  LET n == tokens[c] + (t - lastSeen[c]) IN IF n > Capacity THEN Capacity ELSE n

\* What the bucket holds before the request is judged.
Available(c, t) ==
  IF c \in known \ Evicted(t) THEN Refilled(c, t) ELSE Capacity

\* Rounded down: a faulty variant of the next definition.
RetryFloor(n) == IF n \div Second < 1 THEN 1 ELSE n \div Second

\* Whole seconds until n units are refilled, rounded up and at least one.
RetryAfter(n) ==
  LET s == (n + Second - 1) \div Second IN IF s < 1 THEN 1 ELSE s

\* The bucket is seen only when it pays: a faulty variant of the next.
SeenWhenPaid(c, t) == IF Available(c, t) >= TokenTime THEN t ELSE lastSeen[c]

\* b.lastSeen after the request.
SeenAt(c, t) == t

\* allow
Allow(r) ==
  LET t == stamp[r]
      c == sender[r]
      have == Available(c, t)
      admitted == have >= TokenTime
  IN
  /\ Waiting(r)
  /\ lastSweep' = IF SweepsAt(t) THEN t ELSE lastSweep
  /\ known' = (known \ Evicted(t)) \cup {c}
  /\ tokens' = [d \in Clients |->
                  IF d = c THEN IF admitted THEN have - TokenTime ELSE have
                  ELSE IF d \in Evicted(t) THEN 0 ELSE tokens[d]]
  /\ lastSeen' = [d \in Clients |->
                    IF d = c THEN SeenAt(c, t)
                    ELSE IF d \in Evicted(t) THEN 0 ELSE lastSeen[d]]
  /\ stamp' = [stamp EXCEPT ![r] = Idle]
  /\ sender' = [sender EXCEPT ![r] = Nobody]
  /\ answer' = [answer EXCEPT ![c] = IF admitted THEN "admitted" ELSE "refused"]
  /\ spent' = [spent EXCEPT ![c] = IF admitted THEN @ + TokenTime ELSE @]
  /\ due' = [due EXCEPT ![c] =
               IF admitted THEN 0 ELSE t + Second * RetryAfter(TokenTime - have)]
  /\ UNCHANGED now

Next ==
  \/ Tick
  \/ \E r \in Requests : Allow(r) \/ \E c \in Clients : Arrive(r, c)

Spec == Init /\ [][Next]_vars

(***************************************************************************)
(* Properties                                                              *)
(***************************************************************************)

TypeOK ==
  /\ now \in 0 .. MaxTime
  /\ lastSweep \in 0 .. now
  /\ known \subseteq Clients
  /\ tokens \in [Clients -> -MaxDelay .. Capacity]
  /\ lastSeen \in [Clients -> 0 .. now]
  /\ stamp \in [Requests -> {Idle} \cup 0 .. now]
  /\ \A r \in Requests : Waiting(r) => now - stamp[r] <= MaxDelay /\ sender[r] \in Clients
  /\ sender \in [Requests -> Clients \cup {Nobody}]
  /\ answer \in [Clients -> {"none", "admitted", "refused"}]
  /\ spent \in [Clients -> Nat]
  /\ due \in [Clients -> Nat]

\* No client is ever admitted more than a full burst and one request per
\* TokenTime since the start, although buckets are evicted and made anew and
\* although requests reach allow out of the order of their times (allow,
\* sweepLocked).
WithinRate == \A c \in Clients : spent[c] <= Capacity + now

\* What a client's bucket is worth now; one without a bucket has a full one.
Worth(c) ==
  LET n == tokens[c] + (now - lastSeen[c])
  IN IF c \notin known \/ n > Capacity THEN Capacity ELSE n

\* The level of every client's bucket, as the promise counts it.
Level == [c \in Clients |-> Worth(c)]

Promise == INSTANCE TokenBucket WITH Slack <- MaxDelay, level <- Level

\* "eviction never wrongly penalizes a returning client", nor rewards one: the
\* limiter with its sweep behaves as buckets that are never forgotten.
NothingForgotten == Promise!Spec

\* A client that waits as long as Retry-After said and asks for nothing else
\* meanwhile is not refused again (allow).
RetryIsHonest ==
  [][\A r \in Requests :
       Waiting(r) /\ Allow(r) /\ answer'[sender[r]] = "refused"
         => due[sender[r]] = 0 \/ stamp[r] < due[sender[r]]]_vars

\* The table keeps no bucket that was already idle for bucketTTL when it was
\* last swept, so between sweeps it holds the clients of one such period.
IdleForgotten == \A c \in known : lastSweep - lastSeen[c] <= BucketTTL
=============================================================================
