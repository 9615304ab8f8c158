-------------------------- MODULE RateLimitProofs --------------------------
(***************************************************************************)
(* Proofs about RateLimit, for any clients, requests, rate and burst, as   *)
(* long as the bucket's lifetime covers a full refill and twice the wait   *)
(* for the mutex (TTLCoversRefill).                                        *)
(*                                                                         *)
(* The argument is a balance kept per bucket: what a client has spent and  *)
(* what is left in its bucket never exceed a full burst and the time the   *)
(* bucket has been credited for.  A request that overtakes another moves   *)
(* that time back and takes the units back with it.                        *)
(***************************************************************************)
EXTENDS RateLimit, TLAPS

\* The balance of each bucket, and of each client whose bucket was evicted.
Balanced ==
  \A c \in Clients :
    IF c \in known
    THEN /\ spent[c] + tokens[c] <= Capacity + lastSeen[c]
         /\ tokens[c] + (now - lastSeen[c]) >= 0
    ELSE spent[c] = 0 \/ spent[c] + MaxDelay <= lastSweep

\* What a client that was refused finds when it comes back in time.
DueIsCovered ==
  \A c \in known : due[c] # 0 => tokens[c] + (due[c] - lastSeen[c]) >= TokenTime

IInv == TypeOK /\ Balanced /\ IdleForgotten /\ DueIsCovered

\* A burst is at least one token.
LEMMA CapacityHoldsToken == Capacity \in Nat /\ Capacity >= TokenTime
<1>1. Burst \in Nat /\ Burst >= 1
  BY TimesArePositive DEF Burst
<1>2. \A b, t \in Nat : b >= 1 => b * t \in Nat /\ b * t >= t
  BY SMT
<1>. QED
  BY <1>1, <1>2, TimesArePositive DEF Capacity

\* Rounding up to whole seconds never promises a token too early.
LEMMA RetryCovers ==
  ASSUME NEW n \in Nat, n >= 1
  PROVE  RetryAfter(n) \in Nat /\ Second * RetryAfter(n) >= n
<1>. DEFINE s == (n + Second - 1) \div Second
<1>1. Second \in Nat /\ Second >= 1
  BY TimesArePositive
<1>2. s \in Nat /\ Second * s >= n
  BY <1>1, SMT
<1>3. s >= 1
  BY <1>1, <1>2, SMT
<1>. QED
  BY <1>2, <1>3 DEF RetryAfter

\* The table starts empty.
LEMMA InitIInv == Init => IInv
  BY CapacityHoldsToken, TimesArePositive
     DEF Init, IInv, TypeOK, Balanced, IdleForgotten, DueIsCovered, Waiting,
         Idle, Nobody

\* Time credits every bucket.
LEMMA TickStep ==
  ASSUME IInv, Tick
  PROVE  IInv'
  BY TimesArePositive
     DEF Tick, IInv, TypeOK, Balanced, IdleForgotten, DueIsCovered, Waiting, Idle

LEMMA ArriveStep ==
  ASSUME IInv, NEW r \in Requests, NEW c \in Clients, Arrive(r, c)
  PROVE  IInv'
  BY TimesArePositive
     DEF Arrive, IInv, TypeOK, Balanced, IdleForgotten, DueIsCovered, Waiting,
         Idle

\* What a request finds and leaves in its client's bucket.
LEMMA AllowFacts ==
  ASSUME IInv, NEW r \in Requests, Allow(r),
         NEW t, t = stamp[r], NEW c, c = sender[r]
  PROVE  /\ t \in 0 .. now /\ now - t <= MaxDelay /\ c \in Clients
         /\ Available(c, t) \in -MaxDelay .. Capacity
         /\ Available(c, t) + (now - t) >= 0
         /\ spent[c] + Available(c, t) <= Capacity + t
         /\ known' = (known \ Evicted(t)) \cup {c}
         /\ lastSweep' \in 0 .. now /\ lastSweep <= lastSweep'
         /\ lastSweep' \in {lastSweep, t}
         /\ lastSeen'[c] = t
         /\ tokens'[c] = IF Available(c, t) >= TokenTime
                         THEN Available(c, t) - TokenTime ELSE Available(c, t)
         /\ \A d \in known' \ {c} : lastSeen'[d] = lastSeen[d] /\ tokens'[d] = tokens[d]
         /\ \A d \in Evicted(t) : /\ d \in known /\ lastSweep' = t
                                  /\ t - lastSeen[d] > BucketTTL
         /\ Evicted(t) = {} \/ lastSweep' = t
         /\ lastSweep' # lastSweep =>
              \A d \in known \ Evicted(t) : t - lastSeen[d] <= BucketTTL
<1>. USE CapacityHoldsToken, TimesArePositive, TTLCoversRefill
<1>1. /\ t \in 0 .. now /\ now - t <= MaxDelay /\ c \in Clients
  BY DEF IInv, TypeOK, Allow, Waiting, Idle
<1>2. \A d \in Evicted(t) : /\ d \in known /\ SweepsAt(t)
                            /\ t - lastSeen[d] > BucketTTL
  BY DEF Evicted, Expired
<1>3. /\ lastSweep' \in 0 .. now /\ lastSweep <= lastSweep'
      /\ lastSweep' \in {lastSweep, t}
      /\ SweepsAt(t) => lastSweep' = t
      /\ lastSweep' # lastSweep => SweepsAt(t)
  BY <1>1 DEF IInv, TypeOK, Allow, SweepsAt
<1>4. SweepsAt(t) => \A d \in known \ Evicted(t) : t - lastSeen[d] <= BucketTTL
  <2>. SUFFICES ASSUME SweepsAt(t), NEW d \in known \ Evicted(t)
                PROVE  t - lastSeen[d] <= BucketTTL
    OBVIOUS
  <2>1. ~(t - lastSeen[d] > BucketTTL)
    BY DEF Evicted, Expired
  <2>2. lastSeen[d] \in Int
    BY DEF IInv, TypeOK
  <2>. QED
    BY <1>1, <2>1, <2>2
<1>5. /\ known' = (known \ Evicted(t)) \cup {c}
      /\ lastSeen'[c] = t
      /\ tokens'[c] = IF Available(c, t) >= TokenTime
                      THEN Available(c, t) - TokenTime ELSE Available(c, t)
      /\ \A d \in known' \ {c} : lastSeen'[d] = lastSeen[d] /\ tokens'[d] = tokens[d]
  BY <1>1 DEF IInv, TypeOK, Allow, SeenAt
<1>6. /\ Available(c, t) \in -MaxDelay .. Capacity
      /\ Available(c, t) + (now - t) >= 0
      /\ spent[c] + Available(c, t) <= Capacity + t
  <2>1. /\ tokens[c] \in Int /\ lastSeen[c] \in 0 .. now /\ spent[c] \in Nat
        /\ now \in Nat /\ tokens[c] >= -MaxDelay /\ lastSweep \in 0 .. now
    BY <1>1 DEF IInv, TypeOK
  <2>2. CASE c \in known \ Evicted(t)
    <3>1. /\ spent[c] + tokens[c] <= Capacity + lastSeen[c]
          /\ tokens[c] + (now - lastSeen[c]) >= 0
      BY <1>1, <2>2 DEF IInv, Balanced
    <3>2. Available(c, t) = IF tokens[c] + (t - lastSeen[c]) > Capacity
                            THEN Capacity ELSE tokens[c] + (t - lastSeen[c])
      BY <2>2 DEF Available, Refilled
    <3>. QED
      BY <1>1, <2>1, <3>1, <3>2
  <2>3. CASE c \notin known \ Evicted(t)
    <3>1. Available(c, t) = Capacity
      BY <2>3 DEF Available
    <3>2. spent[c] <= t
      <4>1. CASE c \in Evicted(t)
        <5>1. spent[c] + tokens[c] <= Capacity + lastSeen[c]
          BY <1>1, <1>2, <4>1 DEF IInv, Balanced
        <5>. QED
          BY <1>1, <1>2, <2>1, <4>1, <5>1
      <4>2. CASE c \notin known
        BY <1>1, <2>1, <4>2 DEF IInv, Balanced
      <4>. QED
        BY <2>3, <4>1, <4>2
    <3>. QED
      BY <1>1, <2>1, <3>1, <3>2
  <2>. QED
    BY <2>2, <2>3
<1>7. Evicted(t) = {} \/ lastSweep' = t
  BY <1>2, <1>3
<1>. QED
  BY <1>1, <1>2, <1>3, <1>4, <1>5, <1>6, <1>7

\* Under the mutex the balance of the client is settled, and the balance of
\* the evicted ones is closed.
LEMMA AllowStep ==
  ASSUME IInv, NEW r \in Requests, Allow(r)
  PROVE  IInv'
<1>. DEFINE t == stamp[r]
            c == sender[r]
            have == Available(c, t)
            retry == t + Second * RetryAfter(TokenTime - have)
<1>. USE CapacityHoldsToken, TimesArePositive, TTLCoversRefill
<1>1. /\ t \in 0 .. now /\ now - t <= MaxDelay /\ c \in Clients
      /\ have \in -MaxDelay .. Capacity
      /\ have + (now - t) >= 0
      /\ spent[c] + have <= Capacity + t
      /\ known' = (known \ Evicted(t)) \cup {c}
      /\ lastSweep' \in 0 .. now /\ lastSweep <= lastSweep'
      /\ lastSweep' \in {lastSweep, t}
      /\ lastSeen'[c] = t
      /\ tokens'[c] = IF have >= TokenTime THEN have - TokenTime ELSE have
      /\ \A d \in known' \ {c} : lastSeen'[d] = lastSeen[d] /\ tokens'[d] = tokens[d]
      /\ \A d \in Evicted(t) : /\ d \in known /\ lastSweep' = t
                               /\ t - lastSeen[d] > BucketTTL
      /\ lastSweep' # lastSweep =>
           \A d \in known \ Evicted(t) : t - lastSeen[d] <= BucketTTL
  BY AllowFacts
<1>2. /\ now' = now
      /\ spent' = [spent EXCEPT ![c] = IF have >= TokenTime THEN @ + TokenTime ELSE @]
      /\ due' = [due EXCEPT ![c] = IF have >= TokenTime THEN 0 ELSE retry]
      /\ stamp' = [stamp EXCEPT ![r] = Idle]
      /\ sender' = [sender EXCEPT ![r] = Nobody]
      /\ answer' \in [Clients -> {"none", "admitted", "refused"}]
  BY <1>1 DEF Allow, IInv, TypeOK
<1>3. have < TokenTime => retry \in Nat /\ have + (retry - t) >= TokenTime
  <2>. SUFFICES ASSUME have < TokenTime
                PROVE  retry \in Nat /\ have + (retry - t) >= TokenTime
    OBVIOUS
  <2>. DEFINE n == TokenTime - have
              w == Second * RetryAfter(n)
  <2>1. n \in Nat /\ n >= 1 /\ t \in Nat /\ have \in Int
    BY <1>1
  <2>2. w >= n /\ w \in Nat
    BY <2>1, RetryCovers
  <2>3. retry = t + w
    OBVIOUS
  <2>. HIDE DEF w, retry, have, t
  <2>. QED
    BY <2>1, <2>2, <2>3
<1>. HIDE DEF have, retry, t, c
<1>4. TypeOK'
  <2>1. tokens' \in [Clients -> -MaxDelay .. Capacity]
    <3>1. tokens' = [d \in Clients |-> tokens'[d]]
      BY DEF Allow
    <3>2. \A d \in Clients \ {c} : tokens'[d] \in -MaxDelay .. Capacity
      BY DEF Allow, c, IInv, TypeOK
    <3>. QED
      BY <1>1, <3>1, <3>2
  <2>2. lastSeen' \in [Clients -> 0 .. now]
    <3>1. lastSeen' = [d \in Clients |-> lastSeen'[d]]
      BY DEF Allow
    <3>2. \A d \in Clients \ {c} : lastSeen'[d] \in 0 .. now
      BY DEF Allow, c, IInv, TypeOK
    <3>. QED
      BY <1>1, <3>1, <3>2
  <2>3. /\ spent' \in [Clients -> Nat]
        /\ due' \in [Clients -> Nat]
    BY <1>1, <1>2, <1>3 DEF IInv, TypeOK
  <2>4. known' \subseteq Clients
    BY <1>1 DEF IInv, TypeOK
  <2>5. /\ stamp' \in [Requests -> {Idle} \cup 0 .. now]
        /\ sender' \in [Requests -> Clients \cup {Nobody}]
        /\ \A q \in Requests : Waiting(q)' =>
             now - stamp'[q] <= MaxDelay /\ sender'[q] \in Clients
    BY <1>2 DEF IInv, TypeOK, Waiting
  <2>. QED
    BY <1>1, <1>2, <2>1, <2>2, <2>3, <2>4, <2>5 DEF IInv, TypeOK
<1>5. Balanced'
  <2>. SUFFICES ASSUME NEW d \in Clients
                PROVE  IF d \in known'
                       THEN /\ spent'[d] + tokens'[d] <= Capacity + lastSeen'[d]
                            /\ tokens'[d] + (now' - lastSeen'[d]) >= 0
                       ELSE spent'[d] = 0 \/ spent'[d] + MaxDelay <= lastSweep'
    BY DEF Balanced
  <2>1. /\ spent[d] \in Nat /\ tokens[d] \in -MaxDelay .. Capacity
        /\ lastSeen[d] \in 0 .. now /\ now \in Nat /\ lastSweep \in 0 .. now
    BY DEF IInv, TypeOK
  <2>2. CASE d = c
    BY <1>1, <1>2, <2>1, <2>2 DEF IInv, TypeOK
  <2>3. CASE d # c /\ d \in known'
    <3>1. spent'[d] = spent[d] /\ d \in known
      BY <1>1, <1>2, <2>3 DEF IInv, TypeOK
    <3>. QED
      BY <1>1, <1>2, <2>3, <3>1 DEF IInv, Balanced
  <2>4. CASE d # c /\ d \notin known'
    <3>1. spent'[d] = spent[d]
      BY <1>2, <2>4 DEF IInv, TypeOK
    <3>2. CASE d \in Evicted(t)
      <4>1. spent[d] + tokens[d] <= Capacity + lastSeen[d]
        BY <1>1, <3>2 DEF IInv, Balanced
      <4>. QED
        BY <1>1, <2>1, <2>4, <3>1, <3>2, <4>1
    <3>3. CASE d \notin known
      BY <1>1, <2>1, <2>4, <3>1, <3>3 DEF IInv, Balanced
    <3>. QED
      BY <1>1, <2>4, <3>2, <3>3
  <2>. QED
    BY <2>2, <2>3, <2>4
<1>6. IdleForgotten'
  <2>. SUFFICES ASSUME NEW d \in known'
                PROVE  lastSweep' - lastSeen'[d] <= BucketTTL
    BY DEF IdleForgotten
  <2>1. now \in Nat /\ lastSweep \in 0 .. now
    BY DEF IInv, TypeOK
  <2>2. CASE d = c
    BY <1>1, <2>1, <2>2
  <2>3. CASE d # c
    <3>1. d \in known \ Evicted(t) /\ lastSeen'[d] = lastSeen[d]
      BY <1>1, <2>3
    <3>2. lastSweep - lastSeen[d] <= BucketTTL
      BY <3>1 DEF IInv, IdleForgotten
    <3>. QED
      BY <1>1, <3>1, <3>2
  <2>. QED
    BY <2>2, <2>3
<1>7. DueIsCovered'
  <2>. SUFFICES ASSUME NEW d \in known', due'[d] # 0
                PROVE  tokens'[d] + (due'[d] - lastSeen'[d]) >= TokenTime
    BY DEF DueIsCovered
  <2>1. CASE d = c
    <3>1. have < TokenTime /\ due'[d] = retry
      BY <1>1, <1>2, <2>1 DEF IInv, TypeOK
    <3>. QED
      BY <1>1, <1>3, <2>1, <3>1
  <2>2. CASE d # c
    <3>1. /\ d \in known /\ lastSeen'[d] = lastSeen[d] /\ tokens'[d] = tokens[d]
          /\ due'[d] = due[d]
      BY <1>1, <1>2, <2>2 DEF IInv, TypeOK
    <3>. QED
      BY <3>1 DEF IInv, DueIsCovered
  <2>. QED
    BY <2>1, <2>2
<1>. QED
  BY <1>4, <1>5, <1>6, <1>7 DEF IInv

LEMMA StepIInv == IInv /\ [Next]_vars => IInv'
<1>. SUFFICES ASSUME IInv, [Next]_vars PROVE IInv'
  OBVIOUS
<1>1. CASE UNCHANGED vars
  BY <1>1 DEF vars, IInv, TypeOK, Balanced, IdleForgotten, DueIsCovered, Waiting
<1>2. CASE Next
  BY <1>2, TickStep, ArriveStep, AllowStep DEF Next
<1>. QED
  BY <1>1, <1>2

\* The invariant holds in every reachable state.
THEOREM Invariance == Spec => []IInv
  BY InitIInv, StepIInv, PTL DEF Spec

\* Bounds of every bucket and time, for any rate, burst and clients (allow).
THEOREM TypeCorrect == Spec => []TypeOK
  BY Invariance, PTL DEF IInv

\* Nobody is admitted more than a burst and the sustained rate, however
\* requests overtake one another and buckets are evicted (allow, sweepLocked).
THEOREM RateIsKept == Spec => []WithinRate
<1>1. IInv => WithinRate
  <2>. SUFFICES ASSUME IInv, NEW c \in Clients
                PROVE  spent[c] <= Capacity + now
    BY DEF WithinRate
  <2>1. /\ spent[c] \in Nat /\ tokens[c] \in Int /\ lastSeen[c] \in 0 .. now
        /\ now \in Nat /\ lastSweep \in 0 .. now
    BY DEF IInv, TypeOK
  <2>2. IF c \in known
        THEN /\ spent[c] + tokens[c] <= Capacity + lastSeen[c]
             /\ tokens[c] + (now - lastSeen[c]) >= 0
        ELSE spent[c] = 0 \/ spent[c] + MaxDelay <= lastSweep
    BY DEF IInv, Balanced
  <2>. QED
    BY <2>1, <2>2, CapacityHoldsToken, TimesArePositive
<1>. QED
  BY <1>1, Invariance, PTL

\* The sweep leaves no bucket that was idle for longer than bucketTTL.
THEOREM SweptTable == Spec => []IdleForgotten
  BY Invariance, PTL DEF IInv

\* A client that waits for Retry-After is not refused (allow).
THEOREM RetryHonest == Spec => RetryIsHonest
<1>1. ASSUME IInv, [Next]_vars
      PROVE  [\A r \in Requests :
                Waiting(r) /\ Allow(r) /\ answer'[sender[r]] = "refused"
                  => due[sender[r]] = 0 \/ stamp[r] < due[sender[r]]]_vars
  <2>. SUFFICES ASSUME NEW r \in Requests, Allow(r),
                       answer'[sender[r]] = "refused", due[sender[r]] # 0
                PROVE  stamp[r] < due[sender[r]]
    OBVIOUS
  <2>. DEFINE t == stamp[r]
              c == sender[r]
  <2>1. t \in 0 .. now /\ c \in Clients /\ now \in Nat
    BY <1>1, AllowFacts DEF IInv, TypeOK
  <2>2. ~(Available(c, t) >= TokenTime)
    BY <1>1, <2>1 DEF Allow, IInv, TypeOK
  <2>3. c \in known /\ Available(c, t) = Refilled(c, t)
    BY <2>2, CapacityHoldsToken, TimesArePositive DEF Available
  <2>4. tokens[c] + (due[c] - lastSeen[c]) >= TokenTime
    BY <1>1, <2>3 DEF IInv, DueIsCovered
  <2>5. /\ tokens[c] \in Int /\ lastSeen[c] \in Nat /\ due[c] \in Nat
    BY <1>1, <2>1 DEF IInv, TypeOK
  <2>6. tokens[c] + (t - lastSeen[c]) < TokenTime
    BY <2>1, <2>2, <2>3, <2>5, CapacityHoldsToken, TimesArePositive DEF Refilled
  <2>. QED
    BY <2>1, <2>4, <2>5, <2>6, TimesArePositive
<1>. QED
  BY <1>1, Invariance, PTL DEF Spec, RetryIsHonest

(***************************************************************************)
(* The limiter implements buckets that are never forgotten.                *)
(***************************************************************************)

\* A bucket idle for bucketTTL is worth a full one, so its eviction is not
\* seen; a request changes its own client's bucket only.
LEMMA OthersKeepWorth ==
  ASSUME IInv, NEW r \in Requests, Allow(r), NEW d \in Clients, d # sender[r]
  PROVE  Worth(d)' = Worth(d)
<1>. DEFINE t == stamp[r]
<1>1. /\ t \in 0 .. now /\ now' = now
      /\ known' = (known \ Evicted(t)) \cup {sender[r]}
      /\ \A e \in known' \ {sender[r]} : lastSeen'[e] = lastSeen[e] /\ tokens'[e] = tokens[e]
      /\ \A e \in Evicted(t) : e \in known /\ t - lastSeen[e] > BucketTTL
  BY AllowFacts DEF Allow
<1>. HIDE DEF t
<1>2. CASE d \in Evicted(t)
  <2>1. /\ tokens[d] \in -MaxDelay .. Capacity /\ lastSeen[d] \in 0 .. now
        /\ now \in Nat
    BY DEF IInv, TypeOK
  <2>2. t - lastSeen[d] > BucketTTL /\ d \notin known'
    BY <1>1, <1>2
  <2>3. tokens[d] + (now - lastSeen[d]) > Capacity
    BY <1>1, <2>1, <2>2, CapacityHoldsToken, TimesArePositive, TTLCoversRefill
  <2>. QED
    BY <2>2, <2>3 DEF Worth
<1>3. CASE d \notin Evicted(t)
  BY <1>1, <1>3 DEF Worth
<1>. QED
  BY <1>2, <1>3

\* What a request finds is what its client's bucket is worth, less what was
\* refilled since the request read the clock.
LEMMA OwnWorth ==
  ASSUME IInv, NEW r \in Requests, Allow(r),
         NEW t, t = stamp[r], NEW c, c = sender[r],
         NEW have, have = Available(c, t)
  PROVE  /\ Worth(c) = IF have + (now - t) > Capacity
                       THEN Capacity ELSE have + (now - t)
         /\ have >= TokenTime =>
              Worth(c)' = IF have - TokenTime + (now - t) > Capacity
                          THEN Capacity ELSE have - TokenTime + (now - t)
         /\ ~(have >= TokenTime) => Worth(c)' = Worth(c)
<1>. DEFINE left == IF have >= TokenTime THEN have - TokenTime ELSE have
            upto(n) == IF n > Capacity THEN Capacity ELSE n
<1>. USE CapacityHoldsToken, TimesArePositive, TTLCoversRefill
<1>1. /\ t \in 0 .. now /\ now - t <= MaxDelay /\ c \in Clients
      /\ have \in -MaxDelay .. Capacity
      /\ c \in known' /\ lastSeen'[c] = t /\ tokens'[c] = left
      /\ \A d \in Evicted(t) : d \in known /\ t - lastSeen[d] > BucketTTL
  BY AllowFacts
<1>2. now' = now /\ now \in Nat
  BY DEF Allow, IInv, TypeOK
<1>3. /\ tokens[c] \in -MaxDelay .. Capacity /\ lastSeen[c] \in 0 .. now
  BY <1>1 DEF IInv, TypeOK
<1>4. Worth(c)' = upto(left + (now - t))
  BY <1>1, <1>2 DEF Worth
<1>5. CASE c \in known \ Evicted(t)
  <2>1. have = upto(tokens[c] + (t - lastSeen[c]))
    BY <1>5 DEF Available, Refilled
  <2>2. Worth(c) = upto(tokens[c] + (now - lastSeen[c]))
    BY <1>5 DEF Worth
  <2>3. upto(have + (now - t)) = upto(tokens[c] + (now - lastSeen[c]))
    BY <1>1, <1>2, <1>3, <2>1
  <2>. QED
    BY <1>4, <2>2, <2>3
<1>6. CASE c \notin known \ Evicted(t)
  <2>1. have = Capacity
    BY <1>6 DEF Available
  <2>2. Worth(c) = Capacity
    <3>1. CASE c \notin known
      BY <3>1 DEF Worth
    <3>2. CASE c \in Evicted(t)
      <4>1. tokens[c] + (now - lastSeen[c]) > Capacity
        BY <1>1, <1>2, <1>3, <3>2
      <4>. QED
        BY <4>1 DEF Worth
    <3>. QED
      BY <1>6, <3>1, <3>2
  <2>. QED
    BY <1>1, <1>2, <1>4, <2>1, <2>2
<1>. QED
  BY <1>5, <1>6

\* A request under the mutex admits or refuses as the abstract bucket may.
LEMMA AllowRefines ==
  ASSUME IInv, NEW r \in Requests, Allow(r)
  PROVE  Promise!Next
<1>. SUFFICES ASSUME NEW t, t = stamp[r], NEW c, c = sender[r],
                     NEW have, have = Available(c, t)
              PROVE  Promise!Next
  OBVIOUS
<1>. USE CapacityHoldsToken, TimesArePositive
<1>1. /\ t \in 0 .. now /\ now - t <= MaxDelay /\ c \in Clients
      /\ have \in -MaxDelay .. Capacity
  BY AllowFacts
<1>2. now \in Nat
  BY DEF IInv, TypeOK
<1>3. /\ Worth(c) = IF have + (now - t) > Capacity THEN Capacity ELSE have + (now - t)
      /\ have >= TokenTime =>
           Worth(c)' = IF have - TokenTime + (now - t) > Capacity
                       THEN Capacity ELSE have - TokenTime + (now - t)
      /\ ~(have >= TokenTime) => Worth(c)' = Worth(c)
  BY OwnWorth
<1>4. \A d \in Clients \ {c} : Worth(d)' = Worth(d)
  BY OthersKeepWorth
<1>5. answer' = [answer EXCEPT ![c] = IF have >= TokenTime THEN "admitted" ELSE "refused"]
  BY DEF Allow
<1>6. CASE have >= TokenTime
  <2>1. Level' = [Level EXCEPT ![c] = Level'[c]]
    BY <1>1, <1>4 DEF Level
  <2>2. /\ Level[c] >= TokenTime
        /\ Level[c] - TokenTime <= Level'[c]
        /\ Level'[c] <= Promise!Full(Level[c] - TokenTime + MaxDelay)
    BY <1>1, <1>2, <1>3, <1>6 DEF Level, Promise!Full
  <2>3. Promise!Admit(c)
    BY <1>5, <1>6, <2>1, <2>2 DEF Promise!Admit
  <2>. QED
    BY <1>1, <2>3 DEF Promise!Next
<1>7. CASE ~(have >= TokenTime)
  <2>1. Level' = Level
    BY <1>3, <1>4, <1>7 DEF Level
  <2>2. Level[c] < TokenTime + MaxDelay
    BY <1>1, <1>2, <1>3, <1>7 DEF Level
  <2>3. Promise!Refuse(c)
    BY <1>5, <1>7, <2>1, <2>2 DEF Promise!Refuse
  <2>. QED
    BY <1>1, <2>3 DEF Promise!Next
<1>. QED
  BY <1>6, <1>7

\* Time fills every bucket by one unit.
LEMMA TickRefines ==
  ASSUME IInv, Tick
  PROVE  Promise!Next
<1>1. \A c \in Clients : Worth(c)' = Promise!Full(Worth(c) + 1)
  BY CapacityHoldsToken, TimesArePositive DEF Tick, Worth, Promise!Full, IInv, TypeOK
<1>2. Level' = [c \in Clients |-> Promise!Full(Level[c] + 1)]
  BY <1>1 DEF Level
<1>. QED
  BY <1>2 DEF Tick, Promise!Next, Promise!TimePasses

\* For any clients, rate and burst, the limiter with its evictions and its
\* overtaking requests answers like buckets that are never forgotten.
THEOREM EvictionIsInvisible == Spec => NothingForgotten
<1>1. Init => Promise!Init
  BY DEF Init, Promise!Init, Level, Worth
<1>2. IInv /\ [Next]_vars => [Promise!Next]_(Promise!vars)
  <2>. SUFFICES ASSUME IInv, [Next]_vars
                PROVE  Promise!Next \/ UNCHANGED Promise!vars
    OBVIOUS
  <2>1. ASSUME UNCHANGED <<now, known, tokens, lastSeen, answer>>
        PROVE  UNCHANGED Promise!vars
    BY <2>1 DEF Promise!vars, Level, Worth
  <2>2. CASE UNCHANGED vars
    BY <2>1, <2>2 DEF vars
  <2>3. ASSUME NEW r \in Requests, NEW c \in Clients, Arrive(r, c)
        PROVE  UNCHANGED Promise!vars
    BY <2>1, <2>3 DEF Arrive
  <2>. QED
    BY <2>2, <2>3, TickRefines, AllowRefines DEF Next
<1>. QED
  BY <1>1, <1>2, Invariance, PTL DEF Spec, NothingForgotten, Promise!Spec
=============================================================================
