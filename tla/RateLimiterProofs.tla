------------------------- MODULE RateLimiterProofs -------------------------
(***************************************************************************)
(* What the rate limiter allows and what it refuses, for any number of     *)
(* clients and requests, any burst, rate and size of the table.            *)
(*                                                                         *)
(* A bucket is an account of what its client has spent since any moment:   *)
(* never less than that (nobody is refused who kept to the limit), and, as *)
(* long as readings arrive in order, never more (nobody gets through more).*)
(***************************************************************************)
EXTENDS RateLimiter, TLAPS

\* Requests wait with readings of the past.
WaitingOK == \A t \in Tasks : waiting[t] # None => waiting[t].now <= clock

\* What was spent since a moment is less the later the moment.
SpentOK ==
    \A c \in Clients :
        /\ spent[c][MaxClock + 1] = 0
        /\ \A m, n \in 0 .. MaxClock + 1 : m <= n => spent[c][n] <= spent[c][m]

\* What a bucket lacks was spent: since some moment, its client has used up what
\* is missing from a burst and all that this stretch of time has refilled.
Explained(c, bucket) ==
    \E first \in 0 .. bucket.last_refill :
        spent[c][first] + bucket.tokens >= Capacity + (bucket.last_refill - first)

BucketsOK == \A c \in DOMAIN buckets : Explained(c, buckets[c])

\* The latest reading that was dealt with.
Latest == IF verdict = None THEN 0 ELSE verdict.now

\* What a client has spent, since any moment, its bucket lacks; one that was
\* evicted had refilled.
Covered(c, latest) ==
    IF c \in DOMAIN buckets
      THEN LET bucket == buckets[c]
           IN  /\ bucket.last_refill <= latest
               /\ \A first \in 0 .. MaxClock + 1 :
                     IF first <= bucket.last_refill
                       THEN spent[c][first] + bucket.tokens
                              <= Capacity + (bucket.last_refill - first)
                       ELSE spent[c][first] = 0
      ELSE \A first \in 0 .. MaxClock + 1 :
              IF first <= latest THEN spent[c][first] <= latest - first
                                 ELSE spent[c][first] = 0

InOrderOK == in_order => (\A c \in Clients : Covered(c, Latest)) /\ WithinAllowance

Inductive ==
    TypeOK /\ WaitingOK /\ SpentOK /\ BucketsOK /\ InOrderOK /\ NoUndueRefusal

-----------------------------------------------------------------------------
(* The arithmetic of a bucket.                                             *)

LEMMA CapacityType == Capacity \in Nat
  BY LimiterAssumption DEF Capacity

\* Time that passes raises what may be spent by what it refills.
LEMMA Later ==
    ASSUME NEW used \in Nat, NEW tokens \in Nat, NEW refilled \in Nat, NEW cap \in Nat,
           NEW last \in Nat, NEW now \in Nat, NEW first \in Nat,
           used + tokens <= cap + (last - first), last <= now, first <= last, refilled <= cap,
           refilled <= tokens + (now - last) \/ tokens + (now - last) >= cap
    PROVE  used + refilled <= cap + (now - first) /\ first <= now
  OBVIOUS

\* The tokens of a bucket at a reading: what the time since has refilled is
\* added up to a burst, and an earlier reading adds nothing.
LEMMA TokensValue ==
    ASSUME NEW bucket \in Bucket, NEW now \in Times
    PROVE  /\ TokensAt(bucket, now) \in 0 .. Capacity
           /\ LET elapsed == IF bucket.last_refill <= now THEN now - bucket.last_refill ELSE 0
                  refilled == bucket.tokens + elapsed
              IN  TokensAt(bucket, now) = IF refilled <= Capacity THEN refilled ELSE Capacity
<1> DEFINE late == now - bucket.last_refill
           elapsed == IF bucket.last_refill <= now THEN now - bucket.last_refill ELSE 0
           refilled == bucket.tokens + elapsed
<1>1. late \in Int /\ bucket.tokens \in Nat /\ bucket.last_refill \in Nat /\ now \in Nat
  BY LimiterAssumption, CapacityType DEF Bucket, Times
<1>2. Max({late, 0}) = elapsed
  BY <1>1 DEF Max
<1>3. refilled \in Nat
  BY <1>1
<1> HIDE DEF elapsed, refilled
<1>4. TokensAt(bucket, now) = Min({Capacity, refilled})
  BY <1>2 DEF TokensAt, refilled
<1>5. Min({Capacity, refilled}) = IF refilled <= Capacity THEN refilled ELSE Capacity
  BY <1>3, CapacityType DEF Min
<1> QED
  BY <1>3, <1>4, <1>5, CapacityType DEF elapsed, refilled

\* A bucket that is dropped had refilled, and the others are kept.
LEMMA TrackedBuckets ==
    ASSUME TypeOK, NEW now \in Times
    PROVE  /\ Tracked(now) \subseteq DOMAIN buckets
           /\ \A c \in DOMAIN buckets \ Tracked(now) : Idle(buckets[c], now)
  BY DEF Tracked, TypeOK

LEMMA RefilledType ==
    ASSUME TypeOK, NEW client \in Clients, NEW now \in Times
    PROVE  /\ Refilled(client, now) \in Bucket
           /\ Refilled(client, now).last_refill = now
           /\ client \in Tracked(now) => /\ buckets[client] \in Bucket
                                         /\ Refilled(client, now).tokens
                                              = TokensAt(buckets[client], now)
           /\ client \notin Tracked(now) => Refilled(client, now).tokens = Capacity
<1>1. FullBucket(now) \in Bucket
  BY CapacityType DEF FullBucket, Bucket
<1>2. client \in Tracked(now) => buckets[client] \in Bucket
  BY TrackedBuckets DEF TypeOK
<1>3. TokensAt(FullBucket(now), now) = Capacity
  <2>1. FullBucket(now).tokens = Capacity /\ FullBucket(now).last_refill = now
    BY DEF FullBucket
  <2> QED
    BY <1>1, <2>1, TokensValue, CapacityType DEF Times
<1>4. TokensAt(FullBucket(now), now) \in 0 .. Capacity
      /\ (client \in Tracked(now) => TokensAt(buckets[client], now) \in 0 .. Capacity)
  BY <1>1, <1>2, TokensValue
<1> QED
  BY <1>2, <1>3, <1>4 DEF Refilled, Bucket

\* What a refilled bucket lacks was spent, whatever its reading is.
LEMMA RefilledExplained ==
    ASSUME Inductive, NEW client \in Clients, NEW now \in Times
    PROVE  Explained(client, Refilled(client, now))
<1> DEFINE refilled == Refilled(client, now)
           used == spent[client]
<1>1. /\ refilled \in Bucket /\ refilled.last_refill = now /\ now \in Nat /\ now <= MaxClock
      /\ refilled.tokens \in Nat
  BY RefilledType, LimiterAssumption, CapacityType DEF Inductive, Times, Bucket
<1>2. /\ used \in [0 .. MaxClock + 1 -> Nat]
      /\ \A m, n \in 0 .. MaxClock + 1 : m <= n => used[n] <= used[m]
  BY DEF Inductive, TypeOK, SpentOK
<1>3. SUFFICES \E first \in 0 .. now :
                  used[first] + refilled.tokens >= Capacity + (now - first)
  BY <1>1 DEF Explained
<1> HIDE DEF refilled, used
<1>4. ASSUME refilled.tokens = Capacity
      PROVE  used[now] + refilled.tokens >= Capacity + (now - now)
  <2>1. used[now] \in Nat
    BY <1>1, <1>2, LimiterAssumption
  <2> QED
    BY <1>1, <1>4, <2>1, CapacityType
<1>5. CASE client \in Tracked(now) /\ refilled.tokens # Capacity
  <2> DEFINE bucket == buckets[client]
  <2>1. /\ bucket \in Bucket /\ refilled.tokens = TokensAt(bucket, now)
        /\ client \in DOMAIN buckets
    BY <1>5, RefilledType, TrackedBuckets DEF Inductive, refilled
  <2>2. bucket.tokens \in Nat /\ bucket.last_refill \in Nat /\ bucket.last_refill <= MaxClock
    BY <2>1, CapacityType, LimiterAssumption DEF Bucket, Times
  <2>3. PICK first \in 0 .. bucket.last_refill :
           used[first] + bucket.tokens >= Capacity + (bucket.last_refill - first)
    BY <2>1 DEF Inductive, BucketsOK, Explained, used
  <2>4. refilled.tokens = bucket.tokens
                          + (IF bucket.last_refill <= now THEN now - bucket.last_refill ELSE 0)
    BY <1>5, <2>1, TokensValue DEF Times
  <2> HIDE DEF bucket
  <2>5. first \in Nat /\ used[first] \in Nat /\ used[now] \in Nat
    BY <1>1, <1>2, <2>2, <2>3, LimiterAssumption
  <2>6. CASE bucket.last_refill <= now
    <3>1. used[first] + refilled.tokens >= Capacity + (now - first)
      BY <1>1, <2>2, <2>3, <2>4, <2>5, <2>6, CapacityType
    <3>2. first \in 0 .. now
      BY <1>1, <2>2, <2>3, <2>6
    <3> QED
      BY <3>1, <3>2
  <2>7. CASE bucket.last_refill > now /\ first <= now
    <3>1. used[first] + refilled.tokens >= Capacity + (now - first)
      BY <1>1, <2>2, <2>3, <2>4, <2>5, <2>7, CapacityType
    <3>2. first \in 0 .. now
      BY <1>1, <2>5, <2>7
    <3> QED
      BY <3>1, <3>2
  <2>8. CASE first > now
    <3>1. used[first] <= used[now]
      BY <1>1, <1>2, <2>2, <2>3, <2>8, LimiterAssumption
    <3>2. used[now] + refilled.tokens >= Capacity + (now - now)
      BY <1>1, <2>2, <2>3, <2>4, <2>5, <2>8, <3>1, CapacityType
    <3> QED
      BY <1>1, <3>2
  <2> QED
    BY <1>1, <2>2, <2>5, <2>6, <2>7, <2>8
<1>6. client \notin Tracked(now) => refilled.tokens = Capacity
  BY RefilledType DEF Inductive, refilled
<1> QED
  BY <1>1, <1>4, <1>5, <1>6

\* In order, what a client has spent its refilled bucket lacks.
LEMMA RefilledCovered ==
    ASSUME Inductive, in_order, NEW client \in Clients, NEW now \in Times, Latest <= now
    PROVE  \A first \in 0 .. MaxClock + 1 :
              IF first <= now
                THEN spent[client][first] + Refilled(client, now).tokens
                       <= Capacity + (now - first)
                ELSE spent[client][first] = 0
<1> DEFINE refilled == Refilled(client, now)
           used == spent[client]
<1>1. now \in Nat /\ Latest \in Nat /\ used \in [0 .. MaxClock + 1 -> Nat]
  BY LimiterAssumption DEF Times, Latest, Inductive, TypeOK, Verdict
<1>2. Covered(client, Latest)
  BY DEF Inductive, InOrderOK
<1>3. refilled.tokens \in Nat /\ refilled.tokens <= Capacity /\ Capacity \in Nat
  BY RefilledType, CapacityType DEF Inductive, Bucket
<1> HIDE DEF refilled
<1> SUFFICES ASSUME NEW first \in 0 .. MaxClock + 1
             PROVE  IF first <= now
                      THEN used[first] + refilled.tokens <= Capacity + (now - first)
                      ELSE used[first] = 0
  BY DEF refilled
<1>4. first \in Nat /\ used[first] \in Nat
  BY <1>1, LimiterAssumption
<1>5. CASE client \notin DOMAIN buckets
  <2>1. IF first <= Latest THEN used[first] <= Latest - first ELSE used[first] = 0
    BY <1>2, <1>5 DEF Covered
  <2> HIDE DEF used
  <2>2. CASE first <= Latest
    BY <1>1, <1>3, <1>4, <2>1, <2>2
  <2>3. CASE ~ first <= Latest
    BY <1>1, <1>3, <1>4, <2>1, <2>3
  <2> QED
    BY <2>2, <2>3
<1>6. CASE client \in DOMAIN buckets
  <2> DEFINE bucket == buckets[client]
             passed == now - bucket.last_refill
  <2>1. bucket \in Bucket
    BY <1>6 DEF Inductive, TypeOK
  <2>2. bucket.tokens \in Nat /\ bucket.last_refill \in Nat
    BY <2>1, CapacityType, LimiterAssumption DEF Bucket, Times
  <2>3. /\ bucket.last_refill <= Latest
        /\ first <= bucket.last_refill =>
              used[first] + bucket.tokens <= Capacity + (bucket.last_refill - first)
        /\ ~ first <= bucket.last_refill => used[first] = 0
    BY <1>2, <1>6 DEF Covered
  <2>4. bucket.last_refill <= now
    BY <1>1, <2>2, <2>3
  <2>5. refilled.tokens <= bucket.tokens + passed \/ bucket.tokens + passed >= Capacity
    <3>1. TokensAt(bucket, now) <= bucket.tokens + passed /\
          (TokensAt(bucket, now) >= Capacity => bucket.tokens + passed >= Capacity)
      BY <1>1, <2>1, <2>2, <2>4, TokensValue, CapacityType
    <3>2. CASE client \in Tracked(now)
      BY <3>1, <3>2, RefilledType DEF refilled, Inductive
    <3>3. CASE client \notin Tracked(now)
      BY <1>6, <3>1, <3>3, TrackedBuckets DEF Inductive, Idle
    <3> QED
      BY <3>2, <3>3
  <2>6. now \in Nat /\ refilled.tokens <= Capacity
    BY <1>1, <1>3
  <2> HIDE DEF bucket, used
  <2>7. CASE first <= bucket.last_refill
    <3>1. used[first] + refilled.tokens <= Capacity + (now - first) /\ first <= now
      BY <1>3, <1>4, <2>2, <2>3, <2>4, <2>5, <2>6, <2>7, Later
    <3> QED
      BY <3>1
  <2>8. CASE ~ first <= bucket.last_refill
    BY <1>3, <1>4, <2>3, <2>6, <2>8
  <2> QED
    BY <2>7, <2>8
<1> QED
  BY <1>5, <1>6

-----------------------------------------------------------------------------
(* The steps.                                                              *)

\* The clock and the requests that wait say nothing of buckets.
LEMMA OutsideStep ==
    ASSUME Inductive, UNCHANGED <<buckets, verdict, spent, in_order>>,
           clock' \in Times, waiting' \in [Tasks -> Request \cup {None}], WaitingOK'
    PROVE  Inductive'
<1>1. TypeOK' /\ SpentOK' /\ BucketsOK'
  BY DEF Inductive, TypeOK, SpentOK, BucketsOK, Explained
<1>2. InOrderOK' /\ NoUndueRefusal'
  BY DEF Inductive, InOrderOK, Covered, Latest, WithinAllowance, NoUndueRefusal, Spent
<1> QED
  BY <1>1, <1>2 DEF Inductive

\* The critical section, from the request that has taken the mutex.
LEMMA Acquired ==
    ASSUME Inductive, NEW task \in Tasks, TryAcquire(task)
    PROVE  \E client \in Clients, now \in Times :
              LET refilled == Refilled(client, now)
                  admitted == refilled.tokens >= Cost
              IN  /\ now <= clock
                  /\ waiting[task] # None /\ waiting[task].client = client
                  /\ DOMAIN buckets' = Tracked(now) \cup {client}
                  /\ buckets'[client] = Spend(refilled)
                  /\ \A c \in Tracked(now) \ {client} : buckets'[c] = buckets[c]
                  /\ verdict' = [client |-> client, now |-> now, admitted |-> admitted]
                  /\ verdict' \in Verdict /\ verdict' # None
                  /\ spent' \in [Clients -> [0 .. MaxClock + 1 -> Nat]]
                  /\ \A c \in Clients \ {client} : spent'[c] = spent[c]
                  /\ \A n \in 0 .. MaxClock + 1 :
                        spent'[client][n] =
                           IF admitted /\ n <= now THEN spent[client][n] + Cost
                                                   ELSE spent[client][n]
                  /\ in_order' = (in_order /\ (verdict = None \/ verdict.now <= now))
<1> DEFINE client == waiting[task].client
           now == waiting[task].now
           refilled == Refilled(client, now)
           admitted == refilled.tokens >= Cost
           used == [n \in 0 .. MaxClock + 1 |->
                      IF admitted /\ n <= now THEN spent[client][n] + Cost
                                              ELSE spent[client][n]]
<1>1. waiting[task] # None /\ client \in Clients /\ now \in Times /\ now <= clock
  BY DEF TryAcquire, Inductive, TypeOK, WaitingOK, Request
<1>2. /\ buckets' = [c \in Tracked(now) \cup {client} |->
                        IF c = client THEN Spend(refilled) ELSE buckets[c]]
      /\ verdict' = [client |-> client, now |-> now, admitted |-> admitted]
      /\ spent' = [spent EXCEPT ![client] = used]
      /\ in_order' = (in_order /\ (verdict = None \/ verdict.now <= now))
  BY DEF TryAcquire
<1>3. used \in [0 .. MaxClock + 1 -> Nat]
  BY <1>1, LimiterAssumption DEF Inductive, TypeOK
<1>4. /\ spent' \in [Clients -> [0 .. MaxClock + 1 -> Nat]]
      /\ \A c \in Clients \ {client} : spent'[c] = spent[c]
      /\ spent'[client] = used
  BY <1>1, <1>2, <1>3 DEF Inductive, TypeOK
<1>5. verdict' \in Verdict /\ verdict' # None
  <2>1. admitted \in BOOLEAN
    OBVIOUS
  <2> HIDE DEF client, now, admitted
  <2> QED
    BY <1>1, <1>2, <2>1, NoneAssumption DEF Verdict
<1> QED
  BY <1>1, <1>2, <1>4, <1>5

LEMMA TryAcquireStep ==
    ASSUME Inductive, NEW task \in Tasks, TryAcquire(task)
    PROVE  Inductive'
<1>1. PICK client \in Clients, now \in Times :
        LET refilled == Refilled(client, now)
            admitted == refilled.tokens >= Cost
        IN  /\ now <= clock
            /\ waiting[task] # None /\ waiting[task].client = client
            /\ DOMAIN buckets' = Tracked(now) \cup {client}
            /\ buckets'[client] = Spend(refilled)
            /\ \A c \in Tracked(now) \ {client} : buckets'[c] = buckets[c]
            /\ verdict' = [client |-> client, now |-> now, admitted |-> admitted]
            /\ verdict' \in Verdict /\ verdict' # None
            /\ spent' \in [Clients -> [0 .. MaxClock + 1 -> Nat]]
            /\ \A c \in Clients \ {client} : spent'[c] = spent[c]
            /\ \A n \in 0 .. MaxClock + 1 :
                  spent'[client][n] =
                     IF admitted /\ n <= now THEN spent[client][n] + Cost
                                             ELSE spent[client][n]
            /\ in_order' = (in_order /\ (verdict = None \/ verdict.now <= now))
  BY Acquired
<1> DEFINE refilled == Refilled(client, now)
           admitted == refilled.tokens >= Cost
           new == buckets'[client]
<1>2. /\ refilled \in Bucket /\ refilled.last_refill = now
      /\ refilled.tokens \in Nat /\ refilled.tokens <= Capacity
  BY RefilledType, CapacityType DEF Inductive, Bucket
<1>3. /\ new \in Bucket /\ new.last_refill = now
      /\ new.tokens = IF admitted THEN refilled.tokens - Cost ELSE refilled.tokens
  <2>1. new = Spend(refilled)
    BY <1>1
  <2> HIDE DEF refilled, new
  <2> QED
    BY <1>2, <2>1, LimiterAssumption, CapacityType DEF Spend, Bucket
<1>4. now \in Nat /\ now <= MaxClock /\ Cost \in Nat /\ Capacity \in Nat /\ MaxClock \in Nat
  BY LimiterAssumption, CapacityType DEF Times
<1>5. /\ \A c \in Clients : \A n \in 0 .. MaxClock + 1 :
            spent[c][n] \in Nat /\ spent'[c][n] \in Nat
      /\ \A c \in Clients : spent[c][MaxClock + 1] = 0
      /\ \A c \in Clients : \A m, n \in 0 .. MaxClock + 1 :
            m <= n => spent[c][n] <= spent[c][m]
  BY <1>1 DEF Inductive, TypeOK, SpentOK
<1>6. /\ \A c \in Clients \ {client} : spent'[c] = spent[c]
      /\ \A n \in 0 .. MaxClock + 1 :
            spent'[client][n] =
               IF admitted /\ n <= now THEN spent[client][n] + Cost ELSE spent[client][n]
  BY <1>1
<1>7. verdict'.client = client /\ verdict'.now = now /\ verdict'.admitted = admitted
      /\ verdict' # None
  BY <1>1
<1>8. /\ DOMAIN buckets' = Tracked(now) \cup {client}
      /\ Tracked(now) \subseteq DOMAIN buckets
      /\ \A c \in DOMAIN buckets \ Tracked(now) : Idle(buckets[c], now)
      /\ \A c \in Tracked(now) \ {client} : buckets'[c] = buckets[c]
  BY <1>1, TrackedBuckets DEF Inductive
<1>9. /\ waiting' \in [Tasks -> Request \cup {None}] /\ clock' = clock
      /\ \A t \in Tasks : waiting'[t] # None => waiting'[t] = waiting[t]
  BY DEF TryAcquire, Inductive, TypeOK
<1>10. TypeOK'
  <2>1. DOMAIN buckets' \subseteq Clients /\ \A c \in DOMAIN buckets' : buckets'[c] \in Bucket
    BY <1>3, <1>8 DEF Inductive, TypeOK
  <2> QED
    BY <1>1, <1>9, <2>1 DEF Inductive, TypeOK
<1>11. WaitingOK'
  BY <1>9 DEF Inductive, WaitingOK
<1> HIDE DEF admitted, refilled, new
<1>12. SpentOK'
  <2> SUFFICES ASSUME NEW c \in Clients
               PROVE  /\ spent'[c][MaxClock + 1] = 0
                      /\ \A m, n \in 0 .. MaxClock + 1 : m <= n => spent'[c][n] <= spent'[c][m]
    BY DEF SpentOK
  <2>1. spent'[c][MaxClock + 1] = 0
    BY <1>4, <1>5, <1>6
  <2>2. ASSUME NEW m \in 0 .. MaxClock + 1, NEW n \in 0 .. MaxClock + 1, m <= n
        PROVE  spent'[c][n] <= spent'[c][m]
    <3>1. spent[c][n] \in Nat /\ spent[c][m] \in Nat /\ spent[c][n] <= spent[c][m]
      BY <1>5, <2>2
    <3>2. n <= now => m <= now
      BY <1>4, <2>2
    <3> QED
      BY <1>4, <1>6, <3>1, <3>2
  <2> QED
    BY <2>1, <2>2
<1>13. BucketsOK'
  <2> SUFFICES ASSUME NEW c \in DOMAIN buckets' PROVE Explained(c, buckets[c])'
    BY DEF BucketsOK, Explained
  <2>1. CASE c = client
    <3>1. PICK first \in 0 .. now :
             spent[client][first] + refilled.tokens >= Capacity + (now - first)
      BY <1>2, RefilledExplained DEF Explained, refilled
    <3>2. /\ spent[client][first] \in Nat
          /\ spent'[client][first] =
                IF admitted THEN spent[client][first] + Cost ELSE spent[client][first]
      BY <1>4, <1>5, <1>6
    <3>3. spent'[client][first] + new.tokens = spent[client][first] + refilled.tokens
      BY <1>2, <1>3, <1>4, <3>2
    <3> QED
      BY <1>3, <2>1, <3>1, <3>3 DEF Explained, new
  <2>2. CASE c # client
    BY <2>2, <1>6, <1>8 DEF Inductive, TypeOK, BucketsOK, Explained
  <2> QED
    BY <2>1, <2>2
<1>14. NoUndueRefusal'
  <2> SUFFICES ASSUME ~ admitted
               PROVE  \E first \in 0 .. now :
                         spent'[client][first] - spent'[client][MaxClock + 1] + Cost
                           > Capacity + (now - first)
    BY <1>7 DEF NoUndueRefusal, Spent
  <2>1. PICK first \in 0 .. now :
           spent[client][first] + refilled.tokens >= Capacity + (now - first)
    BY <1>2, RefilledExplained DEF Explained, refilled
  <2>2. /\ spent[client][first] \in Nat /\ spent'[client][first] = spent[client][first]
        /\ spent'[client][MaxClock + 1] = 0
    BY <1>4, <1>5, <1>6
  <2>3. refilled.tokens < Cost
    BY <1>2, <1>4 DEF admitted
  <2>4. spent'[client][first] - spent'[client][MaxClock + 1] + Cost > Capacity + (now - first)
    BY <1>2, <1>4, <2>1, <2>2, <2>3
  <2> QED
    BY <2>4
<1>15. InOrderOK'
  <2> SUFFICES ASSUME in_order' PROVE (\A c \in Clients : Covered(c, Latest)') /\ WithinAllowance'
    BY DEF InOrderOK
  <2>1. in_order /\ Latest <= now /\ Latest \in Nat /\ Latest' = now
    <3>1. in_order /\ (verdict = None \/ verdict.now <= now)
      BY <1>1, Zenon
    <3>2. verdict # None => verdict.now \in Nat
      BY LimiterAssumption DEF Inductive, TypeOK, Verdict, Times
    <3> QED
      BY <1>4, <1>7, <3>1, <3>2 DEF Latest
  <2>2. \A c \in Clients : Covered(c, Latest)
    BY <2>1 DEF Inductive, InOrderOK
  <2>3. \A first \in 0 .. MaxClock + 1 :
           IF first <= now
             THEN spent'[client][first] + new.tokens <= Capacity + (now - first)
             ELSE spent'[client][first] = 0
    <3> SUFFICES ASSUME NEW first \in 0 .. MaxClock + 1
                 PROVE  IF first <= now
                          THEN spent'[client][first] + new.tokens <= Capacity + (now - first)
                          ELSE spent'[client][first] = 0
      OBVIOUS
    <3>1. IF first <= now
            THEN spent[client][first] + refilled.tokens <= Capacity + (now - first)
            ELSE spent[client][first] = 0
      BY <2>1, RefilledCovered DEF refilled
    <3>2. spent[client][first] \in Nat
      BY <1>5
    <3>3. CASE first <= now
      <4>1. spent'[client][first] + new.tokens = spent[client][first] + refilled.tokens
        BY <1>2, <1>3, <1>4, <1>6, <3>2, <3>3
      <4> QED
        BY <3>1, <3>3, <4>1
    <3>4. CASE ~ first <= now
      BY <1>6, <3>1, <3>4
    <3> QED
      BY <3>3, <3>4
  <2>4. ASSUME NEW c \in Clients PROVE Covered(c, now)'
    <3>1. CASE c = client
      BY <1>3, <1>4, <1>8, <2>3, <3>1 DEF Covered, new
    <3>2. CASE c # client
      <4>1. CASE c \in DOMAIN buckets'
        <5>1. c \in DOMAIN buckets /\ buckets'[c] = buckets[c] /\ spent'[c] = spent[c]
          BY <1>6, <1>8, <3>2, <4>1
        <5>2. buckets[c].last_refill <= Latest /\ buckets[c].last_refill \in Nat
          BY <2>2, <5>1, LimiterAssumption DEF Covered, Inductive, TypeOK, Bucket, Times
        <5>3. buckets[c].last_refill <= now
          BY <1>4, <2>1, <5>2
        <5> QED
          BY <2>2, <4>1, <5>1, <5>3 DEF Covered
      <4>2. CASE c \notin DOMAIN buckets'
        <5>1. c \notin Tracked(now) /\ spent'[c] = spent[c]
          BY <1>6, <1>8, <3>2, <4>2
        <5>2. Refilled(c, now).tokens = Capacity
          BY <5>1, RefilledType DEF Inductive
        <5>3. ASSUME NEW first \in 0 .. MaxClock + 1
              PROVE  IF first <= now THEN spent[c][first] <= now - first
                                     ELSE spent[c][first] = 0
          <6>1. IF first <= now
                  THEN spent[c][first] + Capacity <= Capacity + (now - first)
                  ELSE spent[c][first] = 0
            BY <2>1, <5>2, RefilledCovered
          <6>2. spent[c][first] \in Nat /\ first \in Nat
            BY <1>5
          <6> QED
            BY <1>4, <6>1, <6>2
        <5> QED
          BY <4>2, <5>1, <5>3 DEF Covered
      <4> QED
        BY <4>1, <4>2
    <3> QED
      BY <3>1, <3>2
  <2>5. ASSUME NEW c \in Clients, NEW first \in Times, NEW last \in Times, first <= last
        PROVE  spent'[c][first] - spent'[c][last + 1] <= Capacity + (last - first)
    <3>1. /\ first \in Nat /\ last \in Nat /\ first \in 0 .. MaxClock + 1
          /\ last + 1 \in 0 .. MaxClock + 1
      BY <1>4 DEF Times
    <3>2. spent[c][first] - spent[c][last + 1] <= Capacity + (last - first)
      BY <2>1, <2>5 DEF Inductive, InOrderOK, WithinAllowance, Spent
    <3>3. CASE c # client
      BY <1>6, <3>2, <3>3
    <3>4. CASE c = client /\ last >= now
      <4>1. spent[c][last + 1] = 0
        BY <1>4, <2>1, <3>1, <3>4, RefilledCovered
      <4>2. spent'[c][last + 1] = 0
        BY <1>4, <1>6, <3>1, <3>4, <4>1
      <4>3. CASE first <= now
        <5>1. spent'[c][first] + new.tokens <= Capacity + (now - first)
          BY <2>3, <3>1, <3>4, <4>3
        <5>2. spent'[c][first] \in Nat /\ new.tokens \in Nat
          BY <1>3, <1>4, <1>5, <3>1 DEF Bucket
        <5> QED
          BY <1>4, <3>1, <3>4, <4>2, <4>3, <5>1, <5>2
      <4>4. CASE ~ first <= now
        <5>1. spent'[c][first] = 0
          BY <2>3, <3>1, <3>4, <4>4
        <5> QED
          BY <1>4, <2>5, <3>1, <4>2, <5>1
      <4> QED
        BY <4>3, <4>4
    <3>5. CASE c = client /\ last < now
      <4>1. spent[c][first] \in Nat /\ spent[c][last + 1] \in Nat
        BY <1>5, <3>1
      <4>2. first <= now /\ last + 1 <= now
        BY <1>4, <2>5, <3>1, <3>5
      <4>3. spent'[c][first] - spent'[c][last + 1] = spent[c][first] - spent[c][last + 1]
        BY <1>4, <1>6, <3>1, <3>5, <4>1, <4>2
      <4> QED
        BY <3>2, <4>3
    <3> QED
      BY <1>4, <3>1, <3>3, <3>4, <3>5
  <2> QED
    BY <2>1, <2>4, <2>5 DEF WithinAllowance, Spent
<1> QED
  BY <1>10, <1>11, <1>12, <1>13, <1>14, <1>15 DEF Inductive

\* The invariant is inductive.
THEOREM StepInductive == Inductive /\ [Next]_vars => Inductive'
<1> SUFFICES ASSUME Inductive, [Next]_vars PROVE Inductive'
  OBVIOUS
<1>1. \A t \in Tasks : waiting[t] # None => waiting[t].now \in Times
  BY DEF Inductive, TypeOK, Request
<1>2. CASE Tick
  <2>1. clock' \in Times /\ clock <= clock' /\ clock \in Nat
    BY <1>2, LimiterAssumption DEF Tick, Inductive, TypeOK, Times
  <2>2. WaitingOK'
    BY <1>1, <1>2, <2>1, LimiterAssumption DEF Tick, Inductive, WaitingOK, Times
  <2> QED
    BY <1>2, <2>1, <2>2, OutsideStep DEF Tick, Inductive, TypeOK
<1>3. ASSUME NEW task \in Tasks, NEW client \in Clients, ReadClock(task, client)
      PROVE  Inductive'
  <2> DEFINE request == [client |-> client, now |-> clock]
  <2>1. request \in Request /\ request.now = clock /\ clock \in Nat
    BY LimiterAssumption DEF Request, Inductive, TypeOK, Times
  <2>2. waiting' = [waiting EXCEPT ![task] = request] /\ clock' = clock
    BY <1>3 DEF ReadClock
  <2> HIDE DEF request
  <2>3. waiting' \in [Tasks -> Request \cup {None}] /\ WaitingOK'
    BY <2>1, <2>2 DEF Inductive, TypeOK, WaitingOK
  <2> QED
    BY <1>3, <2>3, OutsideStep DEF ReadClock, Inductive, TypeOK
<1>4. ASSUME NEW task \in Tasks, TryAcquire(task) PROVE Inductive'
  BY <1>4, TryAcquireStep
<1>5. CASE UNCHANGED vars
  BY <1>5, OutsideStep DEF vars, Inductive, TypeOK, WaitingOK
<1> QED
  BY <1>2, <1>3, <1>4, <1>5 DEF Next

THEOREM AlwaysInductive == Spec => []Inductive
<1>1. Init => Inductive
  <2> SUFFICES ASSUME Init PROVE Inductive
    OBVIOUS
  <2>1. TypeOK /\ WaitingOK /\ BucketsOK /\ NoUndueRefusal
    BY LimiterAssumption DEF Init, TypeOK, WaitingOK, BucketsOK, NoUndueRefusal, Times
  <2>2. \A c \in Clients, n \in 0 .. MaxClock + 1 : spent[c][n] = 0
    BY DEF Init
  <2>3. SpentOK
    BY <2>2, LimiterAssumption DEF SpentOK
  <2>4. DOMAIN buckets = {} /\ Latest = 0
    BY DEF Init, Latest
  <2>5. \A c \in Clients : Covered(c, Latest)
    BY <2>2, <2>4, LimiterAssumption DEF Covered
  <2>6. WithinAllowance
    <3> SUFFICES ASSUME NEW c \in Clients, NEW first \in Times, NEW last \in Times,
                        first <= last
                 PROVE  spent[c][first] - spent[c][last + 1] <= Capacity + (last - first)
      BY DEF WithinAllowance, Spent
    <3>1. /\ first \in Nat /\ last \in Nat /\ first \in 0 .. MaxClock + 1
          /\ last + 1 \in 0 .. MaxClock + 1
      BY LimiterAssumption DEF Times
    <3>2. spent[c][first] = 0 /\ spent[c][last + 1] = 0
      BY <2>2, <3>1
    <3> QED
      BY <3>1, <3>2, CapacityType
  <2> QED
    BY <2>1, <2>3, <2>5, <2>6 DEF Inductive, InOrderOK
<1> QED
  BY <1>1, StepInductive, PTL DEF Spec

-----------------------------------------------------------------------------
(* What the invariant gives.                                               *)

\* The tokens of a bucket stay between nothing and a burst.
THEOREM TypeCorrect == Spec => []TypeOK
<1>1. Inductive => TypeOK
  BY DEF Inductive
<1> QED
  BY <1>1, AlwaysInductive, PTL

\* try_acquire lets no client through more often than a burst and the refill
\* of the time allow, in any stretch of time, as long as requests take the
\* mutex in the order of their readings, whatever is evicted meanwhile.
THEOREM AlwaysWithinAllowanceInOrder == Spec => []WithinAllowanceInOrder
<1>1. Inductive => WithinAllowanceInOrder
  BY DEF Inductive, InOrderOK, WithinAllowanceInOrder
<1> QED
  BY <1>1, AlwaysInductive, PTL

\* try_acquire refuses nobody who kept to the limit, in whatever order requests
\* take the mutex.
THEOREM NeverUndueRefusal == Spec => []NoUndueRefusal
<1>1. Inductive => NoUndueRefusal
  BY DEF Inductive
<1> QED
  BY <1>1, AlwaysInductive, PTL

\* A request, and the eviction it sets off, changes nobody else's allowance.
THEOREM OthersAlwaysUnaffected == Spec => OthersUnaffected
<1> DEFINE Unaffected ==
        clock' = clock =>
          \A c \in Clients :
             (\A task \in Tasks : waiting[task] # None /\ waiting'[task] = None
                                     => waiting[task].client # c)
             => Allowance(c)' = Allowance(c)
<1>1. ASSUME Inductive, NEW task \in Tasks, TryAcquire(task), NEW c \in Clients,
             waiting[task].client # c, clock' = clock
      PROVE  Allowance(c)' = Allowance(c)
  <2>1. PICK client \in Clients, now \in Times :
          /\ now <= clock /\ waiting[task].client = client
          /\ DOMAIN buckets' = Tracked(now) \cup {client}
          /\ \A other \in Tracked(now) \ {client} : buckets'[other] = buckets[other]
    BY <1>1, Acquired
  <2>2. CASE c \in DOMAIN buckets /\ c \notin Tracked(now)
    <3>1. /\ buckets[c] \in Bucket /\ Idle(buckets[c], now)
          /\ clock \in Times /\ clock \in Nat /\ now \in Nat
      BY <1>1, <2>2, TrackedBuckets, LimiterAssumption DEF Inductive, TypeOK, Times
    <3>2. buckets[c].tokens \in Nat /\ buckets[c].last_refill \in Nat
      BY <3>1, CapacityType, LimiterAssumption DEF Bucket, Times
    <3>3. TokensAt(buckets[c], clock) = Capacity
      BY <2>1, <3>1, <3>2, TokensValue, CapacityType DEF Idle
    <3> QED
      BY <1>1, <2>1, <2>2, <3>3 DEF Allowance
  <2>3. CASE c \notin DOMAIN buckets \/ c \in Tracked(now)
    BY <1>1, <2>1, <2>3, TrackedBuckets DEF Allowance, Inductive
  <2> QED
    BY <2>2, <2>3
<1>2. ASSUME Inductive, Next PROVE Unaffected
  <2>1. CASE Tick
    BY <2>1 DEF Tick, Inductive, TypeOK, Times
  <2>2. ASSUME NEW task \in Tasks, NEW client \in Clients, ReadClock(task, client)
        PROVE  Unaffected
    BY <2>2 DEF ReadClock, Allowance
  <2>3. ASSUME NEW task \in Tasks, TryAcquire(task) PROVE Unaffected
    <3>1. waiting[task] # None /\ waiting'[task] = None
      BY <1>2, <2>3 DEF TryAcquire, Inductive, TypeOK
    <3> QED
      BY <1>1, <1>2, <2>3, <3>1
  <2> QED
    BY <1>2, <2>1, <2>2, <2>3 DEF Next
<1>3. Inductive /\ [Next]_vars => [Unaffected]_vars
  BY <1>2
<1> QED
  BY <1>3, AlwaysInductive, PTL DEF Spec, OthersUnaffected
=============================================================================
