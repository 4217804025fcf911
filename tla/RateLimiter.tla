----------------------------- MODULE RateLimiter -----------------------------
(***************************************************************************)
(* src/api/rate_limit.rs: a token bucket per client in front of /signup    *)
(* and /login.                                                             *)
(*                                                                         *)
(* A request is handled by a task in two steps: limit_auth_requests reads  *)
(* the clock, then try_acquire takes the mutex and does the rest under it. *)
(* Between the two, other tasks may read later clocks and go first.        *)
(*                                                                         *)
(* A tick of the clock is the time that refills one unit of allowance, and *)
(* Cost units are one token, so the f64 arithmetic is integer arithmetic.  *)
(***************************************************************************)
EXTENDS Integers, FiniteSets, FiniteSetsExt, Functions

CONSTANTS
    Clients,     \* client addresses
    Tasks,       \* requests handled at a time
    Burst,       \* RateLimitConfig::burst
    Cost,        \* units in a token: 1 / refill_per_second, in ticks
    MaxTracked,  \* MAX_TRACKED_CLIENTS
    MaxClock,    \* bound: the clock stops here
    None         \* Option::None

ASSUME LimiterAssumption ==
    /\ Burst \in Nat /\ Cost \in Nat \ {0}
    /\ MaxTracked \in Nat /\ MaxClock \in Nat
    /\ IsFiniteSet(Clients)

Capacity == Burst * Cost

VARIABLES
    clock,     \* what Instant::now() returns
    buckets,   \* the map from client to Bucket, a partial function
    waiting,   \* task -> the request that waits for the mutex, or None
    verdict,   \* the last answer of try_acquire
    spent,     \* history: client -> clock reading -> units spent on requests let
               \* through with that reading or a later one
    in_order   \* history: no request was overtaken by one with a later reading

vars == <<clock, buckets, waiting, verdict, spent, in_order>>

Times == 0 .. MaxClock
Bucket == [tokens: 0 .. Capacity, last_refill: Times]
Request == [client: Clients, now: Times]
Verdict == [client: Clients, now: Times, admitted: BOOLEAN]

ASSUME NoneAssumption == None \notin Request \cup Verdict

-----------------------------------------------------------------------------
\* tokens + elapsed * refill_per_second, at most burst; elapsed saturates at 0.
TokensAt(bucket, now) ==
    Min({Capacity, bucket.tokens + Max({now - bucket.last_refill, 0})})

FullBucket(now) == [tokens |-> Capacity, last_refill |-> now]

\* A bug: whoever has a token left is taken for idle.
Idle_TokenLeft(bucket, now) == TokensAt(bucket, now) >= Cost

\* A bucket that has refilled completely carries no information.
Idle(bucket, now) == TokensAt(bucket, now) >= Capacity

\* The clients whose buckets are kept when a request with this reading locks.
Tracked(now) ==
    IF Cardinality(DOMAIN buckets) >= MaxTracked
      THEN {c \in DOMAIN buckets : ~ Idle(buckets[c], now)}
      ELSE DOMAIN buckets

\* A bug: last_refill is not brought up, so that time is credited again.
Refilled_KeepsTime(client, now) ==
    LET bucket == IF client \in Tracked(now) THEN buckets[client] ELSE FullBucket(now)
    IN  [bucket EXCEPT !.tokens = TokensAt(bucket, now)]

\* The bucket a request finds or creates, brought up to its clock reading.
Refilled(client, now) ==
    LET bucket == IF client \in Tracked(now) THEN buckets[client] ELSE FullBucket(now)
    IN  [tokens |-> TokensAt(bucket, now), last_refill |-> now]

\* A bug: the token is spent whether it is there or not.
Spend_Overdraws(bucket) == [bucket EXCEPT !.tokens = @ - Cost]

\* A bug: a refused request also forfeits the fraction it had.
Spend_Always(bucket) == [bucket EXCEPT !.tokens = Max({@ - Cost, 0})]

Spend(bucket) ==
    IF bucket.tokens >= Cost THEN [bucket EXCEPT !.tokens = @ - Cost] ELSE bucket

-----------------------------------------------------------------------------
Init ==
    /\ clock = 0
    /\ buckets = [c \in {} |-> FullBucket(0)]
    /\ waiting = [t \in Tasks |-> None]
    /\ verdict = None
    /\ spent = [c \in Clients |-> [n \in 0 .. MaxClock + 1 |-> 0]]
    /\ in_order = TRUE

Tick ==
    /\ clock < MaxClock
    /\ clock' = clock + 1
    /\ UNCHANGED <<buckets, waiting, verdict, spent, in_order>>

\* limit_auth_requests up to the call: Instant::now() is an argument, and is
\* read before the mutex is asked for.
ReadClock(task, client) ==
    /\ waiting[task] = None
    /\ waiting' = [waiting EXCEPT ![task] = [client |-> client, now |-> clock]]
    /\ UNCHANGED <<clock, buckets, verdict, spent, in_order>>

\* The critical section: evict, refill, spend, answer.
TryAcquire(task) ==
    /\ waiting[task] # None
    /\ LET client == waiting[task].client
           now == waiting[task].now
           refilled == Refilled(client, now)
           admitted == refilled.tokens >= Cost
       IN  /\ buckets' = [c \in Tracked(now) \cup {client} |->
                            IF c = client THEN Spend(refilled) ELSE buckets[c]]
           /\ verdict' = [client |-> client, now |-> now, admitted |-> admitted]
           /\ spent' = [spent EXCEPT ![client] =
                 [n \in 0 .. MaxClock + 1 |->
                    IF admitted /\ n <= now THEN @[n] + Cost ELSE @[n]]]
           /\ in_order' = (in_order /\ (verdict = None \/ verdict.now <= now))
    /\ waiting' = [waiting EXCEPT ![task] = None]
    /\ UNCHANGED clock

Next ==
    \/ Tick
    \/ \E task \in Tasks :
          (\E client \in Clients : ReadClock(task, client)) \/ TryAcquire(task)

Spec == Init /\ [][Next]_vars

-----------------------------------------------------------------------------
\* The type invariant; in particular tokens stay between nothing and a burst.
TypeOK ==
    /\ clock \in Times
    /\ DOMAIN buckets \subseteq Clients
    /\ \A c \in DOMAIN buckets : buckets[c] \in Bucket
    /\ waiting \in [Tasks -> Request \cup {None}]
    /\ verdict \in Verdict \cup {None}
    /\ spent \in [Clients -> [0 .. MaxClock + 1 -> Nat]]
    /\ in_order \in BOOLEAN

\* Units spent by a client in requests whose reading lies in first .. last.
Spent(client, first, last) == spent[client][first] - spent[client][last + 1]

\* "Ten quick attempts, then one more every five seconds": in no stretch of
\* time does a client get through more than a burst and what that time refills.
WithinAllowance ==
    \A c \in Clients, first, last \in Times :
        first <= last => Spent(c, first, last) <= Capacity + (last - first)

\* The same, as long as requests take the mutex in the order of their readings.
WithinAllowanceInOrder == in_order => WithinAllowance

\* Nobody is refused who kept to the limit: a refusal is explained by a stretch
\* of time up to now in which the client already used its burst and all but
\* less than a token of the refill.  Eviction and stale clocks never cost a
\* client anything.
NoUndueRefusal ==
    verdict # None /\ ~ verdict.admitted =>
        \E first \in 0 .. verdict.now :
            Spent(verdict.client, first, MaxClock) + Cost
                > Capacity + (verdict.now - first)

\* The allowance a client would find at the present time.
Allowance(client) ==
    IF client \in DOMAIN buckets THEN TokensAt(buckets[client], clock) ELSE Capacity

\* "A full bucket is the same as no bucket": a request changes the allowance of
\* no other client, whichever buckets it evicts and however old its reading.
OthersUnaffected ==
    [][ clock' = clock =>
          \A c \in Clients :
             (\A task \in Tasks : waiting[task] # None /\ waiting'[task] = None
                                     => waiting[task].client # c)
             => Allowance(c)' = Allowance(c)
      ]_vars
=============================================================================
