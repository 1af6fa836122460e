------------------------------ MODULE Admission ------------------------------
(***************************************************************************)
(* Layer 1 of the model-spend limits: AdmissionGuard.check (rate_limit     *)
(* admission.py) over the token buckets of MemoryRateLimiter and their     *)
(* eviction (memory.py).  The Lua script of the Redis backend computes the *)
(* same bucket, and its key lives longer than a refill takes, so there     *)
(* EvictAfter is at least the time to refill.                              *)
(*                                                                         *)
(* Time is counted in ticks.  A token is Period[k] units and a bucket      *)
(* gains one unit a tick, so a full refill takes Capacity[k] * Period[k]   *)
(* ticks; all of the code's divisions become exact.  A check acquires from *)
(* the client's bucket and then from the global one; other checks may come *)
(* between the two (they do with Redis).  A definition X_Y is X with the   *)
(* mistake Y in it (see GatewayJobs).                                      *)
(***************************************************************************)
EXTENDS Naturals, FiniteSets, Functions

CONSTANTS
  Clients,       \* hashed peer addresses
  Global,        \* ADMISSION_GLOBAL_KEY
  Capacity,      \* Capacity[k]: the tokens of a full bucket
  Period,        \* Period[k]: ticks to earn a token
  EvictAfter,    \* _EVICTION_INACTIVE_SECONDS, in ticks
  MaxTime,       \* bound on the clock
  MaxStarts      \* bound on the checks that may begin in one tick

Keys == Clients \cup {Global}

ASSUME GlobalApart == Global \notin Clients
ASSUME CapacityPositive == Capacity \in [Keys -> Nat \ {0}]
ASSUME PeriodPositive == Period \in [Keys -> Nat \ {0}]
ASSUME EvictAfterNatural == EvictAfter \in Nat
ASSUME BoundsNatural == MaxTime \in Nat /\ MaxStarts \in Nat

VARIABLES
  now,        \* time.monotonic
  bucket,     \* bucket[k]: units and the time they were counted, or NoBucket
  at,         \* at[c]: whether the check of client c is between its two buckets
  granted,    \* history: granted[k][t] is how many tokens k gave at time t
  promised    \* history: promised[k] is when a denial of k said to come back

vars == <<now, bucket, at, granted, promised>>

NoBucket == [units |-> 0, last |-> 0, exists |-> FALSE]
Full(k) == Capacity[k] * Period[k]

\* _EVICTION_INACTIVE_SECONDS is 300, the bucket of the deployment is full after 60.
ASSUME EvictedIsFull == EvictAfter >= Full(Global)

AtMost(x, y) == IF x <= y THEN x ELSE y

\* The units of bucket k now; a bucket that is not there is made full.
Refilled(k) ==
  IF bucket[k].exists
  THEN AtMost(Full(k), bucket[k].units + (now - bucket[k].last))
  ELSE Full(k)

Allowed(k) == Refilled(k) >= Period[k]

Count(units) == [units |-> units, last |-> now, exists |-> TRUE]

Grant_WithoutCost(k) ==
  /\ bucket' = [bucket EXCEPT ![k] = Count(Refilled(k))]
  /\ granted' = [granted EXCEPT ![k][now] = @ + 1]
  /\ promised' = [promised EXCEPT ![k] = 0]

\* acquire_tokens: take a token,
Grant(k) ==
  /\ bucket' = [bucket EXCEPT ![k] = Count(Refilled(k) - Period[k])]
  /\ granted' = [granted EXCEPT ![k][now] = @ + 1]
  /\ promised' = [promised EXCEPT ![k] = 0]

RetryAfter_OfOneUnit(k) == 1

\* retry_after_seconds: the deficit at the rate of one unit a tick.
RetryAfter(k) == Period[k] - Refilled(k)

\* or say when to come back.
Deny(k) ==
  /\ bucket' = [bucket EXCEPT ![k] = Count(Refilled(k))]
  /\ promised' = [promised EXCEPT ![k] = now + RetryAfter(k)]
  /\ UNCHANGED granted
-----------------------------------------------------------------------------
Init ==
  /\ now = 0
  /\ bucket = [k \in Keys |-> NoBucket]
  /\ at = [c \in Clients |-> "idle"]
  /\ granted = [k \in Keys |-> [t \in 0..MaxTime |-> 0]]
  /\ promised = [k \in Keys |-> 0]

ClientDenied(c) ==
  /\ at[c] = "idle"
  /\ ~Allowed(c)
  /\ Deny(c)
  /\ UNCHANGED <<now, at>>

ClientAllowed(c) ==
  /\ at[c] = "idle"
  /\ Allowed(c)
  /\ granted[c][now] < MaxStarts
  /\ Grant(c)
  /\ at' = [at EXCEPT ![c] = "global"]
  /\ UNCHANGED now

GlobalCheck(c) ==
  /\ at[c] = "global"
  /\ IF Allowed(Global) THEN Grant(Global) ELSE Deny(Global)
  /\ at' = [at EXCEPT ![c] = "idle"]
  /\ UNCHANGED now

\* evict_inactive drops the buckets nobody asked for since EvictAfter.
Evict(k) ==
  /\ bucket[k].exists
  /\ now - bucket[k].last >= EvictAfter
  /\ bucket' = [bucket EXCEPT ![k] = NoBucket]
  /\ UNCHANGED <<now, at, granted, promised>>

Tick ==
  /\ now < MaxTime
  /\ now' = now + 1
  /\ UNCHANGED <<bucket, at, granted, promised>>

Next ==
  \/ \E c \in Clients : ClientDenied(c) \/ ClientAllowed(c) \/ GlobalCheck(c)
  \/ \E k \in Keys : Evict(k)
  \/ Tick

Spec == Init /\ [][Next]_vars
-----------------------------------------------------------------------------
\* Buckets and counters are of their types; no bucket is more than full.
TypeOK ==
  /\ now \in 0..MaxTime
  /\ bucket \in [Keys -> [units : Nat, last : 0..MaxTime, exists : BOOLEAN]]
  /\ \A k \in Keys : bucket[k].units <= Full(k) /\ bucket[k].last <= now
  /\ at \in [Clients -> {"idle", "global"}]
  /\ granted \in [Keys -> [0..MaxTime -> Nat]]
  /\ promised \in [Keys -> Nat]

Given(k, from, to) == SumFunctionOnSet(granted[k], from..to)

\* What a token bucket promises of key k: over any stretch of time it gives no
\* more than its capacity and what it earned meanwhile.
RateBoundedFor(k) ==
  \A from \in 0..now : \A to \in from..now :
    Given(k, from, to) * Period[k] <= Full(k) + (to - from)

\* The deployment as a whole stays within global_per_minute, however checks of
\* several clients interleave and whenever the sweep runs.
GlobalRateBounded == RateBoundedFor(Global)

\* A client that comes back after the retry_after_seconds it was told is let
\* through by its bucket: only its own checks take from it, and an eviction adds.
RetryAfterIsEnough ==
  \A c \in Clients : promised[c] # 0 /\ now >= promised[c] => Allowed(c)
=============================================================================
