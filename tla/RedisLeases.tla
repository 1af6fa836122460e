----------------------------- MODULE RedisLeases -----------------------------
(***************************************************************************)
(* The distributed concurrency leases of one provider and model:           *)
(* RedisRateLimiter.concurrency_permit, its heartbeat and the Lua scripts  *)
(* that acquire, renew and release a lease (rate_limit redis_backend.py).  *)
(*                                                                         *)
(* The calls run in any number of processes; Redis runs one script at a    *)
(* time.  A call is one use of concurrency_permit, with a lease id of its  *)
(* own.  A script is given the time its caller read before sending it, so  *)
(* a request is in flight with the time it was sent; one whose caller is   *)
(* gone - cancelled, timed out, crashed - may still be run, much later.    *)
(*                                                                         *)
(* Time is counted in heartbeat intervals.  It does not pass while a call  *)
(* that waits for a reply, or a heartbeat that is due, can go on: delays   *)
(* of live callers are short against the interval.  The processes read     *)
(* one clock.  A definition X_Y is X with the mistake Y in it (see         *)
(* GatewayJobs).                                                           *)
(***************************************************************************)
EXTENDS Naturals, FiniteSets

CONSTANTS
  Calls,       \* the calls of concurrency_permit for this key
  Maximum,     \* the cluster-wide concurrency of the model
  Ttl,         \* lease_ttl_seconds, in heartbeat intervals
  MaxMissed,   \* bound on the renewals a call misses in a row
  MaxTime      \* bound on the clock

ASSUME CallsFinite == IsFiniteSet(Calls)
ASSUME MaximumPositive == Maximum \in Nat \ {0}
ASSUME TtlPositive == Ttl \in Nat \ {0}
ASSUME BoundsNatural == MaxMissed \in Nat /\ MaxTime \in Nat \ {0}

\* A lease outlasts MaxMissed renewals that fail and the interval to the next one.
ASSUME LeaseOutlastsMisses == MaxMissed + 2 <= Ttl

VARIABLES
  now,        \* time.time
  score,      \* score[c]: the score of c's lease in the sorted set, or 0
  flying,     \* the requests that Redis has not run
  at,         \* at[c]: where call c is
  due,        \* due[c]: when the heartbeat of c renews next
  missed,     \* missed[c]: the renewals of c that failed in a row
  left,       \* history: left[c] is when c stopped wanting a lease
  released    \* history: the calls whose release was run

vars == <<now, score, flying, at, due, missed, left, released>>

Points == {"idle", "asking", "polling", "holding", "releasing", "ended"}
Requests == [kind : {"acquire", "renew"}, call : Calls, sent : 0..MaxTime]

Request(kind, c) == [kind |-> kind, call |-> c, sent |-> now]
Holding == {c \in Calls : at[c] = "holding"}
Leases == {c \in Calls : score[c] # 0}

Init ==
  /\ now = 1
  /\ score = [c \in Calls |-> 0]
  /\ flying = {}
  /\ at = [c \in Calls |-> "idle"]
  /\ due = [c \in Calls |-> 0]
  /\ missed = [c \in Calls |-> 0]
  /\ left = [c \in Calls |-> 0]
  /\ released = {}

\* The call sends the acquire script, for the first time or after a poll sleep.
Ask(c) ==
  /\ at[c] \in {"idle", "polling"}
  /\ at' = [at EXCEPT ![c] = "asking"]
  /\ flying' = flying \cup {Request("acquire", c)}
  /\ UNCHANGED <<now, score, due, missed, left, released>>

\* What is left once the script has dropped the leases that are over.
Unexpired(time) == {c \in Leases : score[c] > time}

Granted_OneTooMany(r) == Cardinality(Unexpired(r.sent)) <= Maximum

Granted(r) == Cardinality(Unexpired(r.sent)) < Maximum

AcquireScript(r) ==
  score' = [c \in Calls |->
              IF c = r.call /\ Granted(r) THEN r.sent + Ttl
              ELSE IF c \in Unexpired(r.sent) THEN score[c] ELSE 0]

\* Redis runs an acquire.  The answer starts the body and its heartbeat or sends
\* the call to sleep; it may be lost, and nobody may wait for it any more.
RunAcquire(r) ==
  /\ r.kind = "acquire"
  /\ AcquireScript(r)
  /\ flying' = flying \ {r}
  /\ IF at[r.call] # "asking"
     THEN UNCHANGED <<at, due, left>>
     ELSE \/ /\ Granted(r)
             /\ at' = [at EXCEPT ![r.call] = "holding"]
             /\ due' = [due EXCEPT ![r.call] = now + 1]
             /\ UNCHANGED left
          \/ /\ ~Granted(r)
             /\ at' = [at EXCEPT ![r.call] = "polling"]
             /\ UNCHANGED <<due, left>>
          \/ /\ at' = [at EXCEPT ![r.call] = "ended"]
             /\ left' = [left EXCEPT ![r.call] = now]
             /\ UNCHANGED due
  /\ UNCHANGED <<now, missed, released>>

\* The deadline, a cancellation, a crash or a connection that fails ends a call
\* that has no lease yet - as far as it knows.
GiveUp(c) ==
  /\ at[c] \in {"asking", "polling"}
  /\ at' = [at EXCEPT ![c] = "ended"]
  /\ left' = [left EXCEPT ![c] = now]
  /\ UNCHANGED <<now, score, flying, due, missed, released>>
-----------------------------------------------------------------------------
(* The heartbeat. *)

RenewScript_WithoutGuard(c, time) == score' = [score EXCEPT ![c] = time + Ttl]

\* A lease that is not there any more is left alone.
RenewScript(c, time) ==
  score' = [score EXCEPT ![c] = IF c \in Leases THEN time + Ttl ELSE 0]

\* The answer is not looked at: a call whose lease is gone goes on.
Renew(c) ==
  /\ at[c] = "holding"
  /\ due[c] = now
  /\ RenewScript(c, now)
  /\ due' = [due EXCEPT ![c] = now + 1]
  /\ missed' = [missed EXCEPT ![c] = 0]
  /\ UNCHANGED <<now, flying, at, left, released>>

RenewFails(c) ==
  /\ at[c] = "holding"
  /\ due[c] = now
  /\ missed[c] < MaxMissed
  /\ due' = [due EXCEPT ![c] = now + 1]
  /\ missed' = [missed EXCEPT ![c] = @ + 1]
  /\ UNCHANGED <<now, score, flying, at, left, released>>

RunRenew_AtRedisTime(r) ==
  /\ r.kind = "renew"
  /\ RenewScript(r.call, now)
  /\ flying' = flying \ {r}
  /\ UNCHANGED <<now, at, due, missed, left, released>>

\* Redis runs a renewal whose heartbeat was cancelled while it was in flight.
RunRenew(r) ==
  /\ r.kind = "renew"
  /\ RenewScript(r.call, r.sent)
  /\ flying' = flying \ {r}
  /\ UNCHANGED <<now, at, due, missed, left, released>>
-----------------------------------------------------------------------------
\* The body is over: the heartbeat is cancelled, perhaps with a renewal in flight.
Stop(c, point) ==
  /\ at[c] = "holding"
  /\ at' = [at EXCEPT ![c] = point]
  /\ left' = [left EXCEPT ![c] = now]
  /\ \/ UNCHANGED flying
     \/ due[c] = now /\ flying' = flying \cup {Request("renew", c)}
  /\ UNCHANGED <<now, score, due, missed, released>>

Leave(c) == Stop(c, "releasing")
Crash(c) == Stop(c, "ended")

Release(c) ==
  /\ at[c] = "releasing"
  /\ score' = [score EXCEPT ![c] = 0]
  /\ released' = released \cup {c}
  /\ at' = [at EXCEPT ![c] = "ended"]
  /\ UNCHANGED <<now, flying, due, missed, left>>

\* The release is not run; the lease is left to expire.
ReleaseFails(c) ==
  /\ at[c] = "releasing"
  /\ at' = [at EXCEPT ![c] = "ended"]
  /\ UNCHANGED <<now, score, flying, due, missed, left, released>>

Tick ==
  /\ now < MaxTime
  /\ \A c \in Calls : at[c] # "asking" /\ (at[c] = "holding" => due[c] > now)
  /\ now' = now + 1
  /\ UNCHANGED <<score, flying, at, due, missed, left, released>>

Next ==
  \/ \E c \in Calls :
       \/ Ask(c) \/ GiveUp(c) \/ Renew(c) \/ RenewFails(c)
       \/ Leave(c) \/ Crash(c) \/ Release(c) \/ ReleaseFails(c)
  \/ \E r \in flying : RunAcquire(r) \/ RunRenew(r)
  \/ Tick

Spec == Init /\ [][Next]_vars
-----------------------------------------------------------------------------
\* Scores, requests and calls are of their types; no heartbeat is set more than
\* one interval ahead.
TypeOK ==
  /\ now \in 1..MaxTime
  /\ score \in [Calls -> 0..MaxTime + Ttl]
  /\ flying \subseteq Requests
  /\ at \in [Calls -> Points]
  /\ due \in [Calls -> 0..now + 1]
  /\ missed \in [Calls -> 0..MaxMissed]
  /\ left \in [Calls -> 0..now]
  /\ released \subseteq Calls

\* redis_backend.py: the heartbeat keeps a call that outlives its lease from
\* "letting the cluster exceed maximum": calls, failed releases, crashes and
\* requests run late together never put more than Maximum bodies to work at once,
\* as long as no call misses MaxMissed + 1 renewals in a row.
HoldersWithinMaximum == Cardinality(Holding) <= Maximum

\* redis_backend.py: "an already-expired (swept) lease is never resurrected", nor
\* is a released one, by a renewal that Redis runs late.
ReleasedStaysReleased == \A c \in released : score[c] = 0

\* A call that crashed, or whose acquire was granted to nobody or whose release
\* failed, blocks its slot no longer than a lease lasts after it stopped.
OrphansExpire ==
  \A c \in Calls : at[c] \in {"releasing", "ended"} => score[c] <= left[c] + Ttl
=============================================================================
