------------------------------ MODULE PermitPool ------------------------------
(***************************************************************************)
(* The concurrency permits of one provider and model in one process:       *)
(* MemoryRateLimiter.concurrency_permit with _semaphore_for, and the part  *)
(* of evict_inactive that drops idle semaphores (rate_limit memory.py).    *)
(*                                                                         *)
(* All of it runs on one event loop, of Python 3.11 as in the Dockerfile,  *)
(* where asyncio.wait_for runs the acquire in a task of its own. So a call *)
(* is suspended between choosing a semaphore ("called") and the acquire,   *)
(* while it waits ("waiting", then "granted" once a release has handed it  *)
(* a permit), and between the acquire and the line that counts it in       *)
(* _active ("acquired"). The sweep may run at any of these points. A       *)
(* dropped semaphore lives on in the calls that chose it: semaphores are   *)
(* numbered in the order they are made. A definition X_Y is X with the     *)
(* mistake Y in it (see GatewayJobs).                                      *)
(***************************************************************************)
EXTENDS Naturals, FiniteSets

CONSTANTS
  Calls,         \* the calls of concurrency_permit for this key
  Maximum,       \* openai_max_concurrency and the like
  MaxSemaphores  \* bound on the semaphores made over time

ASSUME CallsFinite == IsFiniteSet(Calls)
ASSUME MaximumPositive == Maximum \in Nat \ {0}
ASSUME MaxSemaphoresPositive == MaxSemaphores \in Nat \ {0}

VARIABLES
  made,       \* how many semaphores were made
  current,    \* the one in _semaphores, or 0
  free,       \* free[s]: the value of semaphore s
  active,     \* _active of the key; one that is popped counts as 0
  ahead,      \* ahead[c]: the calls in front of c in the deque of its semaphore
  point,      \* point[c]: where call c is
  uses,       \* uses[c]: the semaphore c chose, or 0
  sweptEarly  \* history: a sweep dropped a semaphore that a call had chosen but
              \* was not counted on yet

poolVars == <<made, current, free, ahead, active, point, uses, sweptEarly>>

Semaphores == 1..MaxSemaphores
Points == {"idle", "called", "waiting", "granted", "acquired", "holding"}

On(s, points) == {c \in Calls : uses[c] = s /\ point[c] \in points}
Holding == {c \in Calls : point[c] = "holding"}

\* asyncio.Semaphore.locked: nothing free, or somebody in the queue.
Locked(s) == free[s] = 0 \/ On(s, {"waiting", "granted"}) # {}

PoolInit ==
  /\ made = 0
  /\ current = 0
  /\ free = [s \in Semaphores |-> Maximum]
  /\ ahead = [c \in Calls |-> {}]
  /\ active = 0
  /\ point = [c \in Calls |-> "idle"]
  /\ uses = [c \in Calls |-> 0]
  /\ sweptEarly = FALSE

\* c is out of the deque it may have been in.
Without(c) == [d \in Calls |-> IF d = c THEN {} ELSE ahead[d] \ {c}]

\* Call c goes to point next on semaphore s, which then has f free permits, and
\* wakes the first waiter if it can.
Move(c, next, s, f) ==
  LET first == {d \in On(s, {"waiting"}) \ {c} : ahead[d] \subseteq {c}}
      moved == [point EXCEPT ![c] = next]
  IN IF f > 0 /\ first # {}
     THEN \E d \in first :
            /\ point' = [moved EXCEPT ![d] = "granted"]
            /\ free' = [free EXCEPT ![s] = f - 1]
            /\ ahead' = [e \in Calls |-> Without(c)[e] \ {d}]
     ELSE /\ point' = moved
          /\ free' = [free EXCEPT ![s] = f]
          /\ ahead' = Without(c)

\* _semaphore_for: the semaphore of the key, made if there is none.
Call(c) ==
  /\ point[c] = "idle"
  /\ \/ /\ current # 0
        /\ uses' = [uses EXCEPT ![c] = current]
        /\ UNCHANGED <<made, current, active>>
     \/ /\ current = 0
        /\ made < MaxSemaphores
        /\ made' = made + 1
        /\ current' = made + 1
        /\ active' = 0
        /\ uses' = [uses EXCEPT ![c] = made + 1]
  /\ point' = [point EXCEPT ![c] = "called"]
  /\ UNCHANGED <<free, ahead, sweptEarly>>

\* The acquire runs: it takes a permit unless the semaphore is locked.
Acquire(c) ==
  /\ point[c] = "called"
  /\ IF Locked(uses[c])
     THEN /\ point' = [point EXCEPT ![c] = "waiting"]
          /\ ahead' = [ahead EXCEPT ![c] = On(uses[c], {"waiting"})]
          /\ UNCHANGED free
     ELSE /\ point' = [point EXCEPT ![c] = "acquired"]
          /\ free' = [free EXCEPT ![uses[c]] = @ - 1]
          /\ UNCHANGED ahead
  /\ UNCHANGED <<made, current, active, uses, sweptEarly>>

\* The woken acquire runs and passes a further permit on.
Resume(c) ==
  /\ point[c] = "granted"
  /\ Move(c, "acquired", uses[c], free[uses[c]])
  /\ UNCHANGED <<made, current, active, uses, sweptEarly>>

\* wait_for returns the permit to the call, whatever came meanwhile.
Enter(c) ==
  /\ point[c] = "acquired"
  /\ active' = active + 1
  /\ point' = [point EXCEPT ![c] = "holding"]
  /\ UNCHANGED <<made, current, free, ahead, uses, sweptEarly>>

GiveUp_ForgetsGranted(c) ==
  /\ point[c] \in {"called", "waiting", "granted"}
  /\ Move(c, "idle", uses[c], free[uses[c]])
  /\ uses' = [uses EXCEPT ![c] = 0]
  /\ UNCHANGED <<made, current, active, sweptEarly>>

\* A timeout or a cancellation before the acquire is done; a permit that was just
\* handed over goes back.
GiveUp(c) ==
  /\ point[c] \in {"called", "waiting", "granted"}
  /\ Move(c, "idle", uses[c],
          IF point[c] = "granted" THEN free[uses[c]] + 1 ELSE free[uses[c]])
  /\ uses' = [uses EXCEPT ![c] = 0]
  /\ UNCHANGED <<made, current, active, sweptEarly>>

\* The model call ends, well or not.
Leave(c) ==
  /\ point[c] = "holding"
  /\ active' = IF active > 0 THEN active - 1 ELSE 0
  /\ Move(c, "idle", uses[c], free[uses[c]] + 1)
  /\ uses' = [uses EXCEPT ![c] = 0]
  /\ UNCHANGED <<made, current, sweptEarly>>

\* Calls that have chosen the semaphore but are not counted in _active yet.
SweepSeen ==
  sweptEarly' = (sweptEarly \/ \E c \in Calls : uses[c] = current /\ point[c] # "holding")

Sweep_LockedOnly ==
  /\ current # 0
  /\ ~Locked(current)
  /\ SweepSeen
  /\ current' = 0
  /\ active' = 0
  /\ UNCHANGED <<made, free, ahead, point, uses>>

\* evict_inactive drops a semaphore nobody is counted on and that is not locked.
Sweep ==
  /\ current # 0
  /\ active = 0
  /\ ~Locked(current)
  /\ SweepSeen
  /\ current' = 0
  /\ active' = 0
  /\ UNCHANGED <<made, free, ahead, point, uses>>

Run(c) == Acquire(c) \/ Resume(c) \/ Enter(c)

PoolNext ==
  \/ \E c \in Calls : Call(c) \/ Run(c) \/ GiveUp(c) \/ Leave(c)
  \/ Sweep

PoolSpec == PoolInit /\ [][PoolNext]_poolVars
-----------------------------------------------------------------------------
\* Semaphores, permits and calls are of their types.
PoolTypeOK ==
  /\ made \in 0..MaxSemaphores
  /\ current \in 0..made
  /\ free \in [Semaphores -> 0..Maximum]
  /\ ahead \in [Calls -> SUBSET Calls]
  /\ active \in 0..Cardinality(Calls)
  /\ point \in [Calls -> Points]
  /\ uses \in [Calls -> 0..made]
  /\ sweptEarly \in BOOLEAN

\* Every semaphore, dropped or not, keeps its permits: what is not free was handed
\* over, returned to a call or is in use, through timeouts and cancellations.
PermitsConserved ==
  \A s \in Semaphores :
    free[s] + Cardinality(On(s, {"granted", "acquired", "holding"})) = Maximum

\* More than Maximum model calls run at once only if a sweep dropped a semaphore
\* that a call had chosen and was not counted on yet: calls that are counted are
\* safe from the sweep, and timeouts and cancellations keep the limit.
OnlyASweepBreaksTheLimit == ~sweptEarly => Cardinality(Holding) <= Maximum
=============================================================================
