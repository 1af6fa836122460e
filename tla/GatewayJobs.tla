----------------------------- MODULE GatewayJobs -----------------------------
(***************************************************************************)
(* The gateway's job lifecycle with the in-memory job store (the default): *)
(* create_investigation, _run_job and its inner execute (api main.py), the *)
(* job object and JobStore (worker_core jobs.py) and the capacity limit of *)
(* live investigations (worker_core live_limits.py).                       *)
(*                                                                         *)
(* Everything here runs on one asyncio event loop, so an action is the     *)
(* code between two suspension points.  The suspension points of _run_job  *)
(* are the background-task hand-off, the wait for a capacity slot and the  *)
(* wait for the orchestrator; pc[j] says at which one investigation j is.  *)
(*                                                                         *)
(* The slot is an asyncio.BoundedSemaphore acquired under wait_for.  Its   *)
(* waiters are served first come, first served: a release hands the slot   *)
(* to the first future that is not done ("granted"); the woken acquire     *)
(* leaves the waiters when it next runs ("admitted") and only then does    *)
(* wait_for return it to _run_job.  A timeout or a cancellation may reach  *)
(* the job while it waits or just after the slot was handed to it; once    *)
(* "admitted", wait_for returns the slot whatever comes next.              *)
(*                                                                         *)
(* A definition X_Y is X with the mistake Y in it, a bug this code could   *)
(* have had; it is never part of the specification, and is there to show   *)
(* that the property it is paired with in PROJECT.json notices it.         *)
(***************************************************************************)
EXTENDS Naturals, FiniteSets

CONSTANTS
  Jobs,          \* investigation ids
  MaxLive,       \* live_capacity.maximum
  Keep,          \* JobStore.keep (history_keep)
  MaxSequence    \* bound: the orchestrator emits while sequence[j] is below it

ASSUME JobsFinite == IsFiniteSet(Jobs)
ASSUME MaxLivePositive == MaxLive \in Nat \ {0}
ASSUME KeepNatural == Keep \in Nat
ASSUME MaxSequenceNatural == MaxSequence \in Nat

VARIABLES
  mode,        \* mode[j]: the resolved agent mode of the request
  status,      \* status[j]: job.state.status
  stored,      \* the ids in JobStore._jobs
  stamp,       \* stamp[j]: state.created_at, 0 before creation
  ticket,      \* ticket[j]: when j joined the semaphore's waiters
  clock,       \* source of stamps and tickets
  pc,          \* where _run_job(j) is suspended
  free,        \* the semaphore's value
  active,      \* LiveInvestigationCapacity._active
  sequence,    \* sequence[j]: job._sequence, the number of events emitted
  sentinels    \* sentinels[j]: how many None markers finish() put on the queue

requestVars == <<mode, stamp>>
slotVars == <<free, ticket, active>>
jobVars == <<status, sequence, sentinels>>
vars == <<mode, status, stored, stamp, ticket, clock, pc, free, active,
          sequence, sentinels>>

Modes == {"stub", "live"}
Outcomes == {"completed", "failed"}
Statuses == {"none", "queued", "running"} \cup Outcomes
Points == {"idle", "scheduled", "waiting", "granted", "admitted",
           "executing", "ended", "lost"}

Live(j) == mode[j] = "live"
Terminal(j) == status[j] \in Outcomes
-----------------------------------------------------------------------------
(* The semaphore. *)

Waiting(p) == {j \in Jobs : p[j] = "waiting"}

\* The waiters deque also holds the futures a release has already resolved.
Queued(p) == {j \in Jobs : p[j] \in {"waiting", "granted"}}

FirstWaiting(p) ==
  {j \in Waiting(p) : \A k \in Waiting(p) : ticket[j] <= ticket[k]}

\* The slots that are taken: handed over, returned to _run_job, or in use.
Holders ==
  {j \in Jobs : \/ pc[j] \in {"granted", "admitted"}
                \/ pc[j] = "executing" /\ Live(j)}

\* The value is f and the jobs are at p; wake the first waiter if there is a
\* slot for it.
WakeNext(f, p) ==
  IF f > 0 /\ Waiting(p) # {}
  THEN \E j \in FirstWaiting(p) :
         /\ pc' = [p EXCEPT ![j] = "granted"]
         /\ free' = f - 1
  ELSE pc' = p /\ free' = f

GiveUpSlot_OnlyInUse(j, next) ==
  LET left == [pc EXCEPT ![j] = next] IN
  IF pc[j] = "executing" /\ Live(j) THEN WakeNext(free + 1, left)
                                    ELSE pc' = left /\ free' = free

\* j leaves the capacity limit for the point next, giving up what it holds.
GiveUpSlot(j, next) ==
  LET left == [pc EXCEPT ![j] = next] IN
  IF j \in Holders THEN WakeNext(free + 1, left)
                   ELSE pc' = left /\ free' = free
-----------------------------------------------------------------------------
(* The job store. *)

Newest(S, born) ==
  {j \in S : Cardinality({k \in S : born[k] > born[j]}) < Keep}

-----------------------------------------------------------------------------
(* The job object: finish() after n further events. *)

Finish(j, outcome, n) ==
  /\ status' = [status EXCEPT ![j] = outcome]
  /\ sentinels' = [sentinels EXCEPT ![j] = @ + 1]
  /\ sequence' = [sequence EXCEPT ![j] = @ + n]

Emit(j) == sequence' = [sequence EXCEPT ![j] = @ + 1]
-----------------------------------------------------------------------------
Init ==
  /\ mode = [j \in Jobs |-> "none"]
  /\ status = [j \in Jobs |-> "none"]
  /\ stored = {}
  /\ stamp = [j \in Jobs |-> 0]
  /\ ticket = [j \in Jobs |-> 0]
  /\ clock = 0
  /\ pc = [j \in Jobs |-> "idle"]
  /\ free = MaxLive
  /\ active = 0
  /\ sequence = [j \in Jobs |-> 0]
  /\ sentinels = [j \in Jobs |-> 0]

\* create_investigation: create the job, prune the store, schedule the run.
Create(j, m) ==
  /\ pc[j] = "idle"
  /\ mode' = [mode EXCEPT ![j] = m]
  /\ status' = [status EXCEPT ![j] = "queued"]
  /\ clock' = clock + 1
  /\ stamp' = [stamp EXCEPT ![j] = clock + 1]
  /\ stored' = Newest(stored \cup {j}, stamp')
  /\ pc' = [pc EXCEPT ![j] = "scheduled"]
  /\ UNCHANGED <<slotVars, sequence, sentinels>>

\* _run_job looks the job up again by id; a job pruned since is dropped.
StartPruned(j) ==
  /\ pc[j] = "scheduled"
  /\ j \notin stored
  /\ pc' = [pc EXCEPT ![j] = "lost"]
  /\ UNCHANGED <<requestVars, jobVars, slotVars, stored, clock>>

StartStub(j) ==
  /\ pc[j] = "scheduled"
  /\ j \in stored
  /\ ~Live(j)
  /\ status' = [status EXCEPT ![j] = "running"]
  /\ pc' = [pc EXCEPT ![j] = "executing"]
  /\ UNCHANGED <<requestVars, slotVars, stored, clock, sequence, sentinels>>

StartLive_RunningWhileQueued(j) ==
  /\ pc[j] = "scheduled"
  /\ j \in stored
  /\ Live(j)
  /\ Emit(j)
  /\ status' = [status EXCEPT ![j] = "running"]
  /\ IF free > 0 /\ Queued(pc) = {}
     THEN /\ pc' = [pc EXCEPT ![j] = "admitted"]
          /\ free' = free - 1
          /\ UNCHANGED <<ticket, clock>>
     ELSE /\ pc' = [pc EXCEPT ![j] = "waiting"]
          /\ clock' = clock + 1
          /\ ticket' = [ticket EXCEPT ![j] = clock + 1]
          /\ UNCHANGED free
  /\ UNCHANGED <<requestVars, stored, active, sentinels>>

\* A live job announces itself and asks for a slot: it takes one at once when
\* there is a free one and nobody is queued, otherwise it joins the waiters.
StartLive(j) ==
  /\ pc[j] = "scheduled"
  /\ j \in stored
  /\ Live(j)
  /\ Emit(j)
  /\ IF free > 0 /\ Queued(pc) = {}
     THEN /\ pc' = [pc EXCEPT ![j] = "admitted"]
          /\ free' = free - 1
          /\ UNCHANGED <<ticket, clock>>
     ELSE /\ pc' = [pc EXCEPT ![j] = "waiting"]
          /\ clock' = clock + 1
          /\ ticket' = [ticket EXCEPT ![j] = clock + 1]
          /\ UNCHANGED free
  /\ UNCHANGED <<requestVars, stored, active, status, sentinels>>

\* The woken acquire runs: it leaves the waiters and passes a further free
\* slot on.
Admit(j) ==
  /\ pc[j] = "granted"
  /\ WakeNext(free, [pc EXCEPT ![j] = "admitted"])
  /\ UNCHANGED <<requestVars, jobVars, stored, clock, ticket, active>>

BeginLive(j) ==
  /\ pc[j] = "admitted"
  /\ active' = active + 1
  /\ status' = [status EXCEPT ![j] = "running"]
  /\ Emit(j)
  /\ pc' = [pc EXCEPT ![j] = "executing"]
  /\ UNCHANGED <<requestVars, stored, clock, ticket, free, sentinels>>

\* queue_timeout_seconds elapsed: LiveCapacityTimeoutError, one event, failed.
CapacityTimeout(j) ==
  /\ pc[j] \in {"waiting", "granted"}
  /\ GiveUpSlot(j, "ended")
  /\ Finish(j, "failed", 1)
  /\ UNCHANGED <<requestVars, stored, clock, ticket, active>>

\* The orchestrator reports progress through job.emit.
Progress(j) ==
  /\ pc[j] = "executing"
  /\ sequence[j] < MaxSequence
  /\ Emit(j)
  /\ UNCHANGED <<requestVars, slotVars, stored, clock, pc, status, sentinels>>

LeaveExecution_KeepsSlot(j) ==
  /\ pc' = [pc EXCEPT ![j] = "ended"]
  /\ active' = IF Live(j) THEN active - 1 ELSE active
  /\ UNCHANGED free

LeaveExecution(j) ==
  /\ GiveUpSlot(j, "ended")
  /\ active' = IF Live(j) THEN active - 1 ELSE active

\* link.run returned a report.
Complete(j) ==
  /\ pc[j] = "executing"
  /\ LeaveExecution(j)
  /\ Finish(j, "completed", 0)
  /\ UNCHANGED <<requestVars, stored, clock, ticket>>

\* link.run raised: one failed event, then finish with the error.
Fail(j) ==
  /\ pc[j] = "executing"
  /\ LeaveExecution(j)
  /\ Finish(j, "failed", 1)
  /\ UNCHANGED <<requestVars, stored, clock, ticket>>

Cancel_EvenIfEnded(j) ==
  /\ \/ /\ pc[j] \in {"waiting", "granted", "ended"}
        /\ GiveUpSlot(j, "ended")
        /\ UNCHANGED active
     \/ /\ pc[j] = "executing"
        /\ LeaveExecution(j)
  /\ Finish(j, "failed", 1)
  /\ UNCHANGED <<requestVars, stored, clock, ticket>>

\* The task is cancelled where it is suspended: reserve() gives the slot back
\* on the way out, then the handler records the outcome.
Cancel(j) ==
  /\ \/ /\ pc[j] \in {"waiting", "granted"}
        /\ GiveUpSlot(j, "ended")
        /\ UNCHANGED active
     \/ /\ pc[j] = "executing"
        /\ LeaveExecution(j)
  /\ Finish(j, "failed", 1)
  /\ UNCHANGED <<requestVars, stored, clock, ticket>>

Step(j) ==
  \/ StartPruned(j) \/ StartStub(j) \/ StartLive(j)
  \/ Admit(j) \/ BeginLive(j) \/ CapacityTimeout(j)
  \/ Progress(j) \/ Complete(j) \/ Fail(j) \/ Cancel(j)

Next ==
  \E j \in Jobs : (\E m \in Modes : Create(j, m)) \/ Step(j)

Spec == Init /\ [][Next]_vars

(***************************************************************************)
(* The event loop runs what is ready, and link.run returns because every   *)
(* provider call below it has a deadline.  Nothing makes a client submit,  *)
(* a task be cancelled or the capacity timer fire first.                   *)
(***************************************************************************)
Fairness ==
  \A j \in Jobs :
    /\ WF_vars(StartPruned(j) \/ StartStub(j) \/ StartLive(j))
    /\ WF_vars(Admit(j))
    /\ WF_vars(BeginLive(j))
    /\ WF_vars(Complete(j) \/ Fail(j))

FairSpec == Spec /\ Fairness
-----------------------------------------------------------------------------
\* Jobs, slots and points are of their types; no more slots are free than there are.
TypeOK ==
  /\ mode \in [Jobs -> Modes \cup {"none"}]
  /\ status \in [Jobs -> Statuses]
  /\ stored \subseteq Jobs
  /\ stamp \in [Jobs -> Nat]
  /\ ticket \in [Jobs -> Nat]
  /\ clock \in Nat
  /\ pc \in [Jobs -> Points]
  /\ free \in 0..MaxLive
  /\ active \in Nat
  /\ sequence \in [Jobs -> Nat]
  /\ sentinels \in [Jobs -> Nat]

\* No slot is lost or made up on any path out of reserve() - a timeout, a
\* cancellation just after the hand-over, a failure - and _active, which
\* /health reports, counts exactly the live investigations that are running.
SlotsConserved ==
  /\ free + Cardinality(Holders) = MaxLive
  /\ active = Cardinality({j \in Jobs : Live(j) /\ status[j] = "running"})

\* At most max_concurrent_live_investigations live investigations run at once
\* (live_limits.py: "Bound concurrent live investigations").
LiveWithinMaximum ==
  Cardinality({j \in Jobs : Live(j) /\ status[j] = "running"}) <= MaxLive

\* A slot is never left free in front of a waiting investigation: some woken
\* waiter is still on its way and passes it on.
NoIdleSlot == Waiting(pc) # {} /\ free > 0 => \E j \in Jobs : pc[j] = "granted"

\* finish() runs exactly once for every run that got going, so the event queue
\* gets exactly one end marker, and only a run that ended has a final status.
FinishedOnce ==
  \A j \in Jobs :
    /\ sentinels[j] = IF Terminal(j) THEN 1 ELSE 0
    /\ Terminal(j) <=> pc[j] = "ended"

\* Once an investigation has ended its status never changes and nothing more is
\* added to its event log, whatever a late timer, cancellation or slot does.
OutcomeIsFinal ==
  [][\A j \in Jobs : Terminal(j) => /\ status'[j] = status[j]
                                    /\ sequence'[j] = sequence[j]]_vars

\* Live investigations get their slot in the order they asked for one: nobody
\* who came later is given a slot over one who is still waiting.
NoOvertaking ==
  [][\A j, k \in Jobs :
       /\ pc[k] = "waiting" /\ pc'[k] = "waiting"
       /\ pc'[j] \in {"granted", "admitted"}
       /\ pc[j] \in {"scheduled", "waiting"}
       => pc[j] = "waiting" /\ ticket[j] < ticket[k]]_vars

\* Every scheduled investigation ends, or is found pruned when it starts.  The
\* capacity timer is not needed for it: slots come back and go round in order.
EveryRunEnds == \A j \in Jobs : pc[j] = "scheduled" ~> pc[j] \in {"ended", "lost"}

Lifecycle == INSTANCE InvestigationLifecycle
  WITH Jobs <- Jobs, MaxLive <- MaxLive, mode <- mode, status <- status

\* The statuses the gateway shows follow the abstract lifecycle: queued, started at
\* most once and only with capacity, ended at most once, refused only from a queue.
ImplementsLifecycle == Lifecycle!Spec
=============================================================================
