-------------------------- MODULE GatewayJobsProofs --------------------------
(***************************************************************************)
(* The safety of the gateway's job lifecycle for any finite set of         *)
(* investigations, any capacity and any retention.  The inductive          *)
(* invariant IInv ties each run's suspension point to the status a client  *)
(* reads and to the slot it holds; every theorem follows from it.          *)
(***************************************************************************)
EXTENDS GatewayJobs, FiniteSetTheorems, TLAPS

\* The slots taken when the jobs are at p; Holders is Taken(pc).
Taken(p) ==
  {j \in Jobs : \/ p[j] \in {"granted", "admitted"}
                \/ p[j] = "executing" /\ Live(j)}

Running == {j \in Jobs : Live(j) /\ status[j] = "running"}

\* What the suspension point of a run says of the status of its job.
PointMatchesStatus ==
  \A j \in Jobs :
    /\ pc[j] = "idle" <=> status[j] = "none"
    /\ status[j] = "queued"
         <=> pc[j] \in {"scheduled", "waiting", "granted", "admitted", "lost"}
    /\ pc[j] = "executing" <=> status[j] = "running"
    /\ pc[j] \in {"waiting", "granted", "admitted"} => Live(j)
    /\ pc[j] = "idle" <=> mode[j] = "none"

\* Waiting jobs have tickets of their own.
TicketsDiffer ==
  \A j, k \in Jobs :
    /\ ticket[j] <= clock
    /\ pc[j] = "waiting" /\ pc[k] = "waiting" /\ j # k => ticket[j] # ticket[k]

IInv ==
  /\ TypeOK
  /\ PointMatchesStatus
  /\ SlotsConserved
  /\ NoIdleSlot
  /\ FinishedOnce
  /\ TicketsDiffer
-----------------------------------------------------------------------------
(* Counting slots. *)

\* The taken slots are counted by a natural number.
LEMMA TakenFinite ==
  ASSUME NEW p
  PROVE  IsFiniteSet(Taken(p)) /\ Cardinality(Taken(p)) \in Nat
<1>1. Taken(p) \in SUBSET Jobs
  BY DEF Taken
<1>2. IsFiniteSet(Taken(p))
  BY <1>1, JobsFinite, FS_Subset
<1> QED BY <1>2, FS_CardinalityType

\* The live runs are counted by a natural number.
LEMMA RunningFinite == IsFiniteSet(Running) /\ Cardinality(Running) \in Nat
<1>1. Running \in SUBSET Jobs
  BY DEF Running
<1>2. IsFiniteSet(Running)
  BY <1>1, JobsFinite, FS_Subset
<1> QED BY <1>2, FS_CardinalityType

\* Waking a waiter moves the slot it gets from the free ones to the taken ones.
LEMMA WakeNextKeepsSlots ==
  ASSUME NEW f \in Nat, NEW p \in [Jobs -> Points],
         f + Cardinality(Taken(p)) = MaxLive,
         WakeNext(f, p), mode' = mode
  PROVE  /\ pc' \in [Jobs -> Points]
         /\ free' \in 0..MaxLive
         /\ free' + Cardinality(Taken(pc)') = MaxLive
         /\ \A k \in Jobs : \/ pc'[k] = p[k]
                            \/ p[k] = "waiting" /\ pc'[k] = "granted"
         /\ Waiting(pc') # {} /\ free' > 0 => \E k \in Jobs : pc'[k] = "granted"
<1> USE MaxLivePositive
<1>0. Taken(pc)' =
        {j \in Jobs : \/ pc'[j] \in {"granted", "admitted"}
                      \/ pc'[j] = "executing" /\ Live(j)}
  BY DEF Taken, Live
<1>1. CASE f > 0 /\ Waiting(p) # {}
  <2>1. PICK j \in FirstWaiting(p) : /\ pc' = [p EXCEPT ![j] = "granted"]
                                     /\ free' = f - 1
    BY <1>1 DEF WakeNext
  <2>2. j \in Jobs /\ p[j] = "waiting"
    BY <2>1 DEF FirstWaiting, Waiting
  <2>3. Taken(pc)' = Taken(p) \cup {j} /\ j \notin Taken(p)
    BY <1>0, <2>1, <2>2 DEF Taken
  <2>4. Cardinality(Taken(pc)') = Cardinality(Taken(p)) + 1
    BY <2>3, FS_AddElement, TakenFinite
  <2>5. pc' \in [Jobs -> Points]
    BY <2>1, <2>2 DEF Points
  <2>6. free' \in 0..MaxLive /\ free' + Cardinality(Taken(pc)') = MaxLive
    BY <1>1, <2>1, <2>4, TakenFinite
  <2> QED BY <2>1, <2>2, <2>5, <2>6
<1>2. CASE ~(f > 0 /\ Waiting(p) # {})
  <2>1. pc' = p /\ free' = f
    BY <1>2 DEF WakeNext
  <2>2. Taken(pc)' = Taken(p)
    BY <1>0, <2>1 DEF Taken
  <2> QED BY <1>2, <2>1, <2>2, TakenFinite
<1> QED BY <1>1, <1>2

\* Leaving the capacity limit gives up exactly what was held.
LEMMA GiveUpSlotKeepsSlots ==
  ASSUME IInv, NEW j \in Jobs, GiveUpSlot(j, "ended"), mode' = mode
  PROVE  /\ pc' \in [Jobs -> Points]
         /\ pc'[j] = "ended"
         /\ free' \in 0..MaxLive
         /\ free' + Cardinality(Holders') = MaxLive
         /\ \A k \in Jobs \ {j} : \/ pc'[k] = pc[k]
                                  \/ pc[k] = "waiting" /\ pc'[k] = "granted"
         /\ NoIdleSlot'
<1> DEFINE left == [pc EXCEPT ![j] = "ended"]
<1> USE MaxLivePositive
<1>1. left \in [Jobs -> Points] /\ left[j] = "ended" /\ pc \in [Jobs -> Points]
  BY DEF IInv, TypeOK, Points
<1>2. Holders = Taken(pc) /\ Holders' = Taken(pc)'
  BY DEF Holders, Taken
<1>3. free \in Nat /\ free + Cardinality(Taken(pc)) = MaxLive
  BY <1>2 DEF IInv, TypeOK, SlotsConserved
<1>4. CASE j \in Holders
  <2>1. WakeNext(free + 1, left)
    BY <1>4 DEF GiveUpSlot
  <2>2. Taken(left) = Taken(pc) \ {j} /\ j \in Taken(pc)
    BY <1>1, <1>2, <1>4 DEF Taken
  <2> HIDE DEF left
  <2>2a. Cardinality(Taken(left)) = Cardinality(Taken(pc)) - 1
    BY <2>2, FS_RemoveElement, TakenFinite
  <2>3. free + 1 + Cardinality(Taken(left)) = MaxLive
    BY <2>2a, <1>3, TakenFinite
  <2>4. /\ pc' \in [Jobs -> Points]
        /\ free' \in 0..MaxLive
        /\ free' + Cardinality(Taken(pc)') = MaxLive
        /\ \A k \in Jobs : \/ pc'[k] = left[k]
                           \/ left[k] = "waiting" /\ pc'[k] = "granted"
        /\ Waiting(pc') # {} /\ free' > 0 => \E k \in Jobs : pc'[k] = "granted"
    BY <1>1, <1>3, <2>1, <2>3, WakeNextKeepsSlots
  <2>5. NoIdleSlot'
    BY <2>4 DEF NoIdleSlot, Waiting
  <2> QED BY <1>1, <1>2, <2>4, <2>5 DEF left
<1>5. CASE j \notin Holders
  <2>1. pc' = left /\ free' = free
    BY <1>5 DEF GiveUpSlot
  <2>2. Taken(pc)' = Taken(pc)
    BY <1>1, <1>2, <1>5, <2>1 DEF Taken, Live
  <2>3. NoIdleSlot'
    BY <1>1, <1>2, <1>5, <2>1 DEF IInv, NoIdleSlot, Waiting, Holders
  <2>4. free' \in 0..MaxLive
    BY <2>1 DEF IInv, TypeOK
  <2> QED BY <1>1, <1>2, <1>3, <2>1, <2>2, <2>3, <2>4
<1> QED BY <1>4, <1>5
-----------------------------------------------------------------------------
(* Each action preserves the invariant. *)

\* A step of j that leaves every count as it is.
LEMMA CountsUnchanged ==
  ASSUME IInv, free' = free, active' = active, Holders' = Holders,
         Running' = Running
  PROVE  SlotsConserved'
BY DEF IInv, SlotsConserved, Running

\* The invariant holds before any investigation is created.
LEMMA InitIInv == Init => IInv
<1> SUFFICES ASSUME Init PROVE IInv
  OBVIOUS
<1> USE MaxLivePositive DEF Init
<1>1. TypeOK
  BY DEF TypeOK, Statuses, Points
<1>2. PointMatchesStatus
  BY DEF PointMatchesStatus
<1>3. SlotsConserved
  <2>1. Holders = {} /\ {j \in Jobs : Live(j) /\ status[j] = "running"} = {}
    BY DEF Holders
  <2> QED BY <2>1, FS_EmptySet DEF SlotsConserved
<1>4. NoIdleSlot /\ FinishedOnce /\ TicketsDiffer
  BY DEF NoIdleSlot, Waiting, FinishedOnce, Terminal, Outcomes, TicketsDiffer
<1> QED BY <1>1, <1>2, <1>3, <1>4 DEF IInv

\* create_investigation adds a queued job that holds no slot, and prunes.
LEMMA CreateStep ==
  ASSUME IInv, NEW j \in Jobs, NEW m \in Modes, Create(j, m)
  PROVE  IInv'
<1> USE DEF Create, slotVars
<1>1. TypeOK'
  BY DEF IInv, TypeOK, Statuses, Points, Newest
<1>2. PointMatchesStatus'
  BY DEF IInv, TypeOK, PointMatchesStatus, Live, Modes
<1>3. SlotsConserved'
  <2>1. Holders' = Holders /\ Running' = Running
    BY DEF IInv, TypeOK, PointMatchesStatus, Holders, Running, Live
  <2> QED BY <2>1, CountsUnchanged
<1>4. NoIdleSlot'
  BY DEF IInv, TypeOK, NoIdleSlot, Waiting
<1>5. FinishedOnce'
  BY DEF IInv, TypeOK, FinishedOnce, Terminal, Outcomes, PointMatchesStatus
<1>6. TicketsDiffer'
  BY DEF IInv, TypeOK, TicketsDiffer
<1> QED BY <1>1, <1>2, <1>3, <1>4, <1>5, <1>6 DEF IInv

\* A run that finds its job pruned returns without touching anything.
LEMMA StartPrunedStep ==
  ASSUME IInv, NEW j \in Jobs, StartPruned(j)
  PROVE  IInv'
<1> USE DEF StartPruned, requestVars, jobVars, slotVars
<1>1. TypeOK'
  BY DEF IInv, TypeOK, Points
<1>2. PointMatchesStatus'
  BY DEF IInv, TypeOK, PointMatchesStatus, Live
<1>3. SlotsConserved'
  <2>1. Holders' = Holders /\ Running' = Running
    BY DEF IInv, TypeOK, Holders, Running, Live
  <2> QED BY <2>1, CountsUnchanged
<1>4. NoIdleSlot'
  BY DEF IInv, TypeOK, NoIdleSlot, Waiting
<1>5. FinishedOnce'
  BY DEF IInv, TypeOK, FinishedOnce, Terminal
<1>6. TicketsDiffer'
  BY DEF IInv, TypeOK, TicketsDiffer
<1> QED BY <1>1, <1>2, <1>3, <1>4, <1>5, <1>6 DEF IInv

\* A stub run starts without a slot.
LEMMA StartStubStep ==
  ASSUME IInv, NEW j \in Jobs, StartStub(j)
  PROVE  IInv'
<1> USE DEF StartStub, requestVars, slotVars
<1>1. TypeOK'
  BY DEF IInv, TypeOK, Points, Statuses
<1>2. PointMatchesStatus'
  BY DEF IInv, TypeOK, PointMatchesStatus, Live
<1>3. SlotsConserved'
  <2>1. Holders' = Holders /\ Running' = Running
    BY DEF IInv, TypeOK, Holders, Running, Live
  <2> QED BY <2>1, CountsUnchanged
<1>4. NoIdleSlot'
  BY DEF IInv, TypeOK, NoIdleSlot, Waiting
<1>5. FinishedOnce'
  BY DEF IInv, TypeOK, FinishedOnce, Terminal, Outcomes
<1>6. TicketsDiffer'
  BY DEF IInv, TypeOK, TicketsDiffer
<1> QED BY <1>1, <1>2, <1>3, <1>4, <1>5, <1>6 DEF IInv

\* A live run takes a slot that is free or joins the waiters.
LEMMA StartLiveStep ==
  ASSUME IInv, NEW j \in Jobs, StartLive(j)
  PROVE  IInv'
<1> USE MaxLivePositive DEF StartLive, Emit, requestVars
<1>1. Running' = Running /\ active' = active
  BY DEF Running, Live
<1>2. FinishedOnce'
  BY DEF IInv, TypeOK, FinishedOnce, Terminal
<1>3. CASE free > 0 /\ Queued(pc) = {}
  <2> /\ pc' = [pc EXCEPT ![j] = "admitted"]
      /\ free' = free - 1
      /\ UNCHANGED <<ticket, clock>>
    BY <1>3
  <2>1. TypeOK'
    BY <1>3 DEF IInv, TypeOK, Points
  <2>2. PointMatchesStatus'
    BY DEF IInv, TypeOK, PointMatchesStatus, Live
  <2>3. SlotsConserved'
    <3>1. Holders' = Holders \cup {j} /\ j \notin Holders
      BY DEF IInv, TypeOK, Holders, Live
    <3>2. IsFiniteSet(Holders) /\ Cardinality(Holders) \in Nat
      BY TakenFinite DEF Holders, Taken
    <3>3. Cardinality(Holders') = Cardinality(Holders) + 1
      BY <3>1, <3>2, FS_AddElement
    <3>4. free' + Cardinality(Holders') = MaxLive
      BY <3>2, <3>3 DEF IInv, TypeOK, SlotsConserved
    <3>5. active' = Cardinality(Running')
      BY <1>1 DEF IInv, SlotsConserved, Running
    <3> QED BY <3>4, <3>5 DEF SlotsConserved, Running
  <2>4. NoIdleSlot'
    BY <1>3 DEF IInv, TypeOK, NoIdleSlot, Waiting, Queued
  <2>5. TicketsDiffer'
    BY DEF IInv, TypeOK, TicketsDiffer
  <2> QED BY <1>2, <2>1, <2>2, <2>3, <2>4, <2>5 DEF IInv
<1>4. CASE ~(free > 0 /\ Queued(pc) = {})
  <2> /\ pc' = [pc EXCEPT ![j] = "waiting"]
      /\ clock' = clock + 1
      /\ ticket' = [ticket EXCEPT ![j] = clock + 1]
      /\ UNCHANGED free
    BY <1>4
  <2>1. TypeOK'
    BY DEF IInv, TypeOK, Points
  <2>2. PointMatchesStatus'
    BY DEF IInv, TypeOK, PointMatchesStatus, Live
  <2>3. SlotsConserved'
    <3>1. Holders' = Holders
      BY DEF IInv, TypeOK, Holders, Live
    <3> QED BY <1>1, <3>1, CountsUnchanged
  <2>4. NoIdleSlot'
    <3>1. free > 0 => \E k \in Jobs : pc[k] = "granted"
      BY <1>4 DEF IInv, TypeOK, NoIdleSlot, Waiting, Queued
    <3> QED BY <3>1 DEF IInv, TypeOK, NoIdleSlot, Waiting
  <2>5. TicketsDiffer'
    BY DEF IInv, TypeOK, TicketsDiffer
  <2> QED BY <1>2, <2>1, <2>2, <2>3, <2>4, <2>5 DEF IInv
<1> QED BY <1>3, <1>4

\* The woken acquire keeps its slot and hands on any further one.
LEMMA AdmitStep ==
  ASSUME IInv, NEW j \in Jobs, Admit(j)
  PROVE  IInv'
<1> DEFINE left == [pc EXCEPT ![j] = "admitted"]
<1>0. /\ pc[j] = "granted"
      /\ WakeNext(free, left)
      /\ UNCHANGED <<requestVars, jobVars, stored, clock, ticket, active>>
  BY DEF Admit
<1> USE DEF requestVars, jobVars
<1>1. left \in [Jobs -> Points] /\ pc \in [Jobs -> Points] /\ free \in Nat
  BY DEF IInv, TypeOK, Points
<1>2. Taken(left) = Taken(pc) /\ Holders = Taken(pc) /\ Holders' = Taken(pc)'
  BY <1>0, <1>1 DEF Taken, Holders
<1>3. free + Cardinality(Taken(left)) = MaxLive
  BY <1>2 DEF IInv, SlotsConserved
<1>4. /\ pc' \in [Jobs -> Points]
      /\ free' \in 0..MaxLive
      /\ free' + Cardinality(Holders') = MaxLive
      /\ \A k \in Jobs : \/ pc'[k] = left[k]
                         \/ left[k] = "waiting" /\ pc'[k] = "granted"
      /\ Waiting(pc') # {} /\ free' > 0 => \E k \in Jobs : pc'[k] = "granted"
  <2> HIDE DEF left
  <2> QED BY <1>0, <1>1, <1>2, <1>3, WakeNextKeepsSlots
<1>5. TypeOK'
  BY <1>0, <1>4 DEF IInv, TypeOK
<1>6. /\ pc'[j] = "admitted"
      /\ \A k \in Jobs \ {j} : \/ pc'[k] = pc[k]
                               \/ pc[k] = "waiting" /\ pc'[k] = "granted"
  BY <1>1, <1>4
<1>7. PointMatchesStatus'
  BY <1>0, <1>6 DEF IInv, PointMatchesStatus, Live
<1>8. SlotsConserved'
  BY <1>0, <1>4 DEF IInv, SlotsConserved, Live
<1>9. NoIdleSlot' /\ FinishedOnce' /\ TicketsDiffer'
  BY <1>0, <1>4, <1>6 DEF IInv, NoIdleSlot, Waiting, FinishedOnce, Terminal, TicketsDiffer
<1> QED BY <1>5, <1>7, <1>8, <1>9 DEF IInv

\* A live run starts with the slot that wait_for returned.
LEMMA BeginLiveStep ==
  ASSUME IInv, NEW j \in Jobs, BeginLive(j)
  PROVE  IInv'
<1> USE DEF BeginLive, Emit, requestVars
<1>1. TypeOK'
  BY DEF IInv, TypeOK, Points, Statuses
<1>2. PointMatchesStatus'
  BY DEF IInv, TypeOK, PointMatchesStatus, Live
<1>3. SlotsConserved'
  <2>1. Live(j) /\ status[j] = "queued"
    BY DEF IInv, PointMatchesStatus
  <2>2. Holders' = Holders
    BY <2>1 DEF IInv, TypeOK, Holders, Live
  <2>3. Running' = Running \cup {j} /\ j \notin Running
    BY <2>1 DEF IInv, TypeOK, Running, Live
  <2>4. Cardinality(Running') = Cardinality(Running) + 1
    BY <2>3, RunningFinite, FS_AddElement
  <2>5. active' = Cardinality(Running')
    BY <2>4 DEF IInv, SlotsConserved, Running
  <2> QED BY <2>2, <2>5 DEF IInv, SlotsConserved, Running
<1>4. NoIdleSlot'
  BY DEF IInv, TypeOK, NoIdleSlot, Waiting, PointMatchesStatus, Holders
<1>5. FinishedOnce'
  BY DEF IInv, TypeOK, FinishedOnce, Terminal, Outcomes
<1>6. TicketsDiffer'
  BY DEF IInv, TypeOK, TicketsDiffer
<1> QED BY <1>1, <1>2, <1>3, <1>4, <1>5, <1>6 DEF IInv

\* An event changes the log of an executing run only.
LEMMA ProgressStep ==
  ASSUME IInv, NEW j \in Jobs, Progress(j)
  PROVE  IInv'
<1> USE DEF Progress, Emit, requestVars, slotVars
<1>1. TypeOK'
  BY DEF IInv, TypeOK
<1>2. Holders' = Holders /\ Running' = Running
  BY DEF Holders, Running, Live
<1>3. SlotsConserved'
  BY <1>2, CountsUnchanged
<1>4. PointMatchesStatus' /\ NoIdleSlot' /\ FinishedOnce' /\ TicketsDiffer'
  BY DEF IInv, PointMatchesStatus, Live, NoIdleSlot, Waiting, FinishedOnce, Terminal,
         TicketsDiffer
<1> QED BY <1>1, <1>3, <1>4 DEF IInv

\* Every end of a run: j gives up what it holds and is finished.
LEMMA EndStep ==
  ASSUME IInv, NEW j \in Jobs, NEW outcome \in Outcomes, NEW n \in Nat,
         pc[j] \in {"waiting", "granted", "executing"},
         GiveUpSlot(j, "ended"),
         Finish(j, outcome, n),
         active' = IF pc[j] = "executing" /\ Live(j) THEN active - 1 ELSE active,
         UNCHANGED <<requestVars, stored, clock, ticket>>
  PROVE  IInv'
<1> USE DEF Finish, requestVars
<1>1. /\ pc' \in [Jobs -> Points]
      /\ pc'[j] = "ended"
      /\ free' \in 0..MaxLive
      /\ free' + Cardinality(Holders') = MaxLive
      /\ \A k \in Jobs \ {j} : \/ pc'[k] = pc[k]
                               \/ pc[k] = "waiting" /\ pc'[k] = "granted"
      /\ NoIdleSlot'
  BY GiveUpSlotKeepsSlots
<1>2. active' = Cardinality(Running') /\ active' \in Nat
  <2>1. Running' = Running \ {j}
    BY DEF IInv, TypeOK, Running, Live, Outcomes
  <2>2. j \in Running <=> pc[j] = "executing" /\ Live(j)
    BY DEF IInv, PointMatchesStatus, Running
  <2>3. Cardinality(Running') =
          IF j \in Running THEN Cardinality(Running) - 1 ELSE Cardinality(Running)
    BY <2>1, RunningFinite, FS_RemoveElement
  <2>4. IsFiniteSet(Running') /\ Cardinality(Running') \in Nat
    BY <2>1, RunningFinite, FS_RemoveElement, FS_CardinalityType
  <2>5. active = Cardinality(Running)
    BY DEF IInv, SlotsConserved, Running
  <2> QED BY <2>2, <2>3, <2>4, <2>5
<1>3. SlotsConserved'
  BY <1>1, <1>2 DEF SlotsConserved, Running
<1>4. TypeOK'
  <2>1. /\ sequence' \in [Jobs -> Nat]
        /\ sentinels' \in [Jobs -> Nat]
        /\ status' \in [Jobs -> Statuses]
    BY DEF IInv, TypeOK, Statuses
  <2> QED BY <1>1, <1>2, <2>1 DEF IInv, TypeOK
<1>5. PointMatchesStatus'
  BY <1>1 DEF IInv, TypeOK, PointMatchesStatus, Live, Outcomes
<1>6. FinishedOnce'
  BY <1>1 DEF IInv, TypeOK, FinishedOnce, Terminal, PointMatchesStatus
<1>7. TicketsDiffer'
  BY <1>1 DEF IInv, TypeOK, TicketsDiffer
<1> QED BY <1>1, <1>3, <1>4, <1>5, <1>6, <1>7 DEF IInv

\* The timeout of reserve ends the run with what it held given up.
LEMMA CapacityTimeoutStep ==
  ASSUME IInv, NEW j \in Jobs, CapacityTimeout(j)
  PROVE  IInv'
BY EndStep DEF CapacityTimeout, Outcomes

\* The report arrives: the run is completed and its slot goes on.
LEMMA CompleteStep ==
  ASSUME IInv, NEW j \in Jobs, Complete(j)
  PROVE  IInv'
BY EndStep DEF Complete, LeaveExecution, Outcomes

\* The orchestrator fails: the run is failed and its slot goes on.
LEMMA FailStep ==
  ASSUME IInv, NEW j \in Jobs, Fail(j)
  PROVE  IInv'
BY EndStep DEF Fail, LeaveExecution, Outcomes

\* A cancellation ends the run wherever it is suspended.
LEMMA CancelStep ==
  ASSUME IInv, NEW j \in Jobs, Cancel(j)
  PROVE  IInv'
BY EndStep DEF Cancel, LeaveExecution, Outcomes

\* Every step of the gateway preserves the invariant.
LEMMA StepPreservesIInv == IInv /\ [Next]_vars => IInv'
<1> SUFFICES ASSUME IInv, [Next]_vars PROVE IInv'
  OBVIOUS
<1>1. CASE \E j \in Jobs, m \in Modes : Create(j, m)
  BY <1>1, CreateStep
<1>2. CASE \E j \in Jobs : Step(j)
  BY <1>2, StartPrunedStep, StartStubStep, StartLiveStep, AdmitStep, BeginLiveStep,
     CapacityTimeoutStep, ProgressStep, CompleteStep, FailStep, CancelStep
  DEF Step
<1>3. CASE UNCHANGED vars
  <2>1. Holders' = Holders /\ Running' = Running
    BY <1>3 DEF vars, Holders, Running, Live
  <2>2. SlotsConserved'
    BY <1>3, <2>1, CountsUnchanged DEF vars
  <2> QED BY <1>3, <2>2
          DEF vars, IInv, TypeOK, PointMatchesStatus, Live, NoIdleSlot, Waiting,
              FinishedOnce, Terminal, TicketsDiffer
<1> QED BY <1>1, <1>2, <1>3 DEF Next

\* The strengthened invariant holds in every state.
LEMMA Invariance == Spec => []IInv
BY InitIInv, StepPreservesIInv, PTL DEF Spec
-----------------------------------------------------------------------------
(* The theorems. *)

\* The types of the variables of the gateway's job lifecycle; among them, the
\* semaphore's value stays between 0 and MaxLive, so no release is ever one too
\* many.
THEOREM TypeCorrect == Spec => []TypeOK
BY Invariance, PTL DEF IInv

\* Slots are neither lost nor made up on any way out of LiveInvestigationCapacity
\* .reserve, and _active counts the running live investigations.
THEOREM SlotsAreConserved == Spec => []SlotsConserved
BY Invariance, PTL DEF IInv

\* Every live run holds a slot.
LEMMA RunningLiveHoldSlots ==
  ASSUME IInv
  PROVE  /\ IsFiniteSet(Holders) /\ Cardinality(Holders) \in Nat
         /\ Running \subseteq Holders
         /\ Cardinality(Holders) <= MaxLive
<1>1. IsFiniteSet(Holders) /\ Cardinality(Holders) \in Nat
  BY TakenFinite DEF Holders, Taken
<1>2. Running \subseteq Holders
  BY DEF IInv, PointMatchesStatus, Running, Holders
<1>3. Cardinality(Holders) <= MaxLive
  BY <1>1, MaxLivePositive DEF IInv, TypeOK, SlotsConserved
<1> QED BY <1>1, <1>2, <1>3

\* At most max_concurrent_live_investigations live investigations run at once.
THEOREM CapacityRespected == Spec => []LiveWithinMaximum
<1>1. IInv => LiveWithinMaximum
  <2> SUFFICES ASSUME IInv PROVE Cardinality(Running) <= MaxLive
    BY DEF LiveWithinMaximum, Running
  <2>1. Cardinality(Running) <= Cardinality(Holders)
    BY RunningLiveHoldSlots, FS_Subset
  <2> QED BY <2>1, RunningLiveHoldSlots, RunningFinite, MaxLivePositive
<1> QED BY <1>1, Invariance, PTL

\* A free slot never stands in front of a waiting investigation with no woken
\* waiter on its way to pass it on (the asyncio semaphore under wait_for).
THEOREM FreeSlotIsPassedOn == Spec => []NoIdleSlot
BY Invariance, PTL DEF IInv

\* job.finish runs once for every run of _run_job that ends, and never otherwise.
THEOREM RunsFinishOnce == Spec => []FinishedOnce
BY Invariance, PTL DEF IInv

\* Nothing changes the status or the event log of an investigation that ended.
THEOREM OutcomesAreFinal == Spec => OutcomeIsFinal
<1>1. IInv /\ [Next]_vars =>
        [\A j \in Jobs : Terminal(j) => /\ status'[j] = status[j]
                                        /\ sequence'[j] = sequence[j]]_vars
  <2> SUFFICES ASSUME IInv, Next, NEW j \in Jobs, Terminal(j)
               PROVE  status'[j] = status[j] /\ sequence'[j] = sequence[j]
    BY DEF vars
  <2>1. pc[j] = "ended"
    BY DEF IInv, FinishedOnce
  <2>2. PICK k \in Jobs : (\E m \in Modes : Create(k, m)) \/ Step(k)
    BY DEF Next
  <2>3. pc[k] # "ended" => j # k
    BY <2>1
  <2> USE DEF IInv, TypeOK
  <2>4. CASE \E m \in Modes : Create(k, m)
    BY <2>3, <2>4 DEF Create
  <2>5. CASE StartPruned(k) \/ StartStub(k) \/ StartLive(k)
    BY <2>3, <2>5 DEF StartPruned, StartStub, StartLive, Emit, jobVars
  <2>6. CASE Admit(k) \/ BeginLive(k) \/ Progress(k)
    BY <2>3, <2>6 DEF Admit, BeginLive, Progress, Emit, jobVars
  <2>7. CASE CapacityTimeout(k) \/ Complete(k) \/ Fail(k) \/ Cancel(k)
    BY <2>3, <2>7 DEF CapacityTimeout, Complete, Fail, Cancel, Finish
  <2> QED BY <2>2, <2>4, <2>5, <2>6, <2>7 DEF Step
<1> QED BY <1>1, Invariance, PTL DEF Spec, OutcomeIsFinal

\* Whatever a run leaves, a slot only goes to the first waiter in line.
LEMMA WakeNextInOrder ==
  ASSUME IInv, NEW f \in Nat, NEW p \in [Jobs -> Points], WakeNext(f, p),
         NEW j \in Jobs, NEW k \in Jobs,
         p[j] = "waiting", pc'[j] = "granted", p[k] = "waiting", pc'[k] = "waiting",
         \A i \in Jobs : p[i] = "waiting" => pc[i] = "waiting"
  PROVE  pc[j] = "waiting" /\ ticket[j] < ticket[k]
<1>1. j \in FirstWaiting(p)
  BY DEF WakeNext, FirstWaiting, Waiting
<1>2. ticket[j] <= ticket[k]
  BY <1>1 DEF FirstWaiting, Waiting
<1>3. ticket[j] # ticket[k] /\ ticket[j] \in Nat /\ ticket[k] \in Nat
  BY DEF IInv, TicketsDiffer, TypeOK
<1> QED BY <1>2, <1>3

\* A run that ends hands its slot to the first waiter.
LEMMA GiveUpSlotInOrder ==
  ASSUME IInv, NEW i \in Jobs, GiveUpSlot(i, "ended"), NEW j \in Jobs, NEW k \in Jobs,
         pc[k] = "waiting", pc'[k] = "waiting",
         pc'[j] \in {"granted", "admitted"}, pc[j] \in {"scheduled", "waiting"}
  PROVE  pc[j] = "waiting" /\ ticket[j] < ticket[k]
<1> DEFINE left == [pc EXCEPT ![i] = "ended"]
<1>1. left \in [Jobs -> Points] /\ pc \in [Jobs -> Points] /\ free + 1 \in Nat
  BY MaxLivePositive DEF IInv, TypeOK, Points
<1>2. CASE i \in Holders
  <2>1. WakeNext(free + 1, left)
    BY <1>2 DEF GiveUpSlot
  <2>2. j # i /\ k # i /\ left[j] = pc[j] /\ left[k] = pc[k]
    BY <1>1, <1>2 DEF Holders
  <2>3. left[j] = "waiting" /\ pc'[j] = "granted"
    BY <1>1, <2>1, <2>2 DEF WakeNext, FirstWaiting, Waiting
  <2>4. \A h \in Jobs : left[h] = "waiting" => pc[h] = "waiting"
    BY <1>1
  <2> HIDE DEF left
  <2> QED BY <1>1, <2>1, <2>2, <2>3, <2>4, WakeNextInOrder
<1>3. CASE i \notin Holders
  BY <1>1, <1>3 DEF GiveUpSlot
<1> QED BY <1>2, <1>3

\* Live investigations are given slots in the order in which they asked: neither
\* a release, a timeout, a cancellation nor a newcomer overtakes a waiter.
THEOREM SlotsGoInOrder == Spec => NoOvertaking
<1> DEFINE Ordered(j, k) ==
      /\ pc[k] = "waiting" /\ pc'[k] = "waiting"
      /\ pc'[j] \in {"granted", "admitted"}
      /\ pc[j] \in {"scheduled", "waiting"}
      => pc[j] = "waiting" /\ ticket[j] < ticket[k]
<1>1. IInv /\ [Next]_vars => [\A j, k \in Jobs : Ordered(j, k)]_vars
  <2> SUFFICES ASSUME IInv, Next, NEW j \in Jobs, NEW k \in Jobs,
                      pc[k] = "waiting", pc'[k] = "waiting",
                      pc'[j] \in {"granted", "admitted"},
                      pc[j] \in {"scheduled", "waiting"}
               PROVE  pc[j] = "waiting" /\ ticket[j] < ticket[k]
    BY DEF vars
  <2>1. PICK i \in Jobs : (\E m \in Modes : Create(i, m)) \/ Step(i)
    BY DEF Next
  <2>2. pc \in [Jobs -> Points]
    BY DEF IInv, TypeOK
  <2>3. CASE \E m \in Modes : Create(i, m)
    BY <2>2, <2>3 DEF Create
  <2>4. CASE StartPruned(i) \/ StartStub(i) \/ BeginLive(i) \/ Progress(i)
    BY <2>2, <2>4 DEF StartPruned, StartStub, BeginLive, Progress
  <2>5. CASE StartLive(i)
    BY <2>2, <2>5 DEF StartLive, Queued
  <2>6. CASE Admit(i)
    <3> DEFINE left == [pc EXCEPT ![i] = "admitted"]
    <3>1. pc[i] = "granted" /\ WakeNext(free, left) /\ left \in [Jobs -> Points]
      BY <2>2, <2>6 DEF Admit, Points
    <3>2. free \in Nat
      BY DEF IInv, TypeOK
    <3>3. left[j] = pc[j] /\ left[k] = pc[k]
      BY <2>2, <3>1
    <3>4. left[j] = "waiting" /\ pc'[j] = "granted"
      BY <2>2, <3>1, <3>3 DEF WakeNext, FirstWaiting, Waiting
    <3>5. \A h \in Jobs : left[h] = "waiting" => pc[h] = "waiting"
      BY <2>2
    <3> HIDE DEF left
    <3> QED BY <3>1, <3>2, <3>3, <3>4, <3>5, WakeNextInOrder
  <2>7. CASE CapacityTimeout(i) \/ Complete(i) \/ Fail(i) \/ Cancel(i)
    BY <2>7, GiveUpSlotInOrder DEF CapacityTimeout, Complete, Fail, Cancel, LeaveExecution
  <2> QED BY <2>1, <2>3, <2>4, <2>5, <2>6, <2>7 DEF Step
<1> QED BY <1>1, Invariance, PTL DEF Spec, NoOvertaking
-----------------------------------------------------------------------------
(* The refinement of InvestigationLifecycle. *)

\* The abstract module counts with its own instance of FiniteSets.
LEMMA LifecycleCardinality ==
  ASSUME NEW S
  PROVE  Lifecycle!Cardinality(S) = Cardinality(S)
BY DEF Cardinality, Lifecycle!Cardinality

\* A live investigation that starts finds fewer than MaxLive others running,
\* for it holds a slot of its own by then.
LEMMA RoomForOneMore ==
  ASSUME IInv, NEW j \in Jobs, pc[j] = "admitted"
  PROVE  Cardinality(Lifecycle!RunningLive) < MaxLive
<1>1. Lifecycle!RunningLive = Running
  BY DEF Lifecycle!RunningLive, Running, Live
<1>2. j \in Holders /\ j \notin Running
  BY DEF IInv, PointMatchesStatus, Holders, Running
<1>3. Running \cup {j} \in SUBSET Holders
  BY <1>2, RunningLiveHoldSlots
<1>4. Cardinality(Running \cup {j}) <= Cardinality(Holders)
  BY <1>3, RunningLiveHoldSlots, FS_Subset
<1>5. Cardinality(Running \cup {j}) = Cardinality(Running) + 1
  BY <1>2, RunningFinite, FS_AddElement
<1> QED BY <1>1, <1>4, <1>5, RunningFinite, RunningLiveHoldSlots, MaxLivePositive

\* Every step of the gateway is a step of the lifecycle, or a stutter.
LEMMA StepRefines == IInv /\ [Next]_vars => [Lifecycle!Next]_(Lifecycle!vars)
<1> SUFFICES ASSUME IInv, [Next]_vars
             PROVE  Lifecycle!Next \/ UNCHANGED <<mode, status>>
  BY DEF Lifecycle!vars
<1>1. CASE UNCHANGED vars
  BY <1>1 DEF vars
<1>2. CASE \E j \in Jobs, m \in Modes : Create(j, m)
  <2>1. PICK j \in Jobs, m \in Modes : Create(j, m)
    BY <1>2
  <2>2. Lifecycle!Submit(j, m) /\ m \in Lifecycle!Modes
    BY <2>1 DEF Create, IInv, PointMatchesStatus, Lifecycle!Submit, Modes, Lifecycle!Modes
  <2> QED BY <2>2 DEF Lifecycle!Next
<1>3. CASE \E j \in Jobs : Step(j)
  <2>1. PICK j \in Jobs : Step(j)
    BY <1>3
  <2>2. CASE StartPruned(j) \/ StartLive(j) \/ Admit(j) \/ Progress(j)
    BY <2>2 DEF StartPruned, StartLive, Admit, Progress, requestVars, jobVars
  <2>3. CASE StartStub(j)
    <3>1. Lifecycle!Start(j)
      BY <2>3 DEF StartStub, Lifecycle!Start, IInv, PointMatchesStatus, Live, requestVars
    <3> QED BY <3>1 DEF Lifecycle!Next
  <2>4. CASE BeginLive(j)
    <3>1. Lifecycle!Start(j)
      BY <2>4, RoomForOneMore, LifecycleCardinality
      DEF BeginLive, Lifecycle!Start, IInv, PointMatchesStatus, requestVars
    <3> QED BY <3>1 DEF Lifecycle!Next
  <2>5. CASE CapacityTimeout(j) \/ Complete(j) \/ Fail(j) \/ Cancel(j)
    <3>1. PICK outcome \in Outcomes :
            /\ status' = [status EXCEPT ![j] = outcome]
            /\ mode' = mode
            /\ \/ pc[j] = "executing"
               \/ pc[j] \in {"waiting", "granted"} /\ outcome = "failed"
      BY <2>5 DEF CapacityTimeout, Complete, Fail, Cancel, Finish, Outcomes, requestVars
    <3>2. CASE pc[j] = "executing"
      <4>1. Lifecycle!End(j, outcome) /\ outcome \in Lifecycle!Outcomes
        BY <3>1, <3>2 DEF Lifecycle!End, IInv, PointMatchesStatus, Outcomes, Lifecycle!Outcomes
      <4> QED BY <4>1 DEF Lifecycle!Next
    <3>3. CASE pc[j] \in {"waiting", "granted"}
      <4>1. Lifecycle!Refuse(j)
        BY <3>1, <3>3 DEF Lifecycle!Refuse, IInv, PointMatchesStatus, Live
      <4> QED BY <4>1 DEF Lifecycle!Next
    <3> QED BY <3>1, <3>2, <3>3
  <2> QED BY <2>1, <2>2, <2>3, <2>4, <2>5 DEF Step
<1> QED BY <1>1, <1>2, <1>3 DEF Next

\* The gateway implements the abstract lifecycle: queued, started at most once and
\* only with capacity, ended at most once, refused only while it waits.
THEOREM GatewayImplementsLifecycle == Spec => ImplementsLifecycle
<1>1. Init => Lifecycle!Init
  BY DEF Init, Lifecycle!Init
<1> QED BY <1>1, StepRefines, Invariance, PTL DEF Spec, ImplementsLifecycle, Lifecycle!Spec
=============================================================================
