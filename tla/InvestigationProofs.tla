-------------------------- MODULE InvestigationProofs --------------------------
(***************************************************************************)
(* No permit outlives the model call it was taken for, for any providers,  *)
(* candidates, models and limits, wherever a call is cut off.              *)
(*                                                                         *)
(* A specialist moves in one of three ways: it gives up what it holds      *)
(* (Respond and everything that ends in it, a retry, a reply, a lost       *)
(* connection), it moves between two points at which it holds nothing, or  *)
(* it takes a permit and begins the call.                                  *)
(*                                                                         *)
(* Of the findings: an answer holds what its specialist found, once to a   *)
(* candidate and by one mode, through retries, merges and sorts.           *)
(***************************************************************************)
EXTENDS Investigation, FiniteSetTheorems, TLAPS

Points == Busy \cup {"idle", "done", "lost"}

\* The inductive invariant. That nobody holds a permit before the coordinator
\* starts the specialists is what its first step needs.
IInv ==
  /\ at \in [Providers -> Points]
  /\ holders \subseteq Providers
  /\ stage = "loading" => holders = {}
  /\ PermitsReturned

\* A specialist that goes anywhere without what it held.
LEMMA LeavingGivesBack ==
  ASSUME IInv, NEW p \in Providers, NEW point \in Points,
         at' = [at EXCEPT ![p] = point], holders' = holders \ {p}, stage' = stage
  PROVE  IInv'
BY DEF IInv, PermitsReturned

\* A specialist that goes anywhere while it holds nothing.
LEMMA MovingWithNothing ==
  ASSUME IInv, NEW p \in Providers, at[p] # "calling", NEW point \in Points,
         at' = [at EXCEPT ![p] = point], holders' = holders, stage' = stage
  PROVE  IInv'
BY DEF IInv, PermitsReturned

\* Steps that leave the specialists and their permits alone.
LEMMA StandingStill ==
  ASSUME IInv, at' = at, holders' = holders, stage' = stage \/ stage' # "loading"
  PROVE  IInv'
BY DEF IInv, PermitsReturned

LEMMA RespondGivesBack ==
  ASSUME IInv, NEW p \in Providers, NEW response, Respond(p, response), stage' = stage
  PROVE  IInv'
BY LeavingGivesBack DEF Respond, Points

LEMMA FailingGivesBack ==
  ASSUME IInv, NEW p \in Providers, NEW retryable \in BOOLEAN,
         AttemptFails(p, retryable), stage' = stage
  PROVE  IInv'
<1>1. CASE Retries(p, retryable) /\ holders' = holders \ {p}
           /\ at' = [at EXCEPT ![p] = "sleeping"]
  BY <1>1, LeavingGivesBack DEF Points, Busy
<1>2. CASE FallBack(p)
  BY <1>2, RespondGivesBack DEF FallBack
<1> QED BY <1>1, <1>2 DEF AttemptFails

\* The start of an attempt, from the context or from a delay.
LEMMA LaunchKeeps ==
  ASSUME IInv, NEW p \in Providers, at[p] \in {"building", "sleeping"}, Launch(p),
         stage' = stage
  PROVE  IInv'
BY MovingWithNothing DEF Launch, Points, Busy, Running

\* The coordinator: it starts the specialists, reports, or is cancelled.
LEMMA CoordinatorKeeps ==
  ASSUME IInv, Load \/ Report \/ Cancel
  PROVE  IInv'
<1>1. CASE Load
  <2>1. holders = {} /\ holders' = {}
    BY <1>1 DEF IInv, Load
  <2>2. at' \in [Providers -> Points]
    BY <1>1 DEF IInv, Load, Points, Busy
  <2> QED BY <2>1, <2>2 DEF IInv, PermitsReturned
<1>2. CASE Report
  BY <1>2, StandingStill DEF Report
<1>3. CASE Cancel
  <2>1. holders' = {} /\ at' \in [Providers -> Points]
    BY <1>3 DEF IInv, Cancel, Points
  <2> QED BY <2>1 DEF IInv, PermitsReturned
<1> QED BY <1>1, <1>2, <1>3

\* What happens to a specialist from outside, and what time does to it.
LEMMA SpecialistKeeps ==
  ASSUME IInv, NEW p \in Providers,
         \/ Proceed(p) \/ ContextFails(p) \/ Raise(p) \/ BudgetExhausted(p)
         \/ ConnectionLost(p) \/ WorkerTimeout(p)
  PROVE  IInv'
<1>1. CASE ContextBuilt(p)
  BY <1>1, LaunchKeeps, RespondGivesBack DEF ContextBuilt
<1>2. CASE Cut(p)
  BY <1>2, FailingGivesBack DEF Cut
<1>3. CASE Wake(p)
  BY <1>3, LaunchKeeps, RespondGivesBack DEF Wake, FallBack
<1>4. CASE Pass(p)
  BY <1>4, StandingStill DEF Pass
<1>5. CASE ContextFails(p)
  BY <1>5, RespondGivesBack DEF ContextFails
<1>6. CASE Raise(p)
  BY <1>6, FailingGivesBack DEF Raise
<1>7. CASE BudgetExhausted(p)
  BY <1>7, FailingGivesBack DEF BudgetExhausted
<1>8. CASE ConnectionLost(p)
  BY <1>8, LeavingGivesBack DEF ConnectionLost, Points
<1>9. CASE WorkerTimeout(p)
  BY <1>9, RespondGivesBack DEF WorkerTimeout
<1> QED
  BY <1>1, <1>2, <1>3, <1>4, <1>5, <1>6, <1>7, <1>8, <1>9 DEF Proceed

\* What the agent does.
LEMMA AgentKeeps ==
  ASSUME IInv, stage = "investigating", NEW p \in Providers, Agent(p)
  PROVE  IInv'
<1>1. CASE Connect(p)
  BY <1>1, MovingWithNothing DEF Connect, Points, Busy, Running
<1>2. CASE ReadTool(p)
  BY <1>2, StandingStill DEF ReadTool
<1>3. CASE \E c \in Candidates[p] : RecordFinding(p, c)
  BY <1>3, StandingStill DEF RecordFinding
<1>4. CASE Ask(p)
  BY <1>4, MovingWithNothing DEF Ask, Points, Busy, Running
<1>5. CASE TakePermit(p)
  BY <1>5 DEF TakePermit, IInv, PermitsReturned, Points, Busy, Running
<1>6. CASE Reply(p)
  BY <1>6, LeavingGivesBack DEF Reply, Points, Busy, Running
<1>7. CASE AgentEnds(p)
  BY <1>7, FailingGivesBack, RespondGivesBack DEF AgentEnds
<1> QED
  BY <1>1, <1>2, <1>3, <1>4, <1>5, <1>6, <1>7 DEF Agent

\* However a model call ends, by an answer, an error, the deadline of the
\* attempt, the timeout of the service or a cancellation of the whole
\* investigation, its permit is given back (governor.py "Cancellation-safe",
\* live_agent.py permit_stack).
THEOREM PermitsAreReturned == Spec => []PermitsReturned
<1>1. Init => IInv
  BY DEF Init, IInv, PermitsReturned, Points
<1>2. IInv /\ [Next]_vars => IInv'
  <2> SUFFICES ASSUME IInv, [Next]_vars PROVE IInv'
    OBVIOUS
  <2>1. CASE Load \/ Report \/ Cancel
    BY <2>1, CoordinatorKeeps
  <2>2. ASSUME stage = "investigating", NEW p \in Providers, Agent(p) PROVE IInv'
    BY <2>2, AgentKeeps
  <2>3. ASSUME NEW p \in Providers,
               \/ Proceed(p) \/ ContextFails(p) \/ Raise(p) \/ BudgetExhausted(p)
               \/ ConnectionLost(p) \/ WorkerTimeout(p)
        PROVE  IInv'
    BY <2>3, SpecialistKeeps
  <2>4. CASE UNCHANGED vars
    BY <2>4, StandingStill DEF vars
  <2> QED BY <2>1, <2>2, <2>3, <2>4 DEF Next
<1>3. IInv => PermitsReturned
  BY DEF IInv
<1> QED BY <1>1, <1>2, <1>3, PTL DEF Spec
-----------------------------------------------------------------------------
(* Types, the budget of a process and the attempts of a specialist. *)

Contexts(p) ==
  [attempt : 0..Attempts, window : {"open", "late", "shut"},
   toolset : Seq(Candidates[p]), recorded : SUBSET Candidates[p]]

\* What has to hold of a context where the specialist is: the next attempt, if
\* there is to be one, is still within ai_retry_attempts.
ContextOK(p) ==
  /\ context[p] \in Contexts(p)
  /\ ToSet(context[p].toolset) \subseteq context[p].recorded
  /\ at[p] = "building" => context[p].attempt = 0
  /\ at[p] = "sleeping" => context[p].attempt < Attempts

TInv ==
  /\ live \in BOOLEAN /\ remote \subseteq Providers
  /\ stage \in Settled \cup {"loading", "investigating"}
  /\ asked \subseteq Providers
  /\ at \in [Providers -> Points]
  /\ DOMAIN context = Providers
  /\ \A p \in Providers : ContextOK(p)
  /\ stage = "loading" => \A p \in Providers : context[p].attempt = 0
  /\ calls \in [{Process(p) : p \in Providers} -> 0..MaxCalls]
  /\ holders \subseteq Providers

LEMMA NewContextOK ==
  ASSUME NEW p \in Providers
  PROVE  NewContext \in Contexts(p) /\ ToSet(NewContext.toolset) = {}
         /\ NewContext.recorded = {} /\ NewContext.attempt = 0
BY LimitsPositive DEF NewContext, Contexts, ToSet

LEMMA ToSetOfAppend ==
  ASSUME NEW S, NEW s \in Seq(S), NEW c \in S
  PROVE  Append(s, c) \in Seq(S) /\ ToSet(Append(s, c)) = ToSet(s) \cup {c}
<1>1. /\ DOMAIN Append(s, c) = 1..(Len(s) + 1) /\ DOMAIN s = 1..Len(s) /\ Len(s) \in Nat
      /\ Append(s, c)[Len(s) + 1] = c
      /\ \A i \in 1..Len(s) : Append(s, c)[i] = s[i]
  OBVIOUS
<1>2. ToSet(s) \cup {c} \subseteq ToSet(Append(s, c))
  BY <1>1 DEF ToSet
<1>3. ToSet(Append(s, c)) \subseteq ToSet(s) \cup {c}
  <2> SUFFICES ASSUME NEW i \in 1..(Len(s) + 1) PROVE Append(s, c)[i] \in ToSet(s) \cup {c}
    BY <1>1 DEF ToSet
  <2>1. CASE i \in 1..Len(s)
    BY <1>1, <2>1 DEF ToSet
  <2>2. CASE i = Len(s) + 1
    BY <1>1, <2>2
  <2> QED BY <1>1, <2>1, <2>2
<1>4. Append(s, c) \in Seq(S)
  OBVIOUS
<1> QED BY <1>2, <1>3, <1>4

\* A step of p that leaves the coordinator alone and the context of p in order.
LEMMA ContextStep ==
  ASSUME TInv, stage = "investigating", NEW p \in Providers, NEW point \in Points,
         UNCHANGED <<live, remote, stage, asked>>,
         at' = [at EXCEPT ![p] = point], holders' \subseteq holders \cup {p},
         calls' \in [{Process(q) : q \in Providers} -> 0..MaxCalls],
         DOMAIN context' = Providers,
         \A q \in Providers \ {p} : context'[q] = context[q],
         context'[p] \in Contexts(p),
         ToSet(context'[p].toolset) \subseteq context'[p].recorded,
         point = "building" => context'[p].attempt = 0,
         point = "sleeping" => context'[p].attempt < Attempts
  PROVE  TInv'
<1>1. at' \in [Providers -> Points] /\ holders' \subseteq Providers
  BY DEF TInv
<1>2. ASSUME NEW q \in Providers PROVE ContextOK(q)'
  <2>1. CASE q = p
    BY <2>1 DEF TInv, ContextOK, Contexts
  <2>2. CASE q # p
    BY <2>2 DEF TInv, ContextOK, Contexts
  <2> QED BY <2>1, <2>2
<1>3. {Process(q) : q \in Providers}' = {Process(q) : q \in Providers}
  BY DEF Process
<1> QED BY <1>1, <1>2, <1>3 DEF TInv

\* The same for a step that does not touch the contexts.
LEMMA ContextStays ==
  ASSUME TInv, stage = "investigating", NEW p \in Providers, NEW point \in Points,
         UNCHANGED <<live, remote, stage, asked, context>>,
         at' = [at EXCEPT ![p] = point], holders' \subseteq holders \cup {p},
         calls' \in [{Process(q) : q \in Providers} -> 0..MaxCalls],
         point = "building" => at[p] = "building",
         point = "sleeping" => context[p].attempt < Attempts
  PROVE  TInv'
<1>1. ContextOK(p) /\ DOMAIN context = Providers
  BY DEF TInv
<1> QED BY <1>1, ContextStep DEF ContextOK

LEMMA RespondTyped ==
  ASSUME TInv, stage = "investigating", NEW p \in Providers, NEW response,
         Respond(p, response), UNCHANGED <<request, stage, asked, calls>>
  PROVE  TInv'
<1>1. context' = [context EXCEPT ![p] = NewContext] /\ DOMAIN context = Providers
  BY DEF Respond, TInv
<1>2. /\ DOMAIN context' = Providers /\ context'[p] = NewContext
      /\ \A q \in Providers \ {p} : context'[q] = context[q]
  BY <1>1
<1>3. calls' \in [{Process(q) : q \in Providers} -> 0..MaxCalls] /\ "done" \in Points
  BY DEF TInv, Points
<1>4. UNCHANGED <<live, remote, stage, asked>> /\ at' = [at EXCEPT ![p] = "done"]
      /\ holders' \subseteq holders \cup {p}
  BY DEF Respond, request
<1> QED BY <1>2, <1>3, <1>4, NewContextOK, ContextStep

LEMMA FailingTyped ==
  ASSUME TInv, stage = "investigating", NEW p \in Providers, NEW retryable \in BOOLEAN,
         AttemptFails(p, retryable), UNCHANGED <<request, stage, asked, calls>>
  PROVE  TInv'
<1>1. CASE /\ Retries(p, retryable) /\ at' = [at EXCEPT ![p] = "sleeping"]
           /\ holders' = holders \ {p} /\ UNCHANGED context
  <2>1. calls' \in [{Process(q) : q \in Providers} -> 0..MaxCalls] /\ "sleeping" \in Points
    BY DEF TInv, Points, Busy
  <2>2. context[p].attempt < Attempts
    BY <1>1 DEF Retries
  <2> QED BY <1>1, <2>1, <2>2, ContextStays DEF request
<1>2. CASE FallBack(p)
  BY <1>2, RespondTyped DEF FallBack
<1> QED BY <1>1, <1>2 DEF AttemptFails

LEMMA LaunchTyped ==
  ASSUME TInv, stage = "investigating", NEW p \in Providers,
         at[p] \in {"building", "sleeping"}, Launch(p),
         UNCHANGED <<request, stage, asked, calls>>
  PROVE  TInv'
<1>1. /\ ContextOK(p) /\ DOMAIN context = Providers
      /\ calls' \in [{Process(q) : q \in Providers} -> 0..MaxCalls]
      /\ "connecting" \in Points
  BY DEF TInv, Points, Busy, Running
<1>2. /\ context[p] \in Contexts(p) /\ context[p].attempt \in 0..Attempts
      /\ context[p].attempt < Attempts /\ Attempts \in Nat
  BY <1>1, LimitsPositive DEF ContextOK, Contexts
<1>3. context' = [context EXCEPT ![p].attempt = @ + 1, ![p].toolset = <<>>]
  BY DEF Launch
<1>4. context'[p] = [context[p] EXCEPT !.attempt = @ + 1, !.toolset = <<>>]
  BY <1>1, <1>3
<1>5. DOMAIN context' = Providers /\ \A q \in Providers \ {p} : context'[q] = context[q]
  BY <1>1, <1>3
<1>6. context[p].attempt + 1 \in 0..Attempts /\ <<>> \in Seq(Candidates[p])
  BY <1>2
<1>7. context'[p] \in Contexts(p) /\ context'[p].toolset = <<>>
  BY <1>2, <1>4, <1>6 DEF Contexts
<1>8. ToSet(context'[p].toolset) \subseteq context'[p].recorded
  BY <1>7 DEF ToSet
<1>9. UNCHANGED <<live, remote, stage, asked>> /\ at' = [at EXCEPT ![p] = "connecting"]
      /\ holders' \subseteq holders \cup {p}
  BY DEF Launch, request
<1> QED BY <1>1, <1>5, <1>7, <1>8, <1>9, ContextStep

LEMMA PassTyped ==
  ASSUME TInv, stage = "investigating", NEW p \in Providers, Pass(p)
  PROVE  TInv'
<1>1. /\ ContextOK(p) /\ DOMAIN context = Providers
      /\ at \in [Providers -> Points] /\ at[p] \in Points
      /\ calls' \in [{Process(q) : q \in Providers} -> 0..MaxCalls]
  BY DEF TInv, Pass
<1>2. context[p] \in Contexts(p)
  BY <1>1 DEF ContextOK
<1>3. PICK window \in {"late", "shut"} : context' = [context EXCEPT ![p].window = window]
  BY DEF Pass
<1>4. context'[p] = [context[p] EXCEPT !.window = window]
  BY <1>1, <1>3
<1>5. DOMAIN context' = Providers /\ \A q \in Providers \ {p} : context'[q] = context[q]
  BY <1>1, <1>3
<1>6. /\ context'[p] \in Contexts(p) /\ context'[p].attempt = context[p].attempt
      /\ context'[p].toolset = context[p].toolset
      /\ context'[p].recorded = context[p].recorded
  BY <1>2, <1>4 DEF Contexts
<1>7. UNCHANGED <<live, remote, stage, asked>> /\ at' = [at EXCEPT ![p] = at[p]]
      /\ holders' \subseteq holders \cup {p}
  BY <1>1 DEF Pass, request
<1> QED BY <1>1, <1>5, <1>6, <1>7, ContextStep DEF ContextOK

LEMMA ReserveTyped ==
  ASSUME TInv, NEW p \in Providers, Reserve(p)
  PROVE  calls' \in [{Process(q) : q \in Providers} -> 0..MaxCalls]
<1>1. calls \in [{Process(q) : q \in Providers} -> 0..MaxCalls]
  BY DEF TInv
<1>2. calls[Process(p)] \in 0..MaxCalls /\ calls[Process(p)] < MaxCalls /\ MaxCalls \in Nat
  BY <1>1, LimitsPositive DEF Reserve, BudgetLeft
<1>3. calls[Process(p)] + 1 \in 0..MaxCalls
  BY <1>2
<1> QED BY <1>1, <1>3 DEF Reserve

LEMMA RecordFindingTyped ==
  ASSUME TInv, stage = "investigating", NEW p \in Providers, NEW c \in Candidates[p],
         RecordFinding(p, c)
  PROVE  TInv'
<1>1. /\ ContextOK(p) /\ DOMAIN context = Providers
      /\ at \in [Providers -> Points] /\ at[p] = "deciding" /\ at[p] \in Points
  BY DEF TInv, RecordFinding
<1>2. /\ context[p] \in Contexts(p) /\ context[p].toolset \in Seq(Candidates[p])
      /\ context[p].recorded \subseteq Candidates[p]
      /\ ToSet(context[p].toolset) \subseteq context[p].recorded
  BY <1>1 DEF ContextOK, Contexts
<1> DEFINE toolset == IF c \in ToSet(context[p].toolset)
                      THEN context[p].toolset ELSE Append(context[p].toolset, c)
           recorded == context[p].recorded \cup {c}
<1>3. toolset \in Seq(Candidates[p]) /\ recorded \in SUBSET Candidates[p]
  <2>1. Append(context[p].toolset, c) \in Seq(Candidates[p])
    BY <1>2, ToSetOfAppend
  <2>2. toolset \in Seq(Candidates[p])
    BY <1>2, <2>1
  <2>3. recorded \in SUBSET Candidates[p]
    BY <1>2
  <2> QED BY <2>2, <2>3
<1>4. ToSet(toolset) \subseteq recorded
  BY <1>2, ToSetOfAppend
<1>5. context' = [context EXCEPT ![p].toolset = toolset, ![p].recorded = recorded]
  BY DEF RecordFinding
<1> HIDE DEF toolset, recorded
<1>6. context'[p] = [context[p] EXCEPT !.toolset = toolset, !.recorded = recorded]
  BY <1>1, <1>5
<1>7. DOMAIN context' = Providers /\ \A q \in Providers \ {p} : context'[q] = context[q]
  BY <1>1, <1>5
<1>8. context'[p] \in Contexts(p) /\ context'[p].toolset = toolset
      /\ context'[p].recorded = recorded
  BY <1>2, <1>3, <1>6 DEF Contexts
<1>9. UNCHANGED <<live, remote, stage, asked>> /\ at' = [at EXCEPT ![p] = "deciding"]
      /\ holders' \subseteq holders \cup {p} /\ "deciding" \in Points
  BY <1>1 DEF RecordFinding, request
<1>10. calls' \in [{Process(q) : q \in Providers} -> 0..MaxCalls]
  BY ReserveTyped DEF RecordFinding
<1> QED BY <1>4, <1>7, <1>8, <1>9, <1>10, ContextStep

LEMMA AgentTyped ==
  ASSUME TInv, stage = "investigating", NEW p \in Providers, Agent(p)
  PROVE  TInv'
<1>1. /\ calls \in [{Process(q) : q \in Providers} -> 0..MaxCalls]
      /\ at \in [Providers -> Points]
      /\ {"deciding", "asking", "calling"} \subseteq Points
  BY DEF TInv, Points, Busy, Running
<1>2. CASE Connect(p)
  BY <1>1, <1>2, ReserveTyped, ContextStays DEF Connect, request
<1>3. CASE ReadTool(p)
  <2>1. at' = [at EXCEPT ![p] = "deciding"]
    BY <1>1, <1>3 DEF ReadTool
  <2> QED BY <1>1, <1>3, <2>1, ReserveTyped, ContextStays DEF ReadTool, request
<1>4. CASE \E c \in Candidates[p] : RecordFinding(p, c)
  <2>1. PICK c \in Candidates[p] : RecordFinding(p, c)
    BY <1>4
  <2> QED BY <2>1, RecordFindingTyped
<1>5. CASE Ask(p)
  BY <1>1, <1>5, ContextStays DEF Ask, request
<1>6. CASE TakePermit(p)
  BY <1>1, <1>6, ContextStays DEF TakePermit, request
<1>7. CASE Reply(p)
  BY <1>1, <1>7, ContextStays DEF Reply, request
<1>8. CASE AgentEnds(p)
  BY <1>8, FailingTyped, RespondTyped DEF AgentEnds
<1> QED
  BY <1>2, <1>3, <1>4, <1>5, <1>6, <1>7, <1>8 DEF Agent

LEMMA SpecialistTyped ==
  ASSUME TInv, stage = "investigating", NEW p \in Providers,
         \/ Proceed(p) \/ ContextFails(p) \/ Raise(p) \/ BudgetExhausted(p)
         \/ ConnectionLost(p) \/ WorkerTimeout(p)
  PROVE  TInv'
<1>1. CASE ContextBuilt(p)
  BY <1>1, LaunchTyped, RespondTyped DEF ContextBuilt
<1>2. CASE Cut(p)
  BY <1>2, FailingTyped DEF Cut
<1>3. CASE Wake(p)
  BY <1>3, LaunchTyped, RespondTyped DEF Wake, FallBack
<1>4. CASE Pass(p)
  BY <1>4, PassTyped
<1>5. CASE ContextFails(p)
  BY <1>5, RespondTyped DEF ContextFails
<1>6. CASE Raise(p)
  BY <1>6, FailingTyped DEF Raise
<1>7. CASE BudgetExhausted(p)
  BY <1>7, FailingTyped DEF BudgetExhausted
<1>8. CASE ConnectionLost(p)
  <2>1. DOMAIN context = Providers /\ "lost" \in Points
        /\ calls \in [{Process(q) : q \in Providers} -> 0..MaxCalls]
    BY DEF TInv, Points
  <2>2. /\ DOMAIN context' = Providers /\ context'[p] = NewContext
        /\ \A q \in Providers \ {p} : context'[q] = context[q]
    BY <1>8, <2>1 DEF ConnectionLost
  <2> QED BY <1>8, <2>1, <2>2, NewContextOK, ContextStep DEF ConnectionLost, request
<1>9. CASE WorkerTimeout(p)
  BY <1>9, RespondTyped DEF WorkerTimeout
<1> QED
  BY <1>1, <1>2, <1>3, <1>4, <1>5, <1>6, <1>7, <1>8, <1>9 DEF Proceed

LEMMA CoordinatorTyped ==
  ASSUME TInv, Load \/ Report \/ Cancel
  PROVE  TInv'
<1>1. request' = request /\ calls' = calls /\ remote' = remote
  BY DEF Load, Report, Cancel, request
<1>2. {Process(q) : q \in Providers}' = {Process(q) : q \in Providers}
  BY <1>1 DEF Process
<1>3. CASE Load
  <2>1. context' = context /\ holders' = holders /\ asked' \subseteq Providers
        /\ stage' \in Settled \cup {"loading", "investigating"} /\ stage' # "loading"
    BY <1>3 DEF Load, Settled, TInv
  <2>2. at' \in [Providers -> Points] /\ \A q \in Providers : at'[q] # "sleeping" \/ at' = at
    BY <1>3 DEF Load, TInv, Points, Busy
  <2>3. ASSUME NEW q \in Providers PROVE ContextOK(q)'
    <3>1. ContextOK(q) /\ context[q].attempt = 0
      BY <1>3 DEF Load, TInv
    <3>2. at'[q] = "sleeping" => 0 < Attempts
      BY LimitsPositive
    <3> QED BY <2>1, <3>1, <3>2 DEF ContextOK, Contexts
  <2> QED BY <1>1, <1>2, <2>1, <2>2, <2>3 DEF TInv, request
<1>4. CASE Report
  <2>1. UNCHANGED <<context, holders, asked, at>> /\ stage' = "reported"
    BY <1>4 DEF Report
  <2>2. ASSUME NEW q \in Providers PROVE ContextOK(q)'
    BY <2>1 DEF TInv, ContextOK, Contexts
  <2> QED BY <1>1, <1>2, <2>1, <2>2 DEF TInv, request, Settled
<1>5. CASE Cancel
  <2>1. /\ context' = [p \in Providers |-> NewContext] /\ holders' = {} /\ asked' = asked
        /\ stage' = "cancelled"
    BY <1>5 DEF Cancel
  <2>2. at' \in [Providers -> Points] /\ \A q \in Providers : at'[q] # "sleeping"
    BY <1>5 DEF Cancel, TInv, Points, Busy
  <2>3. ASSUME NEW q \in Providers PROVE ContextOK(q)'
    BY <2>1, <2>2, NewContextOK DEF ContextOK, Contexts
  <2> QED BY <1>1, <1>2, <2>1, <2>2, <2>3 DEF TInv, request, Settled
<1> QED BY <1>3, <1>4, <1>5

LEMMA InitTInv == Init => TInv
<1> SUFFICES ASSUME Init PROVE TInv
  OBVIOUS
<1>1. context = [p \in Providers |-> NewContext] /\ at = [p \in Providers |-> "idle"]
  BY DEF Init
<1>2. ASSUME NEW p \in Providers PROVE ContextOK(p) /\ context[p].attempt = 0
  BY <1>1, NewContextOK DEF ContextOK
<1>3. calls \in [{Process(p) : p \in Providers} -> 0..MaxCalls]
  BY LimitsPositive DEF Init
<1> QED BY <1>1, <1>2, <1>3, RemoteProviders DEF Init, TInv, Points

LEMMA StepKeepsTInv == TInv /\ [Next]_vars => TInv'
<1> SUFFICES ASSUME TInv, [Next]_vars PROVE TInv'
  OBVIOUS
<1>1. CASE Load \/ Report \/ Cancel
  BY <1>1, CoordinatorTyped
<1>2. ASSUME stage = "investigating", NEW p \in Providers, Agent(p) PROVE TInv'
  BY <1>2, AgentTyped
<1>3. ASSUME stage = "investigating", NEW p \in Providers,
             \/ Proceed(p) \/ ContextFails(p) \/ Raise(p) \/ BudgetExhausted(p)
             \/ ConnectionLost(p) \/ WorkerTimeout(p)
      PROVE  TInv'
  BY <1>3, SpecialistTyped
<1>4. CASE UNCHANGED vars
  <2>1. {Process(q) : q \in Providers}' = {Process(q) : q \in Providers}
    BY <1>4 DEF vars, Process
  <2>2. ASSUME NEW q \in Providers PROVE ContextOK(q)'
    BY <1>4 DEF TInv, vars, ContextOK, Contexts
  <2> QED BY <1>4, <2>1, <2>2 DEF TInv, vars
<1> QED BY <1>1, <1>2, <1>3, <1>4 DEF Next

LEMMA TypeInvariance == Spec => []TInv
<1> QED BY InitTInv, StepKeepsTInv, PTL DEF Spec

\* Whatever agents do, no process spends more than max_agent_calls, no specialist
\* starts more than ai_retry_attempts attempts, and what an attempt holds is
\* recorded in the context that the next one shares.
THEOREM TypeCorrect == Spec => []TypeOK
<1>1. TInv => TypeOK
  BY DEF TInv, TypeOK, ContextOK, Contexts, Points
<1> QED BY <1>1, TypeInvariance, PTL
-----------------------------------------------------------------------------
(* The findings of an answer: lists, and what sorting does to them. *)

LEMMA UpTo ==
  ASSUME NEW n \in Nat
  PROVE  IsFiniteSet(1..n) /\ Cardinality(1..n) = n
<1>1. 1 \in Int /\ n \in Int
  OBVIOUS
<1>2. IsFiniteSet(1..n) /\ Cardinality(1..n) = IF 1 > n THEN 0 ELSE n - 1 + 1
  BY <1>1, FS_Interval
<1> QED BY <1>2

\* Each finding of the list has a place of its own, and every place is taken.
LEMMA EveryPlaceIsTaken ==
  ASSUME NEW n \in Nat, NEW f, DOMAIN f = 1..n, \A i \in 1..n : f[i].candidate \in Nat
  PROVE  \A m \in 1..n : \E i \in 1..n : Place(f, i) = m
<1> DEFINE InFront(j, i) == \/ f[j].candidate < f[i].candidate
                            \/ f[j].candidate = f[i].candidate /\ j <= i
           AheadOf(i) == {j \in 1..n : InFront(j, i)}
           place == [i \in 1..n |-> Place(f, i)]
<1>1. IsFiniteSet(1..n) /\ Cardinality(1..n) = n
  BY UpTo
<1>2. ASSUME NEW i \in 1..n
      PROVE  /\ AheadOf(i) \in SUBSET (1..n) /\ IsFiniteSet(AheadOf(i)) /\ i \in AheadOf(i)
             /\ Place(f, i) = Cardinality(AheadOf(i)) /\ Place(f, i) \in 1..n
  <2>1. AheadOf(i) \in SUBSET (1..n) /\ i \in AheadOf(i) /\ AheadOf(i) # {}
    BY <1>2
  <2>2. IsFiniteSet(AheadOf(i)) /\ Cardinality(AheadOf(i)) <= n
    BY <1>1, <2>1, FS_Subset
  <2>3. Cardinality(AheadOf(i)) \in Nat /\ Cardinality(AheadOf(i)) # 0
    BY <2>1, <2>2, FS_CardinalityType, FS_EmptySet
  <2>4. Place(f, i) = Cardinality(AheadOf(i))
    BY DEF Place
  <2> QED BY <2>1, <2>2, <2>3, <2>4
<1>3. ASSUME NEW i \in 1..n, NEW k \in 1..n, i # k, InFront(i, k)
      PROVE  Place(f, i) # Place(f, k)
  <2>1. AheadOf(i) \in SUBSET (AheadOf(k) \ {k})
    BY <1>3
  <2>2. IsFiniteSet(AheadOf(k)) /\ k \in AheadOf(k)
    BY <1>2
  <2>3. /\ IsFiniteSet(AheadOf(k) \ {k})
        /\ Cardinality(AheadOf(k) \ {k}) = Cardinality(AheadOf(k)) - 1
    BY <2>2, FS_RemoveElement
  <2>4. Cardinality(AheadOf(i)) <= Cardinality(AheadOf(k) \ {k})
    BY <2>1, <2>3, FS_Subset
  <2>5. /\ Place(f, i) = Cardinality(AheadOf(i)) /\ Place(f, k) = Cardinality(AheadOf(k))
        /\ Place(f, i) \in 1..n /\ Place(f, k) \in 1..n
    BY <1>2
  <2> HIDE DEF AheadOf
  <2> QED BY <2>3, <2>4, <2>5
<1>4. \A i, k \in 1..n : i # k => InFront(i, k) \/ InFront(k, i)
  OBVIOUS
<1>5. \A i, k \in 1..n : place[i] = place[k] => i = k
  <2> HIDE DEF InFront
  <2> QED BY <1>3, <1>4
<1>6. place \in [1..n -> 1..n]
  BY <1>2
<1> HIDE DEF place
<1>7. place \in Injection(1..n, 1..n)
  BY <1>5, <1>6 DEF Injection, IsInjective
<1>8. place \in Surjection(1..n, 1..n)
  BY <1>1, <1>7, FS_Injection
<1> QED BY <1>8 DEF Surjection, place

\* The sort moves the findings and loses or doubles none.
LEMMA SortMoves ==
  ASSUME NEW n \in Nat, NEW f, DOMAIN f = 1..n, \A i \in 1..n : f[i].candidate \in Nat
  PROVE  /\ DOMAIN ByCost(f) = 1..n
         /\ \E from \in Bijection(1..n, 1..n) : \A m \in 1..n : ByCost(f)[m] = f[from[m]]
<1> DEFINE from == [m \in 1..n |-> CHOOSE i \in 1..n : Place(f, i) = m]
<1>0. \A m \in 1..n : \E i \in 1..n : Place(f, i) = m
  BY EveryPlaceIsTaken
<1>1. \A m \in 1..n : from[m] \in 1..n /\ Place(f, from[m]) = m
  BY <1>0
<1>2. from \in [1..n -> 1..n] /\ \A l, m \in 1..n : from[l] = from[m] => l = m
  BY <1>1
<1>3. DOMAIN ByCost(f) = 1..n /\ \A m \in 1..n : ByCost(f)[m] = f[from[m]]
  BY DEF ByCost
<1> HIDE DEF from
<1>4. from \in Injection(1..n, 1..n)
  BY <1>2 DEF Injection, IsInjective
<1>5. from \in Surjection(1..n, 1..n)
  BY <1>4, UpTo, FS_Injection
<1> QED BY <1>3, <1>4, <1>5 DEF Bijection

\* Findings of p by the mode, one to a candidate.
FindingsOK(p, mode, findings) ==
  /\ \A i \in DOMAIN findings : findings[i].provider = p /\ findings[i].mode = mode
  /\ \A i, j \in DOMAIN findings : findings[i].candidate = findings[j].candidate => i = j

LEMMA SortKeepsFindings ==
  ASSUME NEW p, NEW mode, NEW n \in Nat, NEW f, DOMAIN f = 1..n,
         \A i \in 1..n : f[i].candidate \in Nat, FindingsOK(p, mode, f)
  PROVE  /\ FindingsOK(p, mode, ByCost(f))
         /\ \A i \in 1..n : \E m \in DOMAIN ByCost(f) : ByCost(f)[m] = f[i]
<1>1. DOMAIN ByCost(f) = 1..n
  BY SortMoves
<1>2. PICK from \in Bijection(1..n, 1..n) : \A m \in 1..n : ByCost(f)[m] = f[from[m]]
  BY SortMoves
<1>3. /\ \A m \in 1..n : from[m] \in 1..n
      /\ \A l, m \in 1..n : from[l] = from[m] => l = m
      /\ \A i \in 1..n : \E m \in 1..n : from[m] = i
  BY <1>2 DEF Bijection, Injection, IsInjective, Surjection
<1> DEFINE g == ByCost(f)
<1>4. DOMAIN g = 1..n /\ \A m \in 1..n : from[m] \in 1..n /\ g[m] = f[from[m]]
  BY <1>1, <1>2, <1>3
<1> HIDE DEF g
<1>5. \A m \in DOMAIN g : g[m].provider = p /\ g[m].mode = mode
  BY <1>4 DEF FindingsOK
<1>6. ASSUME NEW l \in DOMAIN g, NEW m \in DOMAIN g, g[l].candidate = g[m].candidate
      PROVE  l = m
  <2>1. from[l] = from[m]
    BY <1>4, <1>6 DEF FindingsOK
  <2> QED BY <1>3, <1>4, <2>1
<1>7. \A i \in 1..n : \E m \in DOMAIN g : g[m] = f[i]
  <2> TAKE i \in 1..n
  <2>1. PICK m \in 1..n : from[m] = i
    BY <1>3
  <2> QED BY <1>4, <2>1
<1> QED BY <1>5, <1>6, <1>7 DEF g, FindingsOK

\* SetToSeq lists each element of a finite set once.
LEMMA ListsEachOnce ==
  ASSUME NEW S, IsFiniteSet(S)
  PROVE  /\ Cardinality(S) \in Nat
         /\ SetToSeq(S) \in [1..Cardinality(S) -> S]
         /\ \A i, j \in 1..Cardinality(S) : SetToSeq(S)[i] = SetToSeq(S)[j] => i = j
         /\ \A x \in S : \E i \in 1..Cardinality(S) : SetToSeq(S)[i] = x
<1> DEFINE n == Cardinality(S)
<1>1. n \in Nat /\ ExistsBijection(1..n, S)
  BY FS_CardinalityType
<1>2. \E f \in [1..n -> S] : IsInjective(f)
  BY <1>1 DEF ExistsBijection, Bijection, Injection
<1>3. SetToSeq(S) \in [1..n -> S] /\ IsInjective(SetToSeq(S))
  BY <1>2 DEF SetToSeq
<1>4. SetToSeq(S) \in Injection(1..n, S)
  BY <1>3 DEF Injection
<1>5. IsFiniteSet(1..n) /\ Cardinality(1..n) = n
  BY <1>1, UpTo
<1>6. SetToSeq(S) \in Surjection(1..n, S)
  BY <1>4, <1>5, FS_Injection
<1> QED BY <1>1, <1>3, <1>6 DEF IsInjective, Surjection

LEMMA PlaybooksOK ==
  ASSUME NEW p \in Providers
  PROVE  FindingsOK(p, "stub", Playbooks(p))
<1> DEFINE n == Cardinality(Candidates[p])
           list == SetToSeq(Candidates[p])
           f == [i \in 1..n |-> Finding(p, list[i], "stub")]
<1>1. /\ n \in Nat /\ list \in [1..n -> Candidates[p]] /\ Candidates[p] \subseteq Nat
      /\ \A i, j \in 1..n : list[i] = list[j] => i = j
  BY CandidatesNumbered, ListsEachOnce
<1> HIDE DEF n, list
<1>2. DOMAIN f = 1..n /\ \A i \in 1..n : f[i].candidate \in Nat
  BY <1>1 DEF Finding
<1>3. FindingsOK(p, "stub", f)
  BY <1>1 DEF Finding, FindingsOK
<1> HIDE DEF f
<1>4. FindingsOK(p, "stub", ByCost(f))
  BY <1>1, <1>2, <1>3, SortKeepsFindings
<1> QED BY <1>4 DEF Playbooks, f, list, n

Distinct(s) == \A i, j \in DOMAIN s : s[i] = s[j] => i = j

\* What the last attempt holds and what earlier ones recorded are listed once each, and all.
LEMMA LiveFindingsOK ==
  ASSUME TInv, NEW p \in Providers, Distinct(context[p].toolset)
  PROVE  /\ FindingsOK(p, "live", LiveFindings(p))
         /\ \A c \in context[p].recorded : <<p, c>> \in Explained(LiveFindings(p))
<1> DEFINE present == context[p].toolset
           earlier == context[p].recorded \ ToSet(present)
           list == SetToSeq(earlier)
           all == present \o list
           f == [i \in DOMAIN all |-> Finding(p, all[i], "live")]
           k == Len(present)
           l == Cardinality(earlier)
<1>1. /\ present \in Seq(Candidates[p]) /\ ToSet(present) \subseteq context[p].recorded
      /\ context[p].recorded \subseteq Candidates[p]
  BY DEF TInv, ContextOK, Contexts
<1>2. Candidates[p] \subseteq Nat /\ IsFiniteSet(Candidates[p])
  BY CandidatesNumbered
<1>3. IsFiniteSet(earlier) /\ earlier \subseteq Candidates[p]
  BY <1>1, <1>2, FS_Subset
<1>4. /\ l \in Nat /\ list \in [1..l -> earlier]
      /\ \A i, j \in 1..l : list[i] = list[j] => i = j
      /\ \A x \in earlier : \E i \in 1..l : list[i] = x
  BY <1>3, ListsEachOnce
<1>5. /\ k \in Nat /\ DOMAIN present = 1..k
      /\ \A i \in 1..k : present[i] \in Candidates[p] /\ present[i] \in ToSet(present)
      /\ \A c \in ToSet(present) : \E i \in 1..k : present[i] = c
  BY <1>1 DEF ToSet
<1> HIDE DEF list, l
<1>6. list \in Seq(Candidates[p]) /\ Len(list) = l
  BY <1>3, <1>4
<1>7. /\ DOMAIN all = 1..(k + l) /\ k + l \in Nat
      /\ \A i \in 1..k : all[i] = present[i]
      /\ \A i \in (k + 1)..(k + l) : all[i] = list[i - k]
  <2>1. DOMAIN (present \o list) = 1..(k + l)
    BY <1>1, <1>6
  <2>2. \A i \in 1..(k + l) : (present \o list)[i] = IF i <= k THEN present[i] ELSE list[i - k]
    BY <1>1, <1>6
  <2> QED BY <1>4, <1>5, <2>1, <2>2
<1>8. \A i \in (k + 1)..(k + l) : i - k \in 1..l /\ list[i - k] \in earlier
  <2> HIDE DEF k, earlier
  <2> QED BY <1>4, <1>5
<1>9. \A i \in 1..l : i + k \in (k + 1)..(k + l) /\ (i + k) - k = i
  BY <1>4, <1>5
<1> HIDE DEF all
<1>10. \A i \in 1..(k + l) : all[i] \in Nat
  <2> TAKE i \in 1..(k + l)
  <2>1. i \in 1..k \/ i \in (k + 1)..(k + l)
    BY <1>4, <1>5
  <2>2. CASE i \in 1..k
    BY <1>2, <1>5, <1>7, <2>2
  <2>3. CASE i \in (k + 1)..(k + l)
    BY <1>2, <1>3, <1>7, <1>8, <2>3
  <2> QED BY <2>1, <2>2, <2>3
<1>11. \A i, j \in 1..(k + l) : all[i] = all[j] => i = j
  <2> SUFFICES ASSUME NEW i \in 1..(k + l), NEW j \in 1..(k + l), all[i] = all[j] PROVE i = j
    OBVIOUS
  <2>1. CASE i \in 1..k /\ j \in 1..k
    BY <1>5, <1>7, <2>1 DEF Distinct
  <2>2. CASE i \in (k + 1)..(k + l) /\ j \in (k + 1)..(k + l)
    <3>1. list[i - k] = list[j - k] /\ i - k \in 1..l /\ j - k \in 1..l
      BY <1>7, <1>8, <2>2
    <3>2. i - k = j - k
      BY <1>4, <3>1
    <3> QED BY <1>4, <1>5, <2>2, <3>2
  <2>3. CASE i \in 1..k /\ j \in (k + 1)..(k + l)
    <3>1. all[i] \in ToSet(present) /\ all[j] \notin ToSet(present)
      BY <1>5, <1>7, <1>8, <2>3
    <3> QED BY <3>1
  <2>4. CASE j \in 1..k /\ i \in (k + 1)..(k + l)
    <3>1. all[j] \in ToSet(present) /\ all[i] \notin ToSet(present)
      BY <1>5, <1>7, <1>8, <2>4
    <3> QED BY <3>1
  <2> QED BY <1>4, <1>5, <2>1, <2>2, <2>3, <2>4
<1>12. \A c \in context[p].recorded : \E i \in 1..(k + l) : all[i] = c
  <2> TAKE c \in context[p].recorded
  <2>1. CASE c \in ToSet(present)
    <3>1. PICK i \in 1..k : present[i] = c
      BY <1>5, <2>1
    <3>2. i \in 1..(k + l) /\ all[i] = c
      BY <1>4, <1>5, <1>7, <3>1
    <3> QED BY <3>2
  <2>2. CASE c \notin ToSet(present)
    <3>1. PICK i \in 1..l : list[i] = c
      BY <1>4, <2>2
    <3>2. i + k \in 1..(k + l) /\ all[i + k] = c
      <4> DEFINE j == i + k
      <4>1. j \in (k + 1)..(k + l) /\ j - k = i /\ j \in 1..(k + l)
        BY <1>4, <1>5
      <4> HIDE DEF j
      <4>2. all[j] = c
        BY <1>7, <3>1, <4>1
      <4> QED BY <4>1, <4>2 DEF j
    <3> QED BY <3>2
  <2> QED BY <2>1, <2>2
<1> DEFINE n == k + l
<1>13. n \in Nat /\ DOMAIN f = 1..n /\ \A i \in 1..n : f[i] = Finding(p, all[i], "live")
  BY <1>7
<1> HIDE DEF n, f
<1>14. \A i \in 1..n : f[i].candidate = all[i] /\ f[i].provider = p /\ f[i].mode = "live"
  BY <1>13 DEF Finding
<1>15. \A i \in 1..n : f[i].candidate \in Nat
  BY <1>10, <1>14 DEF n
<1>16. FindingsOK(p, "live", f)
  BY <1>11, <1>13, <1>14 DEF FindingsOK, n
<1>17. /\ FindingsOK(p, "live", ByCost(f))
       /\ \A i \in 1..n : \E m \in DOMAIN ByCost(f) : ByCost(f)[m] = f[i]
  BY <1>13, <1>15, <1>16, SortKeepsFindings
<1>18. ASSUME NEW c \in context[p].recorded PROVE <<p, c>> \in Explained(ByCost(f))
  <2>1. PICK i \in 1..n : f[i].candidate = c /\ f[i].provider = p
    BY <1>12, <1>14 DEF n
  <2>2. PICK m \in DOMAIN ByCost(f) : ByCost(f)[m] = f[i]
    BY <1>17, <2>1
  <2>3. f[i] \in ToSet(ByCost(f))
    BY <2>2 DEF ToSet
  <2> QED BY <2>1, <2>3 DEF Explained
<1>19. LiveFindings(p) = ByCost(f)
  BY DEF LiveFindings, f, all, list
<1> QED BY <1>17, <1>18, <1>19
-----------------------------------------------------------------------------
(* What is answered and reported. *)

\* An answer holds findings of its provider by one mode, and a live one is "ok".
AnswerOK(p) ==
  /\ answer[p].mode \in {"live", "stub"}
  /\ FindingsOK(p, answer[p].mode, answer[p].findings)
  /\ answer[p].mode = "live" => answer[p].status = "ok"

\* Nothing is reported before the report, and nothing answered or asked after it.
HInv ==
  /\ TInv
  /\ DOMAIN answer = Providers
  /\ \A p \in Providers : Distinct(context[p].toolset) /\ AnswerOK(p)
  /\ report = NoReport \/ stage = "reported"
  /\ OneFindingPerCandidate /\ ModeIsHonest

LEMMA NoReportOK ==
  ASSUME report = NoReport
  PROVE  OneFindingPerCandidate /\ ModeIsHonest
<1>1. report.mode = "none" /\ DOMAIN report.findings = {}
  BY DEF NoReport
<1> QED BY <1>1 DEF OneFindingPerCandidate, ModeIsHonest

LEMMA EmptyFindingsOK ==
  ASSUME NEW p, NEW mode
  PROVE  FindingsOK(p, mode, <<>>) /\ Distinct(<<>>)
BY DEF FindingsOK, Distinct

\* A step of p that leaves the answers and the lists of the others alone.
LEMMA HonestStep ==
  ASSUME HInv, TInv', stage = "investigating", stage' = stage, report' = report,
         NEW p \in Providers, DOMAIN answer' = Providers,
         \A q \in Providers \ {p} : answer'[q] = answer[q] /\ context'[q] = context[q],
         Distinct(context'[p].toolset), AnswerOK(p)'
  PROVE  HInv'
<1>1. report = NoReport /\ report' = NoReport
  BY DEF HInv
<1>2. OneFindingPerCandidate' /\ ModeIsHonest'
  <2>1. report'.mode = "none" /\ DOMAIN report'.findings = {}
    BY <1>1 DEF NoReport
  <2> QED BY <2>1 DEF OneFindingPerCandidate, ModeIsHonest
<1>3. ASSUME NEW q \in Providers PROVE Distinct(context'[q].toolset) /\ AnswerOK(q)'
  <2>1. CASE q = p
    BY <2>1
  <2>2. CASE q # p
    BY <2>2 DEF HInv, AnswerOK
  <2> QED BY <2>1, <2>2
<1> QED BY <1>1, <1>2, <1>3 DEF HInv

\* A step of p that answers nothing and records nothing.
LEMMA SilentStep ==
  ASSUME HInv, TInv', stage = "investigating", stage' = stage, report' = report,
         NEW p \in Providers, answer' = answer,
         \A q \in Providers \ {p} : context'[q] = context[q],
         context'[p].toolset \in {context[p].toolset, <<>>}
  PROVE  HInv'
<1>1. Distinct(context'[p].toolset)
  BY EmptyFindingsOK DEF HInv
<1>2. AnswerOK(p)' /\ DOMAIN answer' = Providers
  BY DEF HInv, AnswerOK
<1> QED BY <1>1, <1>2, HonestStep

LEMMA RespondHonest ==
  ASSUME HInv, TInv', stage = "investigating", stage' = stage, report' = report,
         NEW p \in Providers, NEW status, NEW mode \in {"live", "stub"}, NEW findings,
         Respond(p, Response(status, mode, findings)),
         FindingsOK(p, mode, findings), mode = "live" => status = "ok"
  PROVE  HInv'
<1>1. DOMAIN context = Providers /\ DOMAIN answer = Providers
  BY DEF HInv, TInv
<1>2. answer'[p] = Response(status, mode, findings) /\ context'[p] = NewContext
  BY <1>1 DEF Respond
<1>3. DOMAIN answer' = Providers
      /\ \A q \in Providers \ {p} : answer'[q] = answer[q] /\ context'[q] = context[q]
  BY <1>1 DEF Respond
<1>4. AnswerOK(p)'
  BY <1>2 DEF AnswerOK, Response
<1>5. Distinct(context'[p].toolset)
  BY <1>2, EmptyFindingsOK DEF NewContext
<1> QED BY <1>3, <1>4, <1>5, HonestStep

LEMMA FailedHonest ==
  ASSUME HInv, TInv', stage = "investigating", stage' = stage, report' = report,
         NEW p \in Providers, Respond(p, Failed)
  PROVE  HInv'
BY RespondHonest, EmptyFindingsOK DEF Failed

LEMMA FallBackHonest ==
  ASSUME HInv, TInv', stage = "investigating", stage' = stage, report' = report,
         NEW p \in Providers, FallBack(p)
  PROVE  HInv'
BY RespondHonest, PlaybooksOK DEF FallBack

LEMMA FailingHonest ==
  ASSUME HInv, TInv', stage = "investigating", stage' = stage, report' = report,
         NEW p \in Providers, NEW retryable \in BOOLEAN, AttemptFails(p, retryable)
  PROVE  HInv'
<1>1. CASE UNCHANGED <<context, answer>>
  BY <1>1, SilentStep
<1>2. CASE FallBack(p)
  BY <1>2, FallBackHonest
<1> QED BY <1>1, <1>2 DEF AttemptFails

LEMMA LaunchHonest ==
  ASSUME HInv, TInv', stage = "investigating", stage' = stage, report' = report,
         NEW p \in Providers, Launch(p)
  PROVE  HInv'
<1>1. DOMAIN context = Providers
  BY DEF HInv, TInv
<1>2. context'[p].toolset = <<>> /\ \A q \in Providers \ {p} : context'[q] = context[q]
  <2>1. context' = [context EXCEPT ![p].attempt = @ + 1, ![p].toolset = <<>>]
    BY DEF Launch
  <2>2. context[p] \in Contexts(p)
    BY DEF HInv, TInv, ContextOK
  <2>3. context'[p] = [context[p] EXCEPT !.attempt = @ + 1, !.toolset = <<>>]
    BY <1>1, <2>1
  <2> QED BY <1>1, <2>1, <2>2, <2>3 DEF Contexts
<1> QED BY <1>2, SilentStep DEF Launch

LEMMA RecordingHonest ==
  ASSUME HInv, TInv', stage = "investigating", stage' = stage, report' = report,
         NEW p \in Providers, NEW c \in Candidates[p], RecordFinding(p, c)
  PROVE  HInv'
<1> DEFINE present == context[p].toolset
           toolset == IF c \in ToSet(present) THEN present ELSE Append(present, c)
           recorded == context[p].recorded \cup {c}
<1>1. /\ DOMAIN context = Providers /\ DOMAIN answer = Providers
      /\ context[p] \in Contexts(p) /\ present \in Seq(Candidates[p])
      /\ Distinct(present) /\ AnswerOK(p)
  BY DEF HInv, TInv, ContextOK, Contexts
<1>2. Distinct(toolset)
  <2>1. CASE c \in ToSet(present)
    BY <1>1, <2>1
  <2>2. CASE c \notin ToSet(present)
    <3>1. /\ Len(present) \in Nat /\ DOMAIN present = 1..Len(present)
          /\ DOMAIN Append(present, c) = 1..(Len(present) + 1)
          /\ Append(present, c)[Len(present) + 1] = c
          /\ \A i \in 1..Len(present) : Append(present, c)[i] = present[i] /\ present[i] # c
      BY <1>1, <2>2 DEF ToSet
    <3>2. \A i, j \in 1..Len(present) : present[i] = present[j] => i = j
      BY <1>1, <3>1 DEF Distinct
    <3>3. ASSUME NEW i \in 1..(Len(present) + 1), NEW j \in 1..(Len(present) + 1),
                 Append(present, c)[i] = Append(present, c)[j]
          PROVE  i = j
      <4>1. i \in 1..Len(present) \/ i = Len(present) + 1
        BY <3>1
      <4>2. j \in 1..Len(present) \/ j = Len(present) + 1
        BY <3>1
      <4> QED BY <3>1, <3>2, <3>3, <4>1, <4>2
    <3> QED BY <2>2, <3>1, <3>3 DEF Distinct
  <2> QED BY <2>1, <2>2
<1>3. context' = [context EXCEPT ![p].toolset = toolset, ![p].recorded = recorded]
  BY DEF RecordFinding
<1> HIDE DEF toolset, recorded
<1>4. context'[p] = [context[p] EXCEPT !.toolset = toolset, !.recorded = recorded]
  BY <1>1, <1>3
<1>5. context'[p].toolset = toolset
  BY <1>1, <1>4 DEF Contexts
<1>6. \A q \in Providers \ {p} : context'[q] = context[q]
  BY <1>1, <1>3
<1>7. answer' = answer
  BY DEF RecordFinding
<1>8. AnswerOK(p)' /\ DOMAIN answer' = Providers
  BY <1>1, <1>7 DEF AnswerOK
<1>9. Distinct(context'[p].toolset)
  BY <1>2, <1>5
<1> QED BY <1>6, <1>7, <1>8, <1>9, HonestStep

LEMMA PassHonest ==
  ASSUME HInv, TInv', stage = "investigating", stage' = stage, report' = report,
         NEW p \in Providers, Pass(p)
  PROVE  HInv'
<1>1. DOMAIN context = Providers /\ context[p] \in Contexts(p)
  BY DEF HInv, TInv, ContextOK
<1>2. PICK window : context' = [context EXCEPT ![p].window = window]
  BY DEF Pass
<1>3. context'[p] = [context[p] EXCEPT !.window = window]
  BY <1>1, <1>2
<1>4. context'[p].toolset = context[p].toolset
      /\ \A q \in Providers \ {p} : context'[q] = context[q]
  BY <1>1, <1>2, <1>3 DEF Contexts
<1> QED BY <1>4, SilentStep DEF Pass

LEMMA AgentHonest ==
  ASSUME HInv, TInv', stage = "investigating", NEW p \in Providers, Agent(p)
  PROVE  HInv'
<1>1. CASE Connect(p) \/ ReadTool(p) \/ Ask(p) \/ TakePermit(p) \/ Reply(p)
  <2>1. context' = context /\ answer' = answer /\ stage' = stage /\ report' = report
    BY <1>1 DEF Connect, ReadTool, Ask, TakePermit, Reply
  <2> QED BY <2>1, SilentStep
<1>2. CASE \E c \in Candidates[p] : RecordFinding(p, c)
  <2>1. PICK c \in Candidates[p] : RecordFinding(p, c)
    BY <1>2
  <2>2. stage' = stage /\ report' = report
    BY <2>1 DEF RecordFinding
  <2> QED BY <2>1, <2>2, RecordingHonest
<1>3. CASE AgentEnds(p)
  <2>1. stage' = stage /\ report' = report
    BY <1>3 DEF AgentEnds
  <2>2. CASE AttemptFails(p, FALSE)
    BY <2>1, <2>2, FailingHonest
  <2>3. CASE Respond(p, Response("ok", "live", LiveFindings(p)))
    <3>1. FindingsOK(p, "live", LiveFindings(p))
      BY LiveFindingsOK DEF HInv
    <3> QED BY <2>1, <2>3, <3>1, RespondHonest
  <2> QED BY <1>3, <2>2, <2>3 DEF AgentEnds
<1> QED BY <1>1, <1>2, <1>3 DEF Agent

LEMMA SpecialistHonest ==
  ASSUME HInv, TInv', stage = "investigating", NEW p \in Providers,
         \/ Proceed(p) \/ ContextFails(p) \/ Raise(p) \/ BudgetExhausted(p)
         \/ ConnectionLost(p) \/ WorkerTimeout(p)
  PROVE  HInv'
<1>0. stage' = stage /\ report' = report
  BY DEF Proceed, ContextBuilt, Cut, Wake, Pass, ContextFails, Raise, BudgetExhausted,
         ConnectionLost, WorkerTimeout
<1>1. CASE ContextBuilt(p)
  BY <1>0, <1>1, LaunchHonest, RespondHonest, PlaybooksOK DEF ContextBuilt
<1>2. CASE Cut(p)
  BY <1>0, <1>2, FailingHonest DEF Cut
<1>3. CASE Wake(p)
  BY <1>0, <1>3, LaunchHonest, FallBackHonest DEF Wake
<1>4. CASE Pass(p)
  BY <1>0, <1>4, PassHonest
<1>5. CASE ContextFails(p)
  BY <1>0, <1>5, FailedHonest DEF ContextFails
<1>6. CASE Raise(p)
  BY <1>0, <1>6, FailingHonest DEF Raise
<1>7. CASE BudgetExhausted(p)
  BY <1>0, <1>7, FailingHonest DEF BudgetExhausted
<1>8. CASE ConnectionLost(p)
  <2>1. DOMAIN context = Providers /\ DOMAIN answer = Providers
    BY DEF HInv, TInv
  <2>2. answer'[p] = Failed /\ context'[p] = NewContext
    BY <1>8, <2>1 DEF ConnectionLost
  <2>3. DOMAIN answer' = Providers
        /\ \A q \in Providers \ {p} : answer'[q] = answer[q] /\ context'[q] = context[q]
    BY <1>8, <2>1 DEF ConnectionLost
  <2>4. AnswerOK(p)' /\ Distinct(context'[p].toolset)
    BY <2>2, EmptyFindingsOK DEF AnswerOK, Failed, Response, NewContext
  <2> QED BY <1>0, <2>3, <2>4, HonestStep
<1>9. CASE WorkerTimeout(p)
  BY <1>0, <1>9, FailedHonest DEF WorkerTimeout
<1> QED
  BY <1>1, <1>2, <1>3, <1>4, <1>5, <1>6, <1>7, <1>8, <1>9 DEF Proceed

\* The report takes findings from the answers, and says "live" if all of them are.
LEMMA ReportHonest ==
  ASSUME HInv, TInv', Report
  PROVE  HInv'
<1>1. PICK kept \in SUBSET (UNION {{p} \X DOMAIN answer[p].findings : p \in asked}) :
        report' = [mode |-> EffectiveMode,
                   findings |-> [x \in kept |-> answer[x[1]].findings[x[2]]]]
  BY DEF Report
<1>2. /\ stage' = "reported" /\ asked' = asked /\ answer' = answer /\ context' = context
      /\ asked \subseteq Providers
  BY DEF Report, HInv, TInv
<1>3. /\ report'.mode = EffectiveMode /\ DOMAIN report'.findings = kept
      /\ \A x \in kept : report'.findings[x] = answer[x[1]].findings[x[2]]
  BY <1>1
<1>4. \A x \in kept : /\ x = <<x[1], x[2]>> /\ x[1] \in asked
                      /\ x[2] \in DOMAIN answer[x[1]].findings
  <2> TAKE x \in kept
  <2>1. PICK p \in asked : x \in {p} \X DOMAIN answer[p].findings
    BY <1>1
  <2> QED BY <2>1
<1>5. \A p \in asked : AnswerOK(p)
  BY <1>2 DEF HInv
<1>6. OneFindingPerCandidate'
  <2> SUFFICES ASSUME NEW x \in kept, NEW y \in kept,
                      report'.findings[x].provider = report'.findings[y].provider,
                      report'.findings[x].candidate = report'.findings[y].candidate
               PROVE  x = y
    BY <1>3 DEF OneFindingPerCandidate
  <2> DEFINE p == x[1]
             q == y[1]
             i == x[2]
             j == y[2]
  <2>1. /\ x = <<p, i>> /\ y = <<q, j>> /\ p \in asked /\ q \in asked
        /\ i \in DOMAIN answer[p].findings /\ j \in DOMAIN answer[q].findings
        /\ report'.findings[x] = answer[p].findings[i]
        /\ report'.findings[y] = answer[q].findings[j]
    BY <1>3, <1>4
  <2> HIDE DEF p, q, i, j
  <2>2. p = q
    BY <1>5, <2>1 DEF AnswerOK, FindingsOK
  <2>3. i = j
    BY <1>5, <2>1, <2>2 DEF AnswerOK, FindingsOK
  <2> QED BY <2>1, <2>2, <2>3
<1>7. ModeIsHonest'
  <2> SUFFICES ASSUME EffectiveMode = "live"
               PROVE  /\ \A x \in kept : report'.findings[x].mode = "live"
                      /\ \A p \in asked : answer[p].status = "ok"
    BY <1>2, <1>3 DEF ModeIsHonest
  <2>1. \A p \in asked : answer[p].mode = "live"
    BY DEF EffectiveMode
  <2>2. \A p \in asked : answer[p].status = "ok"
    BY <1>5, <2>1 DEF AnswerOK
  <2>3. \A x \in kept : report'.findings[x].mode = "live"
    BY <1>3, <1>4, <1>5, <2>1 DEF AnswerOK, FindingsOK
  <2> QED BY <2>2, <2>3
<1>8. \A p \in Providers : Distinct(context'[p].toolset) /\ AnswerOK(p)'
  BY <1>2 DEF HInv, AnswerOK
<1> QED BY <1>2, <1>6, <1>7, <1>8 DEF HInv

LEMMA CoordinatorHonest ==
  ASSUME HInv, TInv', Load \/ Report \/ Cancel
  PROVE  HInv'
<1>1. CASE Load \/ Cancel
  <2>1. answer' = answer /\ report' = report /\ report = NoReport
    BY <1>1 DEF Load, Cancel, HInv
  <2>2. \A p \in Providers : context'[p].toolset \in {context[p].toolset, <<>>}
    BY <1>1 DEF Load, Cancel, NewContext
  <2>3. \A p \in Providers : Distinct(context'[p].toolset) /\ AnswerOK(p)'
    BY <2>1, <2>2, EmptyFindingsOK DEF HInv, AnswerOK
  <2>4. OneFindingPerCandidate' /\ ModeIsHonest'
    <3>1. report'.mode = "none" /\ DOMAIN report'.findings = {}
      BY <2>1 DEF NoReport
    <3> QED BY <3>1 DEF OneFindingPerCandidate, ModeIsHonest
  <2> QED BY <2>1, <2>3, <2>4 DEF HInv
<1>2. CASE Report
  BY <1>2, ReportHonest
<1> QED BY <1>1, <1>2

LEMMA StepKeepsHInv == HInv /\ [Next]_vars => HInv'
<1> SUFFICES ASSUME HInv, [Next]_vars PROVE HInv'
  OBVIOUS
<1>0. TInv'
  BY StepKeepsTInv DEF HInv
<1>1. CASE Load \/ Report \/ Cancel
  BY <1>0, <1>1, CoordinatorHonest
<1>2. ASSUME stage = "investigating", NEW p \in Providers, Agent(p) PROVE HInv'
  BY <1>0, <1>2, AgentHonest
<1>3. ASSUME stage = "investigating", NEW p \in Providers,
             \/ Proceed(p) \/ ContextFails(p) \/ Raise(p) \/ BudgetExhausted(p)
             \/ ConnectionLost(p) \/ WorkerTimeout(p)
      PROVE  HInv'
  BY <1>0, <1>3, SpecialistHonest
<1>4. CASE UNCHANGED vars
  BY <1>0, <1>4 DEF vars, HInv, AnswerOK, OneFindingPerCandidate, ModeIsHonest
<1> QED BY <1>1, <1>2, <1>3, <1>4 DEF Next

LEMMA InitHInv == Init => HInv
<1> SUFFICES ASSUME Init PROVE HInv
  OBVIOUS
<1>1. \A p \in Providers : Distinct(context[p].toolset) /\ AnswerOK(p)
  BY EmptyFindingsOK DEF Init, NewContext, NoAnswer, Response, AnswerOK
<1>2. OneFindingPerCandidate /\ ModeIsHonest
  BY NoReportOK DEF Init
<1> QED BY <1>1, <1>2, InitTInv DEF Init, HInv

LEMMA HonestInvariance == Spec => []HInv
<1> QED BY InitHInv, StepKeepsHInv, PTL DEF Spec

\* No candidate is explained twice in a report, and its cost counted twice, however
\* often agents and retries record it (native_tools.py record_finding, live_agent.py).
THEOREM CandidatesExplainedOnce == Spec => []OneFindingPerCandidate
<1> QED BY HonestInvariance, PTL DEF HInv

\* A report never claims a live run that was not one: findings of playbooks, or a provider
\* that failed or fell back, make it "stub" (determine_effective_agent_mode).
THEOREM ReportedModeIsHonest == Spec => []ModeIsHonest
<1> QED BY HonestInvariance, PTL DEF HInv

\* A step answers for p with what it had answered, with playbooks or nothing, or with what
\* is recorded.
LEMMA WhatIsAnswered ==
  ASSUME HInv, [Next]_vars, NEW p \in Providers
  PROVE  \/ answer'[p] = answer[p] \/ answer'[p].mode = "stub"
         \/ answer'[p] = Response("ok", "live", LiveFindings(p))
<1> DEFINE Goal(q) == \/ answer'[q] = answer[q] \/ answer'[q].mode = "stub"
                      \/ answer'[q] = Response("ok", "live", LiveFindings(q))
<1>0. DOMAIN answer = Providers
  BY DEF HInv
<1>1. ASSUME NEW q \in Providers, NEW response, Respond(q, response),
             response.mode = "stub" \/ response = Response("ok", "live", LiveFindings(q))
      PROVE  Goal(p)
  <2>1. answer' = [answer EXCEPT ![q] = response]
    BY <1>1 DEF Respond
  <2> QED BY <1>0, <1>1, <2>1
<1>2. ASSUME NEW q \in Providers, FallBack(q) \/ Respond(q, Failed) \/ Respond(q, Response("ok", "stub", Playbooks(q)))
      PROVE  Goal(p)
  BY <1>1, <1>2 DEF FallBack, Failed, Response
<1>3. ASSUME NEW q \in Providers, NEW retryable \in BOOLEAN, AttemptFails(q, retryable) PROVE Goal(p)
  BY <1>2, <1>3 DEF AttemptFails
<1>4. ASSUME NEW q \in Providers, Agent(q) PROVE Goal(p)
  <2>1. CASE Connect(q) \/ ReadTool(q) \/ Ask(q) \/ TakePermit(q) \/ Reply(q)
             \/ \E c \in Candidates[q] : RecordFinding(q, c)
    BY <2>1 DEF Connect, ReadTool, Ask, TakePermit, Reply, RecordFinding
  <2>2. CASE AgentEnds(q)
    BY <1>1, <1>3, <2>2 DEF AgentEnds
  <2> QED BY <1>4, <2>1, <2>2 DEF Agent
<1>5. ASSUME NEW q \in Providers,
             \/ Proceed(q) \/ ContextFails(q) \/ Raise(q) \/ BudgetExhausted(q)
             \/ ConnectionLost(q) \/ WorkerTimeout(q)
      PROVE  Goal(p)
  <2>1. CASE ContextBuilt(q) \/ ContextFails(q) \/ WorkerTimeout(q) \/ Wake(q)
    BY <1>2, <2>1 DEF ContextBuilt, ContextFails, WorkerTimeout, Wake, Launch
  <2>2. CASE Cut(q) \/ Raise(q) \/ BudgetExhausted(q)
    BY <1>3, <2>2 DEF Cut, Raise, BudgetExhausted
  <2>3. CASE Pass(q)
    BY <2>3 DEF Pass
  <2>4. CASE ConnectionLost(q)
    BY <1>0, <2>4 DEF ConnectionLost, Failed, Response
  <2> QED BY <1>5, <2>1, <2>2, <2>3, <2>4 DEF Proceed
<1>6. CASE Load \/ Report \/ Cancel \/ UNCHANGED vars
  BY <1>6 DEF Load, Report, Cancel, vars
<1>7. CASE \E q \in Providers :
             \/ Proceed(q) \/ Agent(q) \/ ContextFails(q) \/ Raise(q) \/ BudgetExhausted(q)
             \/ ConnectionLost(q) \/ WorkerTimeout(q)
  <2>1. PICK q \in Providers :
             \/ Proceed(q) \/ Agent(q) \/ ContextFails(q) \/ Raise(q) \/ BudgetExhausted(q)
             \/ ConnectionLost(q) \/ WorkerTimeout(q)
    BY <1>7
  <2>2. CASE Agent(q)
    BY <1>4, <2>2
  <2>3. CASE ~Agent(q)
    BY <1>5, <2>1, <2>3
  <2> QED BY <2>2, <2>3
<1>8. Next \/ UNCHANGED vars
  OBVIOUS
<1>9. Goal(p)
  BY <1>6, <1>7, <1>8 DEF Next
<1> QED BY <1>9

\* What an attempt recorded before it failed is in the answer of the one that ends well.
THEOREM RecordedFindingsSurvive == Spec => NothingRecordedIsLost
<1> DEFINE Kept == \A p \in Providers : answer[p] = NoAnswer /\ answer'[p].mode = "live" =>
                     \A c \in context[p].recorded : <<p, c>> \in Explained(answer'[p].findings)
<1>1. HInv /\ [Next]_vars => Kept
  <2> SUFFICES ASSUME HInv, [Next]_vars, NEW p \in Providers,
                      answer[p] = NoAnswer, answer'[p].mode = "live"
               PROVE  \A c \in context[p].recorded : <<p, c>> \in Explained(answer'[p].findings)
    OBVIOUS
  <2>1. answer'[p].mode # "stub" /\ answer'[p] # answer[p]
    BY DEF NoAnswer, Response
  <2>2. answer'[p] = Response("ok", "live", LiveFindings(p))
    BY <2>1, WhatIsAnswered
  <2>3. answer'[p].findings = LiveFindings(p)
    BY <2>2 DEF Response
  <2>4. TInv /\ Distinct(context[p].toolset)
    BY DEF HInv
  <2> QED BY <2>3, <2>4, LiveFindingsOK
<1>2. HInv /\ [Next]_vars => [Kept]_vars
  BY <1>1
<1> QED BY <1>2, HonestInvariance, PTL DEF Spec, NothingRecordedIsLost
=============================================================================
