----------------------------- MODULE Investigation -----------------------------
(***************************************************************************)
(* One investigation behind the gateway: the coordinator of                *)
(* services/orchestrator_adk (orchestrator.py) and one specialist per      *)
(* provider (worker_core engine.py, native_tools.py, the live_agent.py of  *)
(* each provider), with the layers every model call passes: the shared     *)
(* call budget, the outbound permits, the retries and the window of        *)
(* max_agent_seconds they share.                                           *)
(*                                                                         *)
(* A specialist is in process, and then it shares its budget and permits   *)
(* with the others, or a service of its own (worker_mode = http) behind a  *)
(* connection that may fail and a timeout of its own. What the agent       *)
(* framework and the model do is a choice: read a tool, record a finding,  *)
(* ask the model, fail in a way that classify_live_agent_error retries or  *)
(* not, end, or hang. Findings are told apart by provider, candidate and   *)
(* the mode that made them; candidates are numbered by falling cost. What  *)
(* a specialist knows is dropped when it answers. A definition X_Y is X    *)
(* with the mistake Y in it (see GatewayJobs).                             *)
(***************************************************************************)
EXTENDS Naturals, SequencesExt

CONSTANTS
  Providers,   \* the providers of the request
  Remote,      \* those that are services of their own when worker_mode is http
  Candidates,  \* Candidates[p]: numbers of the material candidates of p, by falling cost
  Attempts,    \* ai_retry_attempts
  MaxCalls,    \* max_agent_calls
  MaxPermits,  \* concurrent calls of one model in one process
  Model        \* Model[p]: the model family the agent of p asks

ASSUME ProvidersFinite == IsFiniteSet(Providers) /\ Providers # {}
ASSUME RemoteProviders == Remote \subseteq Providers
ASSUME CandidatesNumbered ==
  /\ DOMAIN Candidates = Providers
  /\ \A p \in Providers :
       IsFiniteSet(Candidates[p]) /\ Candidates[p] \subseteq Nat \ {0}
ASSUME ModelOfProvider == DOMAIN Model = Providers
ASSUME LimitsPositive == {Attempts, MaxCalls, MaxPermits} \subseteq Nat \ {0}

VARIABLES
  live,      \* request.live_agents_requested
  remote,    \* the specialists that are services of their own
  stage,     \* how far the coordinator is
  asked,     \* the providers whose costs could be loaded
  at,        \* at[p]: where the specialist of p is
  context,   \* context[p]: its context and its attempt, see NewContext
  calls,     \* calls[Process(p)]: what is reserved of the budget of the process of p
  holders,   \* the specialists that hold a permit
  answer,    \* answer[p]: the response the coordinator has for p, or NoAnswer
  report     \* the report, or NoReport

request == <<live, remote>>
vars == <<live, remote, stage, asked, at, context, calls, holders, answer, report>>

\* Where an attempt can be: opening its sessions, between two calls of the
\* agent, waiting for a permit, waiting for the model.
Running == {"connecting", "deciding", "asking", "calling"}
Busy == Running \cup {"building", "sleeping"}
Settled == {"reported", "failed", "cancelled"}

Response(status, mode, findings) ==
  [status |-> status, mode |-> mode, findings |-> findings]

\* attempt: its number. window: "open"; "late" after overall_deadline of the
\* engine; "shut" after the deadline of run_with_retries, taken a moment later.
\* toolset: the candidates in NativeToolset.findings. recorded: those in
\* ctx.recorded_findings.
NewContext == [attempt |-> 0, window |-> "open", toolset |-> <<>>, recorded |-> {}]

NoAnswer == Response("none", "stub", <<>>)
NoReport == [mode |-> "none", findings |-> <<>>]
Failed == Response("failed", "stub", <<>>)

Finding(p, c, mode) == [provider |-> p, candidate |-> c, mode |-> mode]

\* findings.sort by actual_cost_increase: by the number of the candidate, and the sort is
\* stable.  Each finding gets the place that those in front of it and itself leave.
Place(findings, i) ==
  Cardinality({j \in DOMAIN findings :
                 \/ findings[j].candidate < findings[i].candidate
                 \/ findings[j].candidate = findings[i].candidate /\ j <= i})
ByCost(findings) ==
  [n \in DOMAIN findings |-> findings[CHOOSE i \in DOMAIN findings : Place(findings, i) = n]]

\* run_playbooks: every candidate of the task, in order; max_findings is their number.
Playbooks(p) ==
  ByCost([i \in 1..Cardinality(Candidates[p]) |->
            Finding(p, SetToSeq(Candidates[p])[i], "stub")])

LiveFindings_LastAttemptOnly(p) ==
  LET present == context[p].toolset
  IN ByCost([i \in DOMAIN present |-> Finding(p, present[i], "live")])

\* The findings of the last attempt, and what earlier ones recorded beside them.
LiveFindings(p) ==
  LET present == context[p].toolset
      all == present \o SetToSeq(context[p].recorded \ ToSet(present))
  IN ByCost([i \in DOMAIN all |-> Finding(p, all[i], "live")])

\* The specialists that share a process with p, and with it the budget and, if
\* they ask the same model, the permits.
Process(p) == IF p \in remote THEN {p} ELSE Providers \ remote

\* AgentCallBudget.reserve, for the budget bound to the process of p.
BudgetLeft(p) == calls[Process(p)] < MaxCalls

PermitFree(p) ==
  Cardinality({q \in holders \cap Process(p) : Model[q] = Model[p]}) < MaxPermits

Init ==
  /\ live \in BOOLEAN
  /\ remote \in {{}, Remote}
  /\ stage = "loading"
  /\ asked = {}
  /\ at = [p \in Providers |-> "idle"]
  /\ context = [p \in Providers |-> NewContext]
  /\ calls = [processes \in {Process(p) : p \in Providers} |-> 0]
  /\ holders = {}
  /\ answer = [p \in Providers |-> NoAnswer]
  /\ report = NoReport
-----------------------------------------------------------------------------
\* _load_costs, compare_periods, build_plan and the start of every specialist:
\* providers without data are skipped, and with none left the run fails.
Load ==
  /\ stage = "loading"
  /\ \E loaded \in SUBSET Providers :
       IF loaded = {}
       THEN stage' = "failed" /\ UNCHANGED <<asked, at>>
       ELSE /\ stage' = "investigating"
            /\ asked' = loaded
            /\ at' = [p \in Providers |-> IF p \in loaded THEN "building" ELSE "idle"]
  /\ UNCHANGED <<request, context, calls, holders, answer, report>>

\* The specialist of p is through.
Respond(p, response) ==
  /\ at' = [at EXCEPT ![p] = "done"]
  /\ answer' = [answer EXCEPT ![p] = response]
  /\ holders' = holders \ {p}
  /\ context' = [context EXCEPT ![p] = NewContext]

\* A fresh agent with a fresh toolset on the same context.
Launch(p) ==
  /\ at' = [at EXCEPT ![p] = "connecting"]
  /\ context' = [context EXCEPT ![p].attempt = @ + 1, ![p].toolset = <<>>]
  /\ UNCHANGED <<holders, answer>>

\* build_context has the data. A stub run answers at once.
ContextBuilt(p) ==
  /\ at[p] = "building"
  /\ IF live THEN Launch(p) ELSE Respond(p, Response("ok", "stub", Playbooks(p)))
  /\ UNCHANGED <<request, stage, asked, calls, report>>

\* build_context raises.
ContextFails(p) ==
  /\ at[p] = "building"
  /\ Respond(p, Failed)
  /\ UNCHANGED <<request, stage, asked, calls, report>>

FallBack_AsOk(p) == Respond(p, Response("ok", "live", Playbooks(p)))

\* The live run is given up: the playbooks answer instead.
FallBack(p) == Respond(p, Response("partial", "stub", Playbooks(p)))

Retries(p, retryable) ==
  retryable /\ context[p].attempt < Attempts /\ context[p].window # "shut"

AttemptFails_KeepingPermit(p, retryable) ==
  \/ /\ Retries(p, retryable)
     /\ at' = [at EXCEPT ![p] = "sleeping"]
     /\ UNCHANGED <<context, holders, answer>>
  \/ ~Retries(p, retryable) /\ FallBack(p)

\* An attempt has raised: run_with_retries sleeps before the next one or raises
\* too. Everything the attempt holds is released while it unwinds.
AttemptFails(p, retryable) ==
  \/ /\ Retries(p, retryable)
     /\ at' = [at EXCEPT ![p] = "sleeping"]
     /\ holders' = holders \ {p}
     /\ UNCHANGED <<context, answer>>
  \/ ~Retries(p, retryable) /\ FallBack(p)

\* The framework, a tool, the model or the limiter raises.
Raise(p) ==
  /\ at[p] \in Running
  /\ \E retryable \in BOOLEAN : AttemptFails(p, retryable)
  /\ UNCHANGED <<request, stage, asked, calls, report>>

\* reserve raises AgentCallLimitExceeded, which is never retried.
BudgetExhausted(p) ==
  /\ at[p] \in {"connecting", "deciding"}
  /\ ~BudgetLeft(p)
  /\ AttemptFails(p, FALSE)
  /\ UNCHANGED <<request, stage, asked, calls, report>>

Cut_Never(p) == FALSE

\* wait_for of the attempt: cancelled, and a TimeoutError is retryable.
Cut(p) ==
  /\ at[p] \in Running
  /\ context[p].window # "open"
  /\ AttemptFails(p, TRUE)
  /\ UNCHANGED <<request, stage, asked, calls, report>>

\* The delay is over. One that has used up the window raises the error it slept on.
Wake(p) ==
  /\ at[p] = "sleeping"
  /\ IF context[p].window = "shut" THEN FallBack(p) ELSE Launch(p)
  /\ UNCHANGED <<request, stage, asked, calls, report>>

\* Time passes for p: first the deadline of the engine, then that of the retries.
Pass(p) ==
  /\ at[p] \in Running \cup {"sleeping"}
  /\ context[p].window # "shut"
  /\ context' = [context EXCEPT ![p].window = IF @ = "open" THEN "late" ELSE "shut"]
  /\ UNCHANGED <<request, stage, asked, at, calls, holders, answer, report>>
-----------------------------------------------------------------------------
\* reserve_agent_call: one more of the budget.
Reserve(p) ==
  /\ BudgetLeft(p)
  /\ calls' = [calls EXCEPT ![Process(p)] = @ + 1]

\* The sessions are open and the agent runs.
Connect(p) ==
  /\ at[p] = "connecting"
  /\ Reserve(p)
  /\ at' = [at EXCEPT ![p] = "deciding"]
  /\ UNCHANGED <<request, stage, asked, context, holders, answer, report>>

\* A tool that only reads, or a finding that is refused.
ReadTool(p) ==
  /\ at[p] = "deciding"
  /\ Reserve(p)
  /\ UNCHANGED <<request, stage, asked, at, context, holders, answer, report>>

RecordFinding_Again(p, c) ==
  /\ at[p] = "deciding"
  /\ Reserve(p)
  /\ context' = [context EXCEPT ![p].toolset = Append(@, c), ![p].recorded = @ \cup {c}]
  /\ UNCHANGED <<request, stage, asked, at, holders, answer, report>>

\* record_finding for a candidate: what an earlier attempt recorded for it is
\* taken over, and a second call of this one changes nothing.
RecordFinding(p, c) ==
  /\ at[p] = "deciding"
  /\ Reserve(p)
  /\ context' = [context EXCEPT
       ![p].toolset = IF c \in ToSet(@) THEN @ ELSE Append(@, c),
       ![p].recorded = @ \cup {c}]
  /\ UNCHANGED <<request, stage, asked, at, holders, answer, report>>

\* The agent turns to the model; the governor has it wait for a permit.
Ask(p) ==
  /\ at[p] = "deciding"
  /\ at' = [at EXCEPT ![p] = "asking"]
  /\ UNCHANGED <<request, stage, asked, context, calls, holders, answer, report>>

TakePermit(p) ==
  /\ at[p] = "asking"
  /\ PermitFree(p)
  /\ at' = [at EXCEPT ![p] = "calling"]
  /\ holders' = holders \cup {p}
  /\ UNCHANGED <<request, stage, asked, context, calls, answer, report>>

\* The model answers.
Reply(p) ==
  /\ at[p] = "calling"
  /\ at' = [at EXCEPT ![p] = "deciding"]
  /\ holders' = holders \ {p}
  /\ UNCHANGED <<request, stage, asked, context, calls, answer, report>>

\* The agent ends: with findings, or the attempt raises LiveAgentUnavailableError.
AgentEnds(p) ==
  /\ at[p] = "deciding"
  /\ IF context[p].toolset = <<>>
     THEN AttemptFails(p, FALSE)
     ELSE Respond(p, Response("ok", "live", LiveFindings(p)))
  /\ UNCHANGED <<request, stage, asked, calls, report>>
-----------------------------------------------------------------------------
\* HttpWorkerClient: the connection breaks. The service does not notice, and
\* shares nothing with the others; it is not followed any further.
ConnectionLost(p) ==
  /\ p \in remote
  /\ at[p] \in Busy
  /\ at' = [at EXCEPT ![p] = "lost"]
  /\ answer' = [answer EXCEPT ![p] = Failed]
  /\ holders' = holders \ {p}
  /\ context' = [context EXCEPT ![p] = NewContext]
  /\ UNCHANGED <<request, stage, asked, calls, report>>

\* worker_timeout_seconds, in the service and in its client: the run of the
\* specialist is cancelled and the answer is 504. It is a setting of its own, by
\* default half of max_agent_seconds.
WorkerTimeout(p) ==
  /\ p \in remote
  /\ at[p] \in Busy
  /\ Respond(p, Failed)
  /\ UNCHANGED <<request, stage, asked, calls, report>>

\* determine_effective_agent_mode over the providers that were not skipped.
EffectiveMode ==
  IF live /\ \A p \in asked : answer[p].mode = "live" THEN "live" ELSE "stub"

\* Everyone has answered: validate_findings drops what evidence or rules do not
\* support, and the rest is published, each told by whose it is and its place there. The
\* rank within the report is left out.
Report ==
  /\ stage = "investigating"
  /\ \A p \in asked : answer[p] # NoAnswer
  /\ \E kept \in SUBSET (UNION {{p} \X DOMAIN answer[p].findings : p \in asked}) :
       report' = [mode |-> EffectiveMode,
                  findings |-> [x \in kept |-> answer[x[1]].findings[x[2]]]]
  /\ stage' = "reported"
  /\ UNCHANGED <<request, asked, at, context, calls, holders, answer>>

\* The gateway cancels the run: so are the specialists in its process, which
\* release what they hold. A service goes on; it is not followed any further.
Cancel ==
  /\ stage \in {"loading", "investigating"}
  /\ stage' = "cancelled"
  /\ at' = [p \in Providers |-> IF at[p] \in Busy
                                THEN IF p \in remote THEN "lost" ELSE "done" ELSE at[p]]
  /\ holders' = {}
  /\ context' = [p \in Providers |-> NewContext]
  /\ UNCHANGED <<request, asked, calls, answer, report>>

\* What a specialist does when nothing holds it up.
Proceed(p) == ContextBuilt(p) \/ Cut(p) \/ Wake(p) \/ Pass(p)

Agent(p) ==
  \/ Connect(p) \/ ReadTool(p) \/ Ask(p) \/ TakePermit(p) \/ Reply(p) \/ AgentEnds(p)
  \/ \E c \in Candidates[p] : RecordFinding(p, c)

Next ==
  \/ Load \/ Report \/ Cancel
  \/ stage = "investigating" /\ \E p \in Providers :
       \/ Proceed(p) \/ Agent(p)
       \/ ContextFails(p) \/ Raise(p) \/ BudgetExhausted(p)
       \/ ConnectionLost(p) \/ WorkerTimeout(p)

Spec == Init /\ [][Next]_vars

(* The coordinator and the event loop go on, timers fire, and data loads or *)
(* fails to load. Agents, models and connections may hang: no fairness.     *)
FairSpec ==
  /\ Spec
  /\ WF_vars(Load) /\ WF_vars(Report)
  /\ \A p \in Providers :
       /\ WF_vars(ContextBuilt(p) \/ ContextFails(p))
       /\ WF_vars(Cut(p)) /\ WF_vars(Wake(p)) /\ WF_vars(Pass(p))
-----------------------------------------------------------------------------
Explained(findings) == {<<f.provider, f.candidate>> : f \in ToSet(findings)}

\* Every variable is of its type; what a process has reserved is within its budget.
TypeOK ==
  /\ live \in BOOLEAN /\ remote \subseteq Providers
  /\ stage \in Settled \cup {"loading", "investigating"}
  /\ asked \subseteq Providers
  /\ at \in [Providers -> Busy \cup {"idle", "done", "lost"}]
  /\ \A p \in Providers :
       /\ context[p].attempt \in 0..Attempts
       /\ context[p].window \in {"open", "late", "shut"}
       /\ ToSet(context[p].toolset) \subseteq context[p].recorded
       /\ context[p].recorded \subseteq Candidates[p]
  /\ calls \in [{Process(p) : p \in Providers} -> 0..MaxCalls]
  /\ holders \subseteq Providers

\* A permit is held during a model call and at no other time, whatever ends the
\* call: a timeout, a cancellation, an error (governor.py "Cancellation-safe").
PermitsReturned == \A p \in holders : at[p] = "calling"

\* context.py recorded_findings: what an attempt recorded before it failed is
\* not lost when a later attempt ends without it.
NothingRecordedIsLost ==
  [][\A p \in Providers : answer[p] = NoAnswer /\ answer'[p].mode = "live" =>
       \A c \in context[p].recorded : <<p, c>> \in Explained(answer'[p].findings)]_vars

\* No candidate is explained, and its cost counted, twice in one report, however
\* often an agent or a retry records it (native_tools.py record_finding).
OneFindingPerCandidate ==
  \A i, j \in DOMAIN report.findings :
    /\ report.findings[i].provider = report.findings[j].provider
    /\ report.findings[i].candidate = report.findings[j].candidate
    => i = j

\* A report that says "live" has findings of live agents only, and an answer of
\* each provider that was asked (ADR 0008: "It must not claim a successful live run").
ModeIsHonest ==
  report.mode = "live" =>
    /\ \A i \in DOMAIN report.findings : report.findings[i].mode = "live"
    /\ \A p \in asked : answer[p].status = "ok"

\* Every investigation is reported or fails, though agents, models, permits and
\* connections may hang.
EveryInvestigationSettles == <>(stage \in Settled)

=============================================================================
