----------------------------- MODULE JobHistory -----------------------------
(***************************************************************************)
(* Durable investigation history: SqlJobStore and InvestigationHistory     *)
(* (worker_core history.py) under the gateway's request and run code (api  *)
(* main.py), with a crash and a restart of the process.                    *)
(*                                                                         *)
(* Every change of a job is copied on the event loop and appended to a     *)
(* chain of write tasks; each task waits for the one before it and then    *)
(* runs in a thread: save(state), then save_event(event) if there is one.  *)
(* Creating an investigation prunes memory and database in another thread, *)
(* statement by statement, while other jobs go on writing.  Statements are *)
(* atomic (one connection, one lock, autocommit); nothing spans two.       *)
(*                                                                         *)
(* A failing statement never fails the job: _safely records it in          *)
(* degraded_reason and the write or the prune it belongs to is given up.   *)
(* A definition X_Y is X with the mistake Y in it (see GatewayJobs).       *)
(***************************************************************************)
EXTENDS Naturals, Sequences, FiniteSets

CONSTANTS
  Jobs,          \* investigation ids
  Keep,          \* history_keep: how many investigations a prune leaves
  MaxEvents,     \* bound: the orchestrator emits while seq[j] is below it
  MaxCrashes,    \* bound on the crashes of the gateway process
  MaxFailures    \* bound on the statements that fail

ASSUME BoundsNatural ==
  Keep \in Nat /\ MaxEvents \in Nat /\ MaxCrashes \in Nat /\ MaxFailures \in Nat

ASSUME JobsFinite == IsFiniteSet(Jobs)

VARIABLES
  status,     \* status[j]: the state of the job object the run works on
  seq,        \* seq[j]: the events of that job object
  born,       \* born[j]: created_at, 0 before the job is created
  held,       \* the ids in JobStore._jobs
  at,         \* at[j]: where the request and then the run of j is suspended
  ahead,      \* ahead[j]: the writes of the chain that j's flush still awaits
  deaf,       \* deaf[j]: the run works on a restored job, without listeners
  chain,      \* the write tasks not finished, oldest first
  saved,      \* the first of them has done its save
  todo,       \* todo[j]: the ids j's prune still has to delete
  row,        \* row[j]: the status in table investigations, or "none"
  events,     \* events[j]: the sequences in table investigation_events
  degraded,   \* degraded_reason is not None
  crashes,
  failures,
  dropped     \* history: the ids whose rows a prune has begun to delete

jobVars == <<status, seq, born, held, deaf>>
dbVars == <<row, events, dropped>>
chainVars == <<chain, saved>>
countVars == <<crashes, failures>>
vars == <<status, seq, born, held, at, ahead, deaf, chain, saved, todo, row,
          events, degraded, crashes, failures, dropped>>

Outcomes == {"completed", "failed"}
Statuses == {"none", "queued", "running"} \cup Outcomes
Points == {"idle", "flush_create", "prune_query", "prune_events", "prune_row",
           "flush_start", "found", "waiting", "executing", "flush_end",
           "returned", "lost", "dead"}
Writes == [job : Jobs, status : Statuses, event : Nat]
-----------------------------------------------------------------------------
Newest(S) ==
  {j \in S : Cardinality({k \in S : born[k] > born[j]}) < Keep}

\* One write: the state of j at this moment, and event e unless it is 0.
State(j, s, e) == [job |-> j, status |-> s, event |-> e]

\* _persist queues the writes, in the order the job was changed.  A restored job
\* has no listener.
Persist(j, writes) == chain' = IF deaf[j] THEN chain ELSE chain \o writes

Flush_Skipped(j, point, queue) ==
  /\ at' = [at EXCEPT ![j] = point]
  /\ ahead' = [ahead EXCEPT ![j] = 0]

\* j moves to a flush: it awaits the last write of the chain as it is now.
Flush(j, point, queue) ==
  /\ at' = [at EXCEPT ![j] = point]
  /\ ahead' = [ahead EXCEPT ![j] = Len(queue)]

Flushed(j, point) == at[j] = point /\ ahead[j] = 0
-----------------------------------------------------------------------------
Init ==
  /\ status = [j \in Jobs |-> "none"]
  /\ seq = [j \in Jobs |-> 0]
  /\ born = [j \in Jobs |-> 0]
  /\ held = {}
  /\ at = [j \in Jobs |-> "idle"]
  /\ ahead = [j \in Jobs |-> 0]
  /\ deaf = [j \in Jobs |-> FALSE]
  /\ chain = <<>>
  /\ saved = FALSE
  /\ todo = [j \in Jobs |-> {}]
  /\ row = [j \in Jobs |-> "none"]
  /\ events = [j \in Jobs |-> {}]
  /\ degraded = FALSE
  /\ crashes = 0
  /\ failures = 0
  /\ dropped = {}

\* SqlJobStore.create, then the flush in front of the prune.
Create(j) ==
  /\ at[j] = "idle"
  /\ status' = [status EXCEPT ![j] = "queued"]
  /\ born' = [born EXCEPT ![j] = Cardinality({k \in Jobs : born[k] > 0}) + 1]
  /\ held' = held \cup {j}
  /\ Persist(j, <<State(j, "queued", 0)>>)
  /\ Flush(j, "flush_create", chain')
  /\ UNCHANGED <<seq, deaf, saved, todo, dbVars, degraded, countVars>>

\* SqlJobStore.prune begins with the memory of the process.
PruneMemory(j) ==
  /\ Flushed(j, "flush_create")
  /\ held' = Newest(held)
  /\ at' = [at EXCEPT ![j] = "prune_query"]
  /\ UNCHANGED <<status, seq, born, deaf, ahead, chainVars, todo, dbVars,
                 degraded, countVars>>

\* InvestigationHistory.prune reads which investigations are beyond Keep.
PruneQuery(j) ==
  /\ at[j] = "prune_query"
  /\ LET rows == {k \in Jobs : row[k] # "none"}
         doomed == rows \ Newest(rows)
     IN /\ todo' = [todo EXCEPT ![j] = doomed]
        /\ IF doomed = {} THEN Flush(j, "flush_start", chain) /\ degraded' = FALSE
                          ELSE at' = [at EXCEPT ![j] = "prune_events"]
                               /\ UNCHANGED <<ahead, degraded>>
  /\ UNCHANGED <<jobVars, chainVars, dbVars, countVars>>

\* k is the doomed id the prune is at: it goes from the newest to the oldest.
NextDoomed(j, k) == k \in todo[j] /\ \A i \in todo[j] : born[i] <= born[k]

PruneEvents(j) ==
  /\ at[j] = "prune_events"
  /\ \E k \in Jobs :
       /\ NextDoomed(j, k)
       /\ events' = [events EXCEPT ![k] = {}]
       /\ dropped' = dropped \cup {k}
  /\ at' = [at EXCEPT ![j] = "prune_row"]
  /\ UNCHANGED <<jobVars, ahead, chainVars, todo, row, degraded, countVars>>

PruneRow(j) ==
  /\ at[j] = "prune_row"
  /\ \E k \in Jobs :
       /\ NextDoomed(j, k)
       /\ row' = [row EXCEPT ![k] = "none"]
       /\ todo' = [todo EXCEPT ![j] = @ \ {k}]
  /\ IF todo'[j] = {} THEN Flush(j, "flush_start", chain) /\ degraded' = FALSE
                      ELSE at' = [at EXCEPT ![j] = "prune_events"]
                           /\ UNCHANGED <<ahead, degraded>>
  /\ UNCHANGED <<jobVars, chainVars, events, dropped, countVars>>

PruneFails_Raises(j) ==
  /\ at[j] \in {"prune_query", "prune_events", "prune_row"}
  /\ failures < MaxFailures
  /\ failures' = failures + 1
  /\ degraded' = TRUE
  /\ todo' = [todo EXCEPT ![j] = {}]
  /\ at' = [at EXCEPT ![j] = "raised"]
  /\ UNCHANGED <<jobVars, ahead, chainVars, dbVars, crashes>>

\* A statement of the prune fails: the prune is given up, the request goes on.
PruneFails(j) ==
  /\ at[j] \in {"prune_query", "prune_events", "prune_row"}
  /\ failures < MaxFailures
  /\ failures' = failures + 1
  /\ degraded' = TRUE
  /\ todo' = [todo EXCEPT ![j] = {}]
  /\ Flush(j, "flush_start", chain)
  /\ UNCHANGED <<jobVars, chainVars, dbVars, crashes>>

\* _run_job looks the job up, in a thread: first in memory,
FindHeld(j) ==
  /\ Flushed(j, "flush_start")
  /\ j \in held
  /\ at' = [at EXCEPT ![j] = "found"]
  /\ UNCHANGED <<jobVars, ahead, chainVars, todo, dbVars, degraded, countVars>>

\* then in the database: a job pruned from memory only is restored from there,
\* with no listener.  (Reading its events may fail, which leaves it none.)
FindStored(j) ==
  /\ Flushed(j, "flush_start")
  /\ j \notin held
  /\ row[j] # "none"
  /\ deaf' = [deaf EXCEPT ![j] = TRUE]
  /\ at' = [at EXCEPT ![j] = "found"]
  /\ \/ degraded' = FALSE /\ UNCHANGED failures
     \/ failures < MaxFailures /\ failures' = failures + 1 /\ degraded' = TRUE
  /\ UNCHANGED <<status, seq, born, held, ahead, chainVars, todo, dbVars, crashes>>

\* In neither, or the database cannot be read: _run_job returns without a word.
FindNothing(j) ==
  /\ Flushed(j, "flush_start")
  /\ j \notin held
  /\ \/ row[j] = "none" /\ degraded' = FALSE /\ UNCHANGED failures
     \/ failures < MaxFailures /\ failures' = failures + 1 /\ degraded' = TRUE
  /\ at' = [at EXCEPT ![j] = "lost"]
  /\ UNCHANGED <<jobVars, ahead, chainVars, todo, dbVars, crashes>>

StartStub(j) ==
  /\ at[j] = "found"
  /\ status' = [status EXCEPT ![j] = "running"]
  /\ Persist(j, <<State(j, "running", 0)>>)
  /\ at' = [at EXCEPT ![j] = "executing"]
  /\ UNCHANGED <<seq, born, held, deaf, ahead, saved, todo, dbVars, degraded,
                 countVars>>

\* A live run says that it waits for capacity (see GatewayJobs),
StartLive(j) ==
  /\ at[j] = "found"
  /\ seq' = [seq EXCEPT ![j] = @ + 1]
  /\ Persist(j, <<State(j, "queued", seq[j] + 1)>>)
  /\ at' = [at EXCEPT ![j] = "waiting"]
  /\ UNCHANGED <<status, born, held, deaf, ahead, saved, todo, dbVars, degraded,
                 countVars>>

\* and that it got some.
BeginLive(j) ==
  /\ at[j] = "waiting"
  /\ status' = [status EXCEPT ![j] = "running"]
  /\ seq' = [seq EXCEPT ![j] = @ + 1]
  /\ Persist(j, <<State(j, "running", 0), State(j, "running", seq[j] + 1)>>)
  /\ at' = [at EXCEPT ![j] = "executing"]
  /\ UNCHANGED <<born, held, deaf, ahead, saved, todo, dbVars, degraded, countVars>>

Emit_NotNotified(j) ==
  /\ at[j] = "executing"
  /\ seq[j] < MaxEvents
  /\ seq' = [seq EXCEPT ![j] = @ + 1]
  /\ UNCHANGED <<status, born, held, at, ahead, deaf, chainVars, todo, dbVars,
                 degraded, countVars>>

Emit(j) ==
  /\ at[j] = "executing"
  /\ seq[j] < MaxEvents
  /\ seq' = [seq EXCEPT ![j] = @ + 1]
  /\ Persist(j, <<State(j, "running", seq[j] + 1)>>)
  /\ UNCHANGED <<status, born, held, at, ahead, deaf, saved, todo, dbVars,
                 degraded, countVars>>

\* The report arrives: the provider statuses, then finish, then the flush in the
\* finally of _run_job.
Complete(j) ==
  /\ at[j] = "executing"
  /\ status' = [status EXCEPT ![j] = "completed"]
  /\ Persist(j, <<State(j, "running", 0), State(j, "completed", 0)>>)
  /\ Flush(j, "flush_end", chain')
  /\ UNCHANGED <<seq, born, held, deaf, saved, todo, dbVars, degraded, countVars>>

\* The run raises, times out waiting for capacity or is cancelled: one last
\* event, then finish with the error and the flush.
Fail(j) ==
  /\ at[j] \in {"waiting", "executing"}
  /\ status' = [status EXCEPT ![j] = "failed"]
  /\ seq' = [seq EXCEPT ![j] = @ + 1]
  /\ Persist(j, <<State(j, status[j], seq[j] + 1), State(j, "failed", 0)>>)
  /\ Flush(j, "flush_end", chain')
  /\ UNCHANGED <<born, held, deaf, saved, todo, dbVars, degraded, countVars>>

Return(j) ==
  /\ Flushed(j, "flush_end")
  /\ at' = [at EXCEPT ![j] = "returned"]
  /\ UNCHANGED <<jobVars, ahead, chainVars, todo, dbVars, degraded, countVars>>
-----------------------------------------------------------------------------
(* The chain of write tasks. *)

\* The first task is finished; every flush that awaits it is one nearer.
WriteDone ==
  /\ chain' = Tail(chain)
  /\ saved' = FALSE
  /\ ahead' = [j \in Jobs |-> IF ahead[j] > 0 THEN ahead[j] - 1 ELSE 0]

Save_AnyOrder ==
  /\ chain # <<>>
  /\ ~saved
  /\ \E i \in DOMAIN chain :
       LET w == chain[i]
           others == SubSeq(chain, 1, i - 1) \o SubSeq(chain, i + 1, Len(chain))
       IN /\ row' = [row EXCEPT ![w.job] = w.status]
          /\ IF w.event = 0
             THEN chain' = others /\ saved' = FALSE /\ degraded' = FALSE
                  /\ ahead' = [j \in Jobs |-> IF ahead[j] > 0 THEN ahead[j] - 1 ELSE 0]
             ELSE chain' = <<w>> \o others /\ saved' = TRUE
                  /\ UNCHANGED <<ahead, degraded>>
  /\ UNCHANGED <<jobVars, at, todo, events, dropped, countVars>>

Save ==
  /\ chain # <<>>
  /\ ~saved
  /\ row' = [row EXCEPT ![Head(chain).job] = Head(chain).status]
  /\ IF Head(chain).event = 0
     THEN WriteDone /\ degraded' = FALSE
     ELSE saved' = TRUE /\ UNCHANGED <<chain, ahead, degraded>>
  /\ UNCHANGED <<jobVars, at, todo, events, dropped, countVars>>

SaveEvent ==
  /\ chain # <<>>
  /\ saved
  /\ events' = [events EXCEPT ![Head(chain).job] = @ \cup {Head(chain).event}]
  /\ WriteDone
  /\ degraded' = FALSE
  /\ UNCHANGED <<jobVars, at, todo, row, dropped, countVars>>

WriteFails ==
  /\ chain # <<>>
  /\ failures < MaxFailures
  /\ failures' = failures + 1
  /\ degraded' = TRUE
  /\ WriteDone
  /\ UNCHANGED <<jobVars, at, todo, dbVars, crashes>>

\* The process dies and a new one starts with an empty job store.
Crash ==
  /\ crashes < MaxCrashes
  /\ crashes' = crashes + 1
  /\ held' = {}
  /\ chain' = <<>>
  /\ saved' = FALSE
  /\ degraded' = FALSE
  /\ ahead' = [j \in Jobs |-> 0]
  /\ todo' = [j \in Jobs |-> {}]
  /\ at' = [j \in Jobs |-> IF at[j] \in {"idle", "returned", "lost"} THEN at[j]
                                                                   ELSE "dead"]
  /\ UNCHANGED <<status, seq, born, deaf, dbVars, failures>>
-----------------------------------------------------------------------------
Request(j) ==
  \/ PruneMemory(j) \/ PruneQuery(j) \/ PruneEvents(j) \/ PruneRow(j) \/ PruneFails(j)
  \/ FindHeld(j) \/ FindStored(j) \/ FindNothing(j)
  \/ StartStub(j) \/ StartLive(j) \/ BeginLive(j)
  \/ Complete(j) \/ Fail(j) \/ Return(j)

Write == Save \/ SaveEvent \/ WriteFails

Next ==
  \/ \E j \in Jobs : Create(j) \/ Emit(j) \/ Request(j)
  \/ Write
  \/ Crash

Spec == Init /\ [][Next]_vars

\* The event loop and the threads go on; a statement answers, if with an error.
FairSpec == Spec /\ WF_vars(Write) /\ \A j \in Jobs : WF_vars(Request(j))
-----------------------------------------------------------------------------
TypeOK ==
  /\ status \in [Jobs -> Statuses]
  /\ seq \in [Jobs -> Nat]
  /\ born \in [Jobs -> Nat]
  /\ held \in SUBSET Jobs
  /\ at \in [Jobs -> Points]
  /\ ahead \in [Jobs -> Nat]
  /\ deaf \in [Jobs -> BOOLEAN]
  /\ chain \in Seq(Writes)
  /\ saved \in BOOLEAN
  /\ todo \in [Jobs -> SUBSET Jobs]
  /\ row \in [Jobs -> Statuses]
  /\ events \in [Jobs -> SUBSET Nat]
  /\ degraded \in BOOLEAN
  /\ crashes \in Nat
  /\ failures \in Nat
  /\ dropped \in SUBSET Jobs

\* No statement failed and no prune touched j: the database should have it all.
Intact(j) == failures = 0 /\ j \notin dropped

\* Wherever the process stops, the progress log in the database has no hole: it
\* is the first events of the run.
StoredLogHasNoHole ==
  \A j \in Jobs : Intact(j) => events[j] = 1..Cardinality(events[j])

\* An investigation that the database shows as finished has its whole log there
\* (docs/usage.md: "State, reports, and the progress log then survive a
\* restart"), although state and events are written by separate statements.
FinishedRowHasWholeLog ==
  \A j \in Jobs : Intact(j) /\ row[j] \in Outcomes => events[j] = 1..seq[j]

\* flush_persistence: "Wait for queued durable writes before a request or job
\* completes": a run that returned is in the database with its outcome, unless it ran
\* on a restored job: that one has no listeners, so it queues no writes to wait for.
ReturnedMeansStored ==
  \A j \in Jobs :
    at[j] = "returned" /\ ~deaf[j] /\ Intact(j) => row[j] = status[j]

\* ADR 0019: "Persistence never fails an investigation".  Whatever statements
\* fail, a request that is under way in a process that lives returns.
EveryRequestReturns ==
  \A j \in Jobs : at[j] = "flush_create" ~> at[j] \in {"returned", "lost", "dead"}

\* history.py, SqlJobStore: what is not in memory any more "is rehydrated from
\* the database as a finished, replayable job".
RehydratedJobsAreFinished ==
  \A j \in Jobs : j \notin held /\ row[j] # "none" => row[j] \in Outcomes
=============================================================================
