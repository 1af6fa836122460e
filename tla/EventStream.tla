----------------------------- MODULE EventStream -----------------------------
(***************************************************************************)
(* The progress events of one investigation and the connections that read  *)
(* them: InvestigationJob.emit, finish and stream (worker_core jobs.py),   *)
(* and the event_source generator of GET .../events (api main.py).         *)
(*                                                                         *)
(* A job keeps its events twice: in the list job.events, which a stream    *)
(* replays when it opens, and in one asyncio.Queue, which every stream     *)
(* reads after its replay.  Events are named by their sequence number      *)
(* 1, 2, ...  What is put on the queue comes out in the order it was put,  *)
(* so the queue is the pair of how much was put (log events, then the None *)
(* marker once the job has ended) and how much was taken.  A definition    *)
(* X_Y is X with the mistake Y in it (see GatewayJobs).                    *)
(***************************************************************************)
EXTENDS Naturals, Sequences

CONSTANTS
  Readers,     \* connections to GET .../events
  MaxEvents    \* bound on the number of events the run emits

ASSUME MaxEventsNatural == MaxEvents \in Nat

VARIABLES
  log,       \* len(job.events)
  ended,     \* job.state.status is "completed" or "failed"
  taken,     \* how many entries streams have taken from job._queue
  at,        \* at[r]: where the generator of connection r is
  upto,      \* upto[r]: the length of the copy of job.events r replays
  frames     \* frames[r]: the data frames sent on connection r, by sequence

vars == <<log, ended, taken, at, upto, frames>>

Points == {"off", "replay", "follow", "closed"}

Init ==
  /\ log = 0
  /\ ended = FALSE
  /\ taken = 0
  /\ at = [r \in Readers |-> "off"]
  /\ upto = [r \in Readers |-> 0]
  /\ frames = [r \in Readers |-> <<>>]

\* job.emit: the event goes to the list and to the queue.
Emit ==
  /\ ~ended
  /\ log < MaxEvents
  /\ log' = log + 1
  /\ UNCHANGED <<ended, taken, at, upto, frames>>

\* job.finish: the status becomes final and None goes to the queue.
Finish ==
  /\ ~ended
  /\ ended' = TRUE
  /\ UNCHANGED <<log, taken, at, upto, frames>>

AfterReplay_AlwaysFollow == "follow"

\* Where a generator with nothing left to replay goes: it is done if the job is
\* final by now, else it reads the queue.
AfterReplay == IF ended THEN "closed" ELSE "follow"

\* stream() starts: it copies the events there are.
Connect(r) ==
  /\ at[r] \in {"off", "closed"}
  /\ at' = [at EXCEPT ![r] = IF log > 0 THEN "replay" ELSE AfterReplay]
  /\ upto' = [upto EXCEPT ![r] = log]
  /\ frames' = [frames EXCEPT ![r] = <<>>]
  /\ UNCHANGED <<log, ended, taken>>

Send(r, n) == frames' = [frames EXCEPT ![r] = Append(@, n)]

\* One event of the copy is sent; the job goes on while the client reads.
Replay(r) ==
  /\ at[r] = "replay"
  /\ Len(frames[r]) < upto[r]
  /\ Send(r, Len(frames[r]) + 1)
  /\ UNCHANGED <<log, ended, taken, at, upto>>

\* The last copied event is sent and the generator is resumed.
ReplayDone(r) ==
  /\ at[r] = "replay"
  /\ Len(frames[r]) = upto[r]
  /\ at' = [at EXCEPT ![r] = AfterReplay]
  /\ UNCHANGED <<log, ended, taken, upto, frames>>

TakeEvent(r) ==
  /\ at[r] = "follow"
  /\ taken < log
  /\ taken' = taken + 1
  /\ Send(r, taken + 1)
  /\ UNCHANGED <<log, ended, at, upto>>

\* The None marker: the generator returns and the close frame is sent.
TakeEnd(r) ==
  /\ at[r] = "follow"
  /\ ended
  /\ taken = log
  /\ taken' = taken + 1
  /\ at' = [at EXCEPT ![r] = "closed"]
  /\ UNCHANGED <<log, ended, upto, frames>>

\* The client goes away and the generator is closed where it is.
Disconnect(r) ==
  /\ at[r] \in {"replay", "follow"}
  /\ at' = [at EXCEPT ![r] = "off"]
  /\ UNCHANGED <<log, ended, taken, upto, frames>>

Serve(r) == Replay(r) \/ ReplayDone(r) \/ TakeEvent(r) \/ TakeEnd(r)

Next ==
  \/ Emit
  \/ Finish
  \/ \E r \in Readers : Connect(r) \/ Serve(r) \/ Disconnect(r)

Spec == Init /\ [][Next]_vars

(* The investigation ends (GatewayJobs!EveryRunEnds) and the event loop     *)
(* serves each connection; clients come and go as they like.                *)
FairSpec == Spec /\ WF_vars(Finish) /\ \A r \in Readers : WF_vars(Serve(r))
-----------------------------------------------------------------------------
\* docs/adr/0001-streaming-transport.md: the response "ends with an event: close
\* frame".  So it does as long as one connection reads the job at a time: the
\* only None marker ends one stream, and a second one waits on.
EveryStreamCloses ==
  \A r \in Readers : at[r] \in {"replay", "follow"} ~> at[r] \in {"closed", "off"}
=============================================================================
