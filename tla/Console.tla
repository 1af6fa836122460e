------------------------------- MODULE Console -------------------------------
(***************************************************************************)
(* The console page in one browser tab (web console.tsx): it submits a     *)
(* case, follows its event stream, and asks the gateway how the case ended *)
(* once the stream is over.  Every call is asynchronous and none is        *)
(* cancelled, and the rail may clear the page at any time, so answers come *)
(* back to a page that has moved on.                                       *)
(*                                                                         *)
(* The variables of EventStream are those of the case that was subscribed  *)
(* to last, read by one connection; the other cases go on out of sight.    *)
(* Cases are numbered in the order they are submitted.                     *)
(***************************************************************************)
EXTENDS EventStream

CONSTANT MaxCases    \* bound on the cases submitted

ASSUME MaxCasesNatural == MaxCases \in Nat
ASSUME TabOpen == Readers # {}

Cases == 1..MaxCases
NoCase == 0

VARIABLES
  page,      \* [case, status, events, report, source]: what the component's state says
  call,      \* call[c]: the POST of case c
  outcome,   \* outcome[c]: the status the gateway keeps of case c
  followed,  \* the case the stream variables are about
  read,      \* how many frames the browser has dispatched to onmessage
  settling,  \* settling[c]: what settle(c) has been told
  cooldown,  \* retryAfterAt is set
  limited,   \* the gateway would still refuse: its Retry-After is not over
  awaited,   \* the case the reader of the page waits for
  late,      \* something of another case has been written to the page
  broken     \* the followed stream was cut

consoleVars == <<page, call, outcome, followed, read, settling, cooldown, limited,
                 awaited, late, broken>>

Tab == CHOOSE r \in Readers : TRUE

Blank == [case |-> NoCase, status |-> "draft", events |-> <<>>, report |-> NoCase, source |-> FALSE]
Busy == page.status \in {"queued", "running"}
Final == {"completed", "failed"}

NotSettling == [at |-> "off", trail |-> 0, state |-> "unread"]

ConsoleInit ==
  /\ Init
  /\ page = Blank
  /\ call = [c \in Cases |-> "none"]
  /\ outcome = [c \in Cases |-> "none"]
  /\ followed = NoCase /\ read = 0
  /\ settling = [c \in Cases |-> NotSettling]
  /\ cooldown = FALSE /\ limited = FALSE
  /\ awaited = NoCase /\ late = FALSE /\ broken = FALSE

\* start(): not while busy or cooling down, and the brief is hidden behind a report.
Submit(c) ==
  /\ ~Busy /\ ~cooldown /\ page.report = NoCase
  /\ call[c] = "none" /\ \A b \in 1..(c - 1) : call[b] # "none"
  /\ page' = [page EXCEPT !.status = "queued", !.events = <<>>]
  /\ call' = [call EXCEPT ![c] = "posting"]
  /\ awaited' = c
  /\ UNCHANGED <<vars, outcome, followed, read, settling, cooldown, limited, late, broken>>

\* The gateway's answer: the page turns to case c, whatever it shows by now.  The case may
\* have run for a while, or ended, and another client, gone by now, may have read what there
\* is on the queue, the end marker too.
Answer(c) ==
  /\ call[c] = "posting"
  /\ call' = [call EXCEPT ![c] = "answered"]
  /\ cooldown' = FALSE
  /\ page' = [page EXCEPT !.case = c, !.source = TRUE]
  /\ followed' = c
  /\ \E status \in {"running"} \union Final :
       /\ outcome' = [outcome EXCEPT ![c] = status]
       /\ ended' = (status \in Final)
  /\ log' \in 0..MaxEvents /\ taken' \in {0, IF ended' THEN log' + 1 ELSE log'}
  /\ at' = [r \in Readers |-> "off"]
  /\ upto' = [r \in Readers |-> 0]
  /\ frames' = [r \in Readers |-> <<>>]
  /\ read' = 0 /\ broken' = FALSE
  /\ late' = (late \/ c # awaited)
  /\ UNCHANGED <<settling, limited, awaited>>

\* An error, a 429 with its Retry-After among them.
Refuse(c) ==
  /\ call[c] = "posting"
  /\ call' = [call EXCEPT ![c] = "refused"]
  /\ page' = [page EXCEPT !.status = "failed"]
  /\ \E tooMany \in BOOLEAN :
       cooldown' = (cooldown \/ tooMany) /\ limited' = (limited \/ tooMany)
  /\ late' = (late \/ c # awaited)
  /\ UNCHANGED <<vars, outcome, followed, read, settling, awaited, broken>>

\* The Retry-After has passed: the interval timer clears it, unless it was cleared before.
CooldownOver ==
  /\ limited
  /\ limited' = FALSE /\ cooldown' = FALSE
  /\ UNCHANGED <<vars, page, call, outcome, followed, read, settling, awaited, late, broken>>

\* The connection ends with its EventSource.
CloseSource == at' = [at EXCEPT ![Tab] = IF @ = "closed" THEN @ ELSE "off"]

Reset_SourceStaysOpen ==
  /\ page # Blank
  /\ page' = [Blank EXCEPT !.source = page.source]
  /\ awaited' = NoCase
  /\ UNCHANGED <<vars, call, outcome, followed, read, settling, cooldown, limited, late, broken>>

Reset_EndsCooldown ==
  /\ page # Blank
  /\ page' = Blank
  /\ awaited' = NoCase
  /\ cooldown' = FALSE
  /\ CloseSource
  /\ UNCHANGED <<log, ended, taken, upto, frames, call, outcome, followed, read, settling,
                 limited, late, broken>>

\* "Investigate" in the rail: resetInvestigation.
Reset ==
  /\ page # Blank
  /\ page' = Blank
  /\ awaited' = NoCase
  /\ CloseSource
  /\ UNCHANGED <<log, ended, taken, upto, frames, call, outcome, followed, read, settling,
                 cooldown, limited, late, broken>>
-----------------------------------------------------------------------------
\* The request of the EventSource reaches the gateway.
Open ==
  /\ page.source /\ at[Tab] = "off"
  /\ Connect(Tab)
  /\ UNCHANGED consoleVars

\* onmessage: a sequence number the page has is not added again.
Message ==
  /\ page.source
  /\ read < Len(frames[Tab])
  /\ read' = read + 1
  /\ LET n == frames[Tab][read']
         known == \E i \in DOMAIN page.events : page.events[i].n = n
     IN  page' = [page EXCEPT
                    !.status = IF @ = "completed" THEN @ ELSE "running",
                    !.events = IF known THEN @ ELSE Append(@, [case |-> followed, n |-> n])]
  /\ UNCHANGED <<vars, call, outcome, followed, settling, cooldown, limited, awaited, late, broken>>

Settle == settling' = [settling EXCEPT ![followed] = [NotSettling EXCEPT !.at = "asked"]]

StreamEnds_NotSettled ==
  /\ page.source /\ at[Tab] = "closed" /\ read = Len(frames[Tab])
  /\ page' = [page EXCEPT !.source = FALSE]
  /\ UNCHANGED <<vars, call, outcome, followed, read, settling, cooldown, limited, awaited,
                 late, broken>>

\* The close frame.
StreamEnds ==
  /\ page.source /\ at[Tab] = "closed" /\ read = Len(frames[Tab])
  /\ page' = [page EXCEPT !.source = FALSE]
  /\ Settle
  /\ UNCHANGED <<vars, call, outcome, followed, read, cooldown, limited, awaited, late, broken>>

\* onerror: there is no second connection.
StreamBreaks ==
  /\ page.source
  /\ page' = [page EXCEPT !.source = FALSE]
  /\ CloseSource
  /\ Settle
  /\ broken' = TRUE
  /\ UNCHANGED <<log, ended, taken, upto, frames, call, outcome, followed, read, cooldown,
                 limited, awaited, late>>
-----------------------------------------------------------------------------
\* The events of a case; of one out of sight, which has all but run by then, the bound.
TrailOf(c) == IF c = followed THEN log ELSE MaxEvents

Told(c, told) ==
  /\ settling[c].at = "asked"
  /\ settling' = [settling EXCEPT ![c] = told]
  /\ UNCHANGED <<vars, page, call, outcome, followed, read, cooldown, limited, awaited, late, broken>>

\* settle(c) asks for the trail and the state at once; a trail it does not get is empty.
TrailArrives(c) ==
  /\ settling[c].trail = 0
  /\ TrailOf(c) > 0
  /\ Told(c, [settling[c] EXCEPT !.trail = TrailOf(c)])
StateArrives(c) ==
  /\ settling[c].state = "unread"
  /\ Told(c, [settling[c] EXCEPT !.state = outcome[c]])

Settled_KeepsEvents(c) ==
  /\ settling[c].at = "asked" /\ settling[c].state # "unread"
  /\ LET told == settling[c]
     IN  page' = [page EXCEPT
                    !.status = told.state,
                    !.report = IF told.state = "completed" THEN c ELSE @]
  /\ settling' = [settling EXCEPT ![c].at = "done"]
  /\ late' = (late \/ c # awaited)
  /\ UNCHANGED <<vars, call, outcome, followed, read, cooldown, limited, awaited, broken>>

\* Both are there (or the trail failed): the page is told how c stands.  The
\* state of a completed case carries its report, so the second request for a report that
\* is missing (console.tsx:173-179), which would part its status from it, is never sent.
Settled(c) ==
  /\ settling[c].at = "asked" /\ settling[c].state # "unread"
  /\ LET told == settling[c]
     IN  page' = [page EXCEPT
                    !.events = IF told.trail = 0 THEN @
                               ELSE [n \in 1..told.trail |-> [case |-> c, n |-> n]],
                    !.status = told.state,
                    !.report = IF told.state = "completed" THEN c ELSE @]
  /\ settling' = [settling EXCEPT ![c].at = "done"]
  /\ late' = (late \/ c # awaited)
  /\ UNCHANGED <<vars, call, outcome, followed, read, cooldown, limited, awaited, broken>>

\* The state cannot be had.
SettleFails(c) ==
  /\ settling[c].at = "asked" /\ settling[c].state = "unread"
  /\ page' = [page EXCEPT !.status = "failed"]
  /\ settling' = [settling EXCEPT ![c].at = "done"]
  /\ late' = (late \/ c # awaited)
  /\ UNCHANGED <<vars, call, outcome, followed, read, cooldown, limited, awaited, broken>>
-----------------------------------------------------------------------------
\* The gateway runs the followed case and the ones out of sight.
RunEmits ==
  /\ followed # NoCase
  /\ Emit
  /\ UNCHANGED consoleVars

RunEnds(status) ==
  /\ followed # NoCase
  /\ Finish
  /\ outcome' = [outcome EXCEPT ![followed] = status]
  /\ UNCHANGED <<page, call, followed, read, settling, cooldown, limited, awaited, late, broken>>

EndsOutOfSight(c, status) ==
  /\ c # followed /\ outcome[c] = "running"
  /\ outcome' = [outcome EXCEPT ![c] = status]
  /\ UNCHANGED <<vars, page, call, followed, read, settling, cooldown, limited, awaited, late, broken>>

GatewayServes == Serve(Tab) /\ UNCHANGED consoleVars

Reconcile(c) == TrailArrives(c) \/ StateArrives(c) \/ Settled(c) \/ SettleFails(c)
-----------------------------------------------------------------------------
\* The page shows one case at a time ("a blank brief" after the rail clears it,
\* console.tsx:101): its events are those of the case named above them, in order and
\* without a hole, and its report is the report of that case, as long as nothing of a case
\* the reader has left arrives late.
ShowsOneCase ==
  ~late =>
    /\ \A i \in DOMAIN page.events : page.events[i] = [case |-> page.case, n |-> i]
    /\ page.report # NoCase => page.report = page.case /\ outcome[page.case] = "completed"

\* A case is called completed with its report and every event of its run, though the
\* stream stops early when the run ends during the replay; unless the stream was cut, or
\* the trail could not be had.
CompletedCaseIsWhole ==
  page.status = "completed" /\ ~late /\ ~broken =>
    /\ page.report = page.case
    /\ settling[page.case].trail # 0 => Len(page.events) = log

\* "A submission the UI itself disabled must never sneak through" (console.tsx:220): while
\* the gateway's Retry-After runs the page is cooling down, resets included.  A late answer
\* to an earlier submission does end the cooldown.
CooldownCoversRetryAfter == limited /\ ~late => cooldown

\* The page does not stay busy for ever.  It does when the stream of a running case is cut,
\* for settle asks once, and may when something late is written to it.
BusyEnds == Busy ~> ~Busy \/ late \/ broken
=============================================================================
