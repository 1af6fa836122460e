------------------------------- MODULE WebPage -------------------------------
(***************************************************************************)
(* The console and its upload panel in one page: the panel is disabled     *)
(* while a case is busy and hidden behind a report, and what it seals or   *)
(* deletes becomes the brief that is submitted.                            *)
(***************************************************************************)
EXTENDS Console, UploadPanel

CONSTANT Sessions    \* bounds of what a person does: [cases, events, uploads]

ASSUME UploadsInBounds == \A s \in Sessions : s.uploads \in 0..MaxUploads

VARIABLES
  session,     \* the bounds of this behaviour
  submitted    \* submitted[c]: the dataset case c was submitted over

pageVars == <<vars, consoleVars, panelVars, session, submitted>>

PageInit ==
  /\ ConsoleInit /\ PanelInit
  /\ session \in Sessions
  /\ submitted = [c \in Cases |-> NoDataset]

\* Files are chosen on the upload tab, where the brief is hidden until the data is sealed;
\* the demo tab is in front otherwise.
BriefShown == brief # NoDataset \/ (panel.dataset = NoDataset /\ ~panel.creating)

SubmitBrief(c) ==
  /\ ~late
  /\ c <= session.cases
  /\ BriefShown
  /\ Submit(c)
  /\ submitted' = [submitted EXCEPT ![c] = brief]
  /\ UNCHANGED <<panelVars, session>>

\* The gateway accepts a case over the demo or a sealed dataset it still has.
Investigable(c) == submitted[c] # NoDataset => server[submitted[c]].status = "sealed"

AtGateway(Step) ==
  /\ Step
  /\ log' <= session.events
  /\ UNCHANGED <<panelVars, session, submitted>>

\* Nothing is claimed of a page once something late was written to it, nor of a panel once
\* an answer for a dataset it had given up was: a behaviour is followed up to there, and to
\* its end when nothing is late.
InConsole(Step) == ~late /\ AtGateway(Step)

Answered(c) == (Investigable(c) /\ Answer(c)) \/ Refuse(c)

\* The panel is off while a case is busy, and gone behind the report of a demo case.
PanelShown == ~Busy /\ (page.report # NoCase => submitted[page.report] # NoDataset)

InPanel(Step) ==
  /\ ~late /\ ~strayed
  /\ Step
  /\ UNCHANGED <<vars, consoleVars, session, submitted>>

PanelUsed ==
  /\ PanelShown
  /\ \/ \E u \in 1..session.uploads, s \in Slots : PickFile(u, s)
     \/ Seal \/ Discard

PanelAnswered ==
  \/ \E d \in Datasets : Created(d)
  \/ CreateFails
  \/ \E u \in Uploads : Store(u) \/ Stored(u)
  \/ SealReachesGateway \/ Sealed \/ SealFails
  \/ \E d \in Datasets :
       DeleteReachesGateway(d) \/ \E failed \in BOOLEAN : Discarded(d, failed)

PageNext ==
  \/ \E c \in Cases :
       SubmitBrief(c) \/ InConsole(Answered(c)) \/ InConsole(Reconcile(c))
  \/ InConsole(CooldownOver) \/ InConsole(Reset)
  \/ InConsole(Open) \/ InConsole(Message) \/ InConsole(StreamEnds) \/ InConsole(StreamBreaks)
  \/ AtGateway(RunEmits) \/ AtGateway(GatewayServes)
  \/ \E status \in Final :
       AtGateway(RunEnds(status)) \/ \E c \in Cases : AtGateway(EndsOutOfSight(c, status))
  \/ InPanel(PanelUsed) \/ InPanel(PanelAnswered)

(* Calls are answered or fail, a run ends, the gateway serves the stream    *)
(* and the browser hands its frames on; what a person does is not promised. *)
PageSpec ==
  /\ PageInit /\ [][PageNext]_pageVars
  /\ WF_pageVars(\E c \in Cases : InConsole(Answered(c)))
  /\ WF_pageVars(\E c \in Cases : InConsole(StateArrives(c)))
  /\ WF_pageVars(\E c \in Cases : InConsole(Settled(c) \/ SettleFails(c)))
  /\ WF_pageVars(\E status \in Final : AtGateway(RunEnds(status)))
  /\ WF_pageVars(AtGateway(GatewayServes))
  /\ WF_pageVars(InConsole(Open))
  /\ WF_pageVars(InConsole(Message))
  /\ WF_pageVars(InConsole(StreamEnds) \/ InConsole(StreamBreaks))
-----------------------------------------------------------------------------
\* The brief names a dataset only while the panel shows it sealed, and the gateway has it
\* sealed unless it is being deleted.
BriefIsOverSealedData ==
  brief # NoDataset =>
    /\ panel.sealed = brief /\ panel.dataset = brief
    /\ ~BeingDeleted(brief) => server[brief].status = "sealed"

\* The panel and the gateway's store agree as long as no answer was for a dataset the panel
\* had given up: what is called accepted can be sealed, the files share one dataset, and a
\* case is not submitted over a dataset whose deletion was reported (data-source.tsx:146).
PanelMatchesStore ==
  ~strayed => AcceptedIsStored /\ NoUnknownDataset /\ BriefIsOverSealedData
=============================================================================
