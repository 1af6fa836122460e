----------------------------- MODULE CostPipeline -----------------------------
(***************************************************************************)
(* One report from where its data comes from to what it says: Analysis on  *)
(* a fixture, on the files of a sealed dataset (UploadParsing) or on the   *)
(* operator's own bill (LiveCosts).  The orchestrator reads the costs it   *)
(* compares, the worker later reads what it explains them with, and a live *)
(* tool server asks for costs when it likes.                               *)
(***************************************************************************)
EXTENDS Analysis, LiveCosts

CONSTANTS
  Inputs,              \* the data a fixture investigation starts from
  Requests(_),         \* inputs without data, by origin
  Uploads,             \* [cost, audit]: the files a client has
  Ledgers,             \* [format, rows, known, detailed]: what a provider comes to know
  FirstToday,          \* the day a live investigation starts
  PlaybooksOf(_)       \* the playbooks of a provider

ASSUME CallersAssumption == {"orchestrator", "worker"} \subseteq Callers

-----------------------------------------------------------------------------
\* A DateRange, the charges and rules a comparison and its reader work with.
IsPeriod(p) == p.start \in Int /\ p.end \in Int /\ p.start <= p.end
IsRecord(r) == r.service # None /\ r.cost \in Int /\ r.quantity \in Int /\ r.day \in Int
\* A record has no principal before its cost is split.
IsUnsplit(r) ==
  /\ {"service", "region", "resource", "owner", "day", "actor", "cost", "quantity"} \subseteq DOMAIN r
  /\ r = [f \in DOMAIN r |-> r[f]] /\ r.actor = None
IsBill(records) ==
  IsList(records) /\ \A i \in 1..Len(records) : IsRecord(records[i]) /\ IsUnsplit(records[i])
RulesDated(rules) == IsList(rules) /\ \A i \in 1..Len(rules) : rules[i].from \in Int \union {None}

InputFields == {"records", "accounts", "events", "current", "baseline", "config", "specs", "bundle",
                "rules", "today", "available"}

IsBundle(b) == IsList(b.series) /\ IsList(b.events) /\ b.recommendations \in Nat
AreSpecs(specs) ==
  IsList(specs) /\ \A i \in 1..Len(specs) : specs[i].priority \in Nat /\ specs[i].ceiling \in Thousandths

IsInput(i) ==
  /\ DOMAIN i = InputFields
  /\ IsPeriod(i.current) /\ IsPeriod(i.baseline)
  /\ IsBill(i.records) /\ RulesDated(i.rules) /\ AreSpecs(i.specs)
  /\ i.bundle # None => IsBundle(i.bundle)
  /\ i.config.maxCandidates \in Nat /\ {i.config.cent, i.config.dollar} \subseteq Nat \ {0}

\* The rows of a file or a ledger have whole figures, or none, and names that are listed.
RowFields == {"service", "product", "resource", "owner", "account", "currency", "kind", "region", "sku",
              "day", "hour", "ends", "cost", "amortized", "credits", "quantity"}
IsRow(row) ==
  /\ DOMAIN row = RowFields /\ row.day \in Int
  /\ {row.cost, row.amortized, row.credits, row.quantity} \subseteq Int \union {None}
IsLedger(rows) == IsList(rows) /\ \A i \in 1..Len(rows) : IsRow(rows[i])
Listed == {Alphabet[i] : i \in DOMAIN Alphabet}
NamesListed(row) == {row.service, row.product, row.resource} \ {None} \subseteq Listed

ASSUME NoneAssumption ==
  /\ None \notin Int \union {"rules", "agent", "none", "unknown", "unknown-region", "untagged", "unattributed"}
  /\ None \notin [start : Int, end : Int]
ASSUME InputsAssumption ==
  \A i \in Inputs \union Requests("upload") \union Requests("live") : IsInput(i)
ASSUME UploadsAssumption ==
  /\ DOMAIN Alphabet \subseteq Int
  /\ \A u \in Uploads : u.cost # None =>
       /\ u.cost.kind = "cost" /\ IsLedger(u.cost.rows)
       /\ \A i \in 1..Len(u.cost.rows) : NamesListed(u.cost.rows[i])
  /\ \A u \in Uploads : u.audit # None => u.audit.kind = "audit" /\ IsList(u.audit.rows)
\* A request comes without data, and its days are counted from the first one.
ASSUME RequestsAssumption ==
  \A i \in Requests("upload") \union Requests("live") :
    i.records = <<>> /\ i.events = {} /\ i.bundle = None /\ i.current.end \in Nat

\* What is known of a principal, and of its use of a resource.
Principals == {ActorNames[i] : i \in 1..Len(ActorNames)}
IsEvent(e) == e.day \in Int /\ e.actor \in Principals \union {None} /\ e.tokens \in Nat \union {None}

\* Usage that a row of BigQuery's export has on a day is over before the next day is. A
\* trail names principals that are listed, and counts tokens up from zero.
IsTrail(row) ==
  /\ row.day \in Int \union {None}
  /\ LET i == row.identity
     IN  {i.issuer, i.arn, i.issuerName, i.invokedBy, i.user, i.principal, i.account}
           \subseteq Principals \union {None}
  /\ IsList(row.counts)
  /\ \A j \in 1..Len(row.counts) :
       {row.counts[j].total, row.counts[j].input, row.counts[j].output} \subseteq Nat \union {None}
ASSUME FilesAssumption ==
  \A u \in Uploads :
    /\ u.cost # None =>
         \A i \in 1..Len(u.cost.rows) :
           u.cost.rows[i].ends # None =>
             u.cost.rows[i].ends \in Nat /\ u.cost.rows[i].ends < 2 * HoursPerDay
    /\ u.audit # None =>
         \A i \in 1..Len(u.audit.rows) :
           /\ u.audit.format = "cloudtrail" => IsTrail(u.audit.rows[i])
           /\ u.audit.format = "items" => IsEvent(u.audit.rows[i])

\* A trail ends.
AreEvents(events) == IsFiniteSet(events) /\ \A e \in events : IsEvent(e)
ASSUME FixturesAssumption == \A i \in Inputs : AreEvents(i.events)

ASSUME PlaybooksAssumption == \A slot \in {"aws", "azure", "gcp"} : AreSpecs(PlaybooksOf(slot))

\* BigQuery says when the usage of a row was over, on its day, the others bill whole days;
\* Cost Explorer has the same metrics on every line.
ASSUME LedgersAssumption ==
  \A l \in Ledgers :
    LET rows == l.rows
    IN  /\ l.format \in {"aws", "azure", "gcp"} /\ IsLedger(rows) /\ l.known \in 0..Len(rows)
        /\ \A i \in 1..Len(rows) : IF l.format = "gcp" THEN rows[i].ends \in 1..HoursPerDay ELSE rows[i].ends = None
        /\ l.format = "aws" =>
             \A i, j \in 1..Len(rows) : rows[i].amortized = None => rows[j].amortized = None
ASSUME AskedAssumption ==
  /\ FirstToday \in Int
  /\ \A periods \in Asked : periods # {} /\ IsFiniteSet(periods) /\ \A p \in periods : IsPeriod(p)
-----------------------------------------------------------------------------

VARIABLES
  origin,      \* "fixture", "upload" or "live"
  files,       \* the client's files
  sources      \* what became of each file: a ParsedSource or a refusal, None before

pipelineVars == <<vars, liveVars, origin, files, sources>>

NoFiles == [cost |-> None, audit |-> None]
NoLedger == [format |-> None, rows |-> <<>>, known |-> 0, detailed |-> FALSE]

Init ==
  /\ comparison = None /\ breakdown = None /\ investigator = None /\ report = None
  /\ findings = <<>> /\ sources = NoFiles /\ today = FirstToday
  /\ \/ /\ origin = "fixture" /\ stage = "loaded" /\ input \in Inputs
        /\ files = NoFiles /\ ledger = NoLedger
     \/ /\ origin = "upload" /\ stage = "sourcing" /\ input \in Requests(origin)
        /\ files \in Uploads /\ ledger = NoLedger
     \/ /\ origin = "live" /\ stage = "sourcing" /\ input \in Requests(origin)
        /\ files = NoFiles /\ ledger \in Ledgers
        /\ \A i \in 1..ledger.known : ledger.rows[i].day <= today
  /\ reported = ledger.known /\ LiveInit

Kinds == {"cost", "audit"}
Periods == {input.current, input.baseline}

\* PUT .../sources/{kind}, before the dataset is sealed.
PutSource(kind) ==
  /\ origin = "upload" /\ stage = "sourcing"
  /\ files[kind] # None /\ sources[kind] = None
  /\ sources' = [sources EXCEPT ![kind] = ParseSource(files[kind])]
  /\ UNCHANGED <<vars, liveVars, origin, files>>

Stored == {kind \in Kinds : sources[kind] # None /\ sources[kind].accepted}

\* Dataset.data_through: the source that ends first.
DatasetThrough == Smallest({sources[kind].through : kind \in Stored})

InPeriods(items) ==
  ElementsAt(items, {i \in 1..Len(items) : \E p \in Periods : PeriodContains(p, items[i].day)})

\* data_is_incomplete: all that the bundle holds must reach the end of the current period.
Bundle(events, through) ==
  [resource |-> None, series |-> <<>>, recommendations |-> 0, flagged |-> FALSE,
   events |-> [i \in 1..Len(events) |-> [name |-> events[i].name, resources |-> events[i].resources,
                                         day |-> events[i].day, untrusted |-> FALSE]],
   complete |-> through >= EndOfDay(input.current.end)]

AvailableSourceTypes(records, events) ==
  (IF records = <<>> THEN {} ELSE {"cost", "usage"}) \union (IF events = <<>> THEN {} ELSE {"audit"})

\* Sealed with an accepted bill, the dataset is what every reader of this investigation sees.
LoadDataset ==
  /\ origin = "upload" /\ stage = "sourcing" /\ "cost" \in Stored
  /\ stage' = "loaded"
  /\ LET records == InPeriods(sources["cost"].items)
         events == IF "audit" \in Stored THEN InPeriods(sources["audit"].items) ELSE <<>>
     IN  input' = [input EXCEPT
           !.records = records, !.events = {events[i] : i \in 1..Len(events)},
           !.specs = PlaybooksOf(files.cost.slot),
           !.bundle = Bundle(events, DatasetThrough),
           !.available = AvailableSourceTypes(records, events)]
  /\ UNCHANGED <<comparison, breakdown, investigator, findings, report, liveVars, origin, files, sources>>

\* Both readers ask for the periods of the request, the worker once it has its task.
AskedNow(caller) ==
  CASE caller = "orchestrator" -> IF stage = "sourcing" THEN {Periods} ELSE {}
    [] caller = "worker"       -> IF stage = "compared" THEN {Periods} ELSE {}
    [] OTHER                   -> Asked

LoadLive ==
  /\ origin = "live" /\ stage = "sourcing"
  /\ calls["orchestrator"].stage = "answered"
  /\ stage' = "loaded"
  /\ input' = [input EXCEPT !.records = calls["orchestrator"].records,
                            !.specs = PlaybooksOf(ledger.format)]
  /\ UNCHANGED <<comparison, breakdown, investigator, findings, report, liveVars, origin, files, sources>>

\* ProviderDataUnavailableError: there is no other provider to go on with.
LoadFails ==
  /\ origin = "live" /\ stage = "sourcing"
  /\ calls["orchestrator"].stage = "over"
  /\ stage' = "unavailable"
  /\ UNCHANGED <<input, comparison, breakdown, investigator, findings, report,
                 liveVars, origin, files, sources>>

\* get_bundle: the worker's own costs, and nothing else that a live provider is read for.
LoadBundle ==
  /\ origin = "live" /\ stage = "compared" /\ input.bundle = None
  /\ calls["worker"].stage = "answered"
  /\ input' = [input EXCEPT
       !.bundle = Bundle(<<>>, calls["worker"].through),
       !.available = AvailableSourceTypes(calls["worker"].records, <<>>)]
  /\ UNCHANGED <<stage, comparison, breakdown, investigator, findings, report,
                 liveVars, origin, files, sources>>

\* A specialist without data answers with an error: its candidates stay unexplained.
BundleFails ==
  /\ origin = "live" /\ stage = "compared"
  /\ calls["worker"].stage = "over"
  /\ stage' = "investigated" /\ investigator' = "none"
  /\ input' = [input EXCEPT !.bundle = Bundle(<<>>, 0)]
  /\ UNCHANGED <<comparison, breakdown, findings, report, liveVars, origin, files, sources>>

AnalysisStep ==
  /\ \/ Compare \/ Publish
     \/ input.bundle # None /\ (InvestigateByRules \/ InvestigateByAgent)
     \/ \E dimension \in Dimensions : GetCostBreakdown(dimension)
  /\ UNCHANGED <<liveVars, origin, files, sources>>

\* Others run while this investigation waits for costs; what it makes of them, it makes
\* without a wait (or, with an agent, without another look at the costs).
LiveStep ==
  /\ origin = "live"
  /\ stage = "sourcing" \/ (stage = "compared" /\ input.bundle = None)
  /\ LiveNext \/ \E c \in Callers : \E periods \in AskedNow(c) : Ask(c, periods)
  /\ UNCHANGED <<vars, origin, files, sources>>

Next ==
  \/ \E kind \in Kinds : PutSource(kind)
  \/ LoadDataset \/ LoadLive \/ LoadFails \/ LoadBundle \/ BundleFails
  \/ AnalysisStep \/ LiveStep

Spec == Init /\ [][Next]_pipelineVars
-----------------------------------------------------------------------------
\* ingest.py:503: rows are collapsed "to daily grain, which is what the analytics layer
\* consumes", and the fields of the key are those a breakdown can be asked for.  Whatever
\* is asked of the stored rows has the answer it would have had of every usable row of the
\* file: all groups of all dimensions and all candidates have the same figures.  What a
\* group takes from its first row to be called by is left out, as the rows are put in order.
AggregationChangesNoAnswer ==
  origin = "upload" /\ stage = "loaded" =>
    LET parsed == Parse(files.cost.format, files.cost.rows)
        all == InPeriods(ElementsAt(parsed, {i \in 1..Len(parsed) : Usable(parsed[i])}))
        Figures(changes) ==
          {[changes[i] EXCEPT !.dimension = None, !.service = None, !.region = None,
                              !.resource = None, !.owner = None] : i \in 1..Len(changes)}
        Cut(records, dimension) ==
          Figures(GroupChanges(records, dimension, input.current, input.baseline, input.config))
        Compared(records) ==
          Figures(AllCandidates(FilterRecords(records, input.accounts), input.current,
                                input.baseline, input.config))
    IN  /\ \A dimension \in Dimensions : Cut(all, dimension) = Cut(input.records, dimension)
        /\ Compared(all) = Compared(input.records)

\* What a file shows to be missing at its end: days, or hours of its last day.
FileHasGap(file) ==
  LET last == LastDay(Parse(file.format, file.rows))
      seen(day) == Cardinality(HourBuckets(file.rows, day))
      ends == {file.rows[i].ends : i \in {j \in 1..Len(file.rows) :
                 file.rows[j].day = last /\ file.rows[j].ends # None}}
  IN  \/ last < input.current.end
      \/ /\ last = input.current.end
         /\ \/ /\ file.format = "aws" /\ seen(last) < HoursPerDay
               /\ \E day \in DaysOf(file.rows) : day < last /\ seen(day) = HoursPerDay
            \/ file.format = "gcp" /\ ends # {} /\ \A end \in ends : end < HoursPerDay

\* The bill has usage of the current period on a later day than any the worker was told
\* of, for a baseline that does not end after it.
WorkerMissed ==
  /\ input.baseline.end <= input.current.end
  /\ \E day \in DaysOf(ledger.rows) :
       /\ PeriodContains(input.current, day)
       /\ \A told \in DaysOf(calls["worker"].records) : told < day

\* "Missing days are unavailable data, not zero usage; conclusions about the most recent
\* days stay provisional" (context.py:92): when what the worker reads ends before usage
\* of the current period does, the worker knows, and no finding of the playbooks is
\* published as certain.  A day that some usage was told of may still get more; a provider
\* does not say so, and nothing is claimed of it.
MissingUsageIsNotCertain ==
  LET missing == \/ origin = "upload" /\ FileHasGap(files.cost)
                 \/ origin = "live" /\ WorkerMissed
  IN  stage \in {"compared", "investigated", "published"} /\ missing =>
        /\ input.bundle # None => ~input.bundle.complete
        /\ report # None /\ investigator = "rules" =>
             \A i \in 1..Len(report.findings) : report.findings[i].uncertain
=============================================================================
