------------------------------- MODULE Analysis -------------------------------
(***************************************************************************)
(* What the numbers and claims of one report go through, from billing rows *)
(* to published findings: the deterministic steps of the orchestrator's    *)
(* _run, with either the rule playbooks or an agent as investigator, and   *)
(* the breakdown a client may ask for instead.  One provider; where the    *)
(* input comes from is in CostPipeline, how specialists interleave in      *)
(* Investigation.  An input is                                             *)
(*   [records, accounts, events, current, baseline, config, specs, bundle, *)
(*    rules, today, available].                                            *)
(***************************************************************************)
EXTENDS ActorAllocation, Playbooks, FindingValidation

CONSTANTS
  Claims(_, _),    \* Claims(input, comparison): finding lists an agent may answer with
  MaxFindings,     \* the planner's max_findings
  ReviewAge,       \* review_max_age_days
  GroupLimit       \* the 25 groups of a breakdown

ASSUME LimitAssumption == MaxFindings \in Nat /\ GroupLimit \in Nat

VARIABLES
  input,        \* what was loaded
  stage,        \* "loaded", "compared", "investigated", "published" or "grouped"
  comparison,   \* the PeriodComparison, None before
  breakdown,    \* the answer to a breakdown by actor, None before
  investigator, \* who investigated: "rules" or "agent", None before
  findings,     \* what the investigator answered
  report        \* published and dropped findings with their reconciliation, None before

vars == <<input, stage, comparison, breakdown, investigator, findings, report>>

\* filter_records: the charges a comparison is about, in the accounts asked for (none: all).
FilterRecords(records, accounts) ==
  ElementsAt(records, {i \in 1..Len(records) :
                         /\ accounts # {} => records[i].account \in accounts
                         /\ records[i].category \in {"usage", "purchase", "adjustment"}})

Selected == FilterRecords(input.records, input.accounts)

Compare ==
  /\ stage = "loaded"
  /\ stage' = "compared"
  /\ comparison' = ComparePeriods(
       <<CompareProvider(Selected, input.current, input.baseline, input.config)>>, input.config)
  /\ UNCHANGED <<input, breakdown, investigator, findings, report>>

Dimensions == {"service", "region", "tag_owner", "actor"}

\* The first groups, and what the ones left out come to.
GroupPage(changes) ==
  LET shown == Smaller(Len(changes), GroupLimit)
      rest == SubSeq(changes, shown + 1, Len(changes))
  IN  [groups |-> SubSeq(changes, 1, shown), omitted |-> Len(rest),
       omittedCurrent |-> SumSeq([i \in 1..Len(rest) |-> rest[i].current])]

ActorPage(split) == [page |-> GroupPage(split.changes), allocation |-> split.allocation]

\* The MCP tool get_cost_breakdown, of every charge in the periods; by actor it answers
\* with the split it rests on.
GetCostBreakdown(dimension) ==
  /\ stage = "loaded"
  /\ stage' = "grouped"
  /\ breakdown' =
       IF dimension = "actor"
       THEN ActorPage(GroupChangesByActor(input.records, input.events, input.current,
                                          input.baseline, input.config))
       ELSE [page |-> GroupPage(GroupChanges(input.records, dimension, input.current,
                                             input.baseline, input.config)),
             allocation |-> None]
  /\ UNCHANGED <<input, comparison, investigator, findings, report>>

Candidates == comparison.providers[1].candidates

\* A stub worker, or a live one that falls back.
InvestigateByRules ==
  /\ stage = "compared"
  /\ stage' = "investigated" /\ investigator' = "rules"
  /\ findings' = RunPlaybooks(Candidates, {}, MaxFindings, input.specs,
                              [key \in {Candidates[i].key : i \in 1..Len(Candidates)} |-> input.bundle],
                              input.rules, input.today, ReviewAge, input.current, input.config.cent)
  /\ UNCHANGED <<input, comparison, breakdown, report>>

\* A live worker: an agent's claims, whatever they are.
InvestigateByAgent ==
  /\ stage = "compared"
  /\ stage' = "investigated" /\ investigator' = "agent"
  /\ findings' \in {claims \in Claims(input, comparison) : AreFindings(claims)}
  /\ UNCHANGED <<input, comparison, breakdown, report>>

KnownResources ==
  ({input.records[i].resource : i \in 1..Len(input.records)} \ {None})
    \union (IF input.bundle.resource = None THEN {} ELSE {input.bundle.resource.id})

\* The measured change of a candidate of the comparison.
Measured(key) ==
  LET at == {i \in 1..Len(Candidates) : Candidates[i].key = key}
  IN  IF at = {} THEN None ELSE Candidates[CHOOSE i \in at : TRUE].change

Publish ==
  /\ stage = "investigated"
  /\ stage' = "published"
  /\ LET measured == [key \in {findings[i].candidate : i \in 1..Len(findings)} |-> Measured(key)]
         result == ValidateFindings(findings, KnownResources, measured, input.available, input.config)
         published == RankFindings(result.findings)
     IN  report' = [findings |-> published, dropped |-> result.dropped,
                    reconciliation |-> ReconcileFindings(published, comparison.change, input.config)]
  /\ UNCHANGED <<input, comparison, breakdown, investigator, findings>>
-----------------------------------------------------------------------------
Rows(records) == {i \in 1..Len(records) : InScope(records[i], input.current, input.baseline)}
Current(records, rows) ==
  MapThenSumSet(LAMBDA i : IF PeriodContains(input.current, records[i].day) THEN records[i].cost ELSE 0,
                rows)
Change(records, rows) ==
  LET current == Current(records, rows)
  IN  current - Expected(MapThenSumSet(LAMBDA i : records[i].cost, rows) - current,
                         input.current, input.baseline)

\* The rows a candidate speaks for: those of its resource, or of its service without one.
RowsOf(candidate) ==
  {i \in Rows(Selected) : FirstOf(Selected[i].resource, Selected[i].service) = candidate.key}

\* comparison.py:337: "The candidate partition is resource-level where a resource id
\* exists and service-level otherwise, so candidate costs never double count."  Each
\* candidate's change is the change of exactly its rows, no two share a row, and what is
\* left over is the change of the other rows, up to the rounding of one cost per row.
CandidatesNeverDoubleCount ==
  comparison # None =>
    LET all == {Candidates[i] : i \in 1..Len(Candidates)}
        spoken == UNION {RowsOf(c) : c \in all}
        rest == comparison.reconciliation.unattributed - Change(Selected, Rows(Selected) \ spoken)
    IN  /\ \A c \in all : c.change = Change(Selected, RowsOf(c))
        /\ \A c, d \in all : c # d => RowsOf(c) \intersect RowsOf(d) = {}
        /\ Magnitude(rest) <= Len(Selected) + 1

\* However the bill is cut (docs/adr/0013: by service, region, owner or actor), the
\* groups, those a page leaves out included, add up to the same money, and the comparison
\* to that of the charges it is about.
EveryDimensionCountsTheSameMoney ==
  LET all == Rows(input.records)
      page == breakdown.page
  IN  /\ comparison # None => comparison.providers[1].current = Current(Selected, Rows(Selected))
      /\ breakdown # None =>
           /\ SumSeq([i \in 1..Len(page.groups) |-> page.groups[i].current]) + page.omittedCurrent
                = Current(input.records, all)
           /\ breakdown.allocation # None =>
                breakdown.allocation.attributed + breakdown.allocation.unattributed
                  = MapThenSumSet(LAMBDA i : input.records[i].cost, all)

\* docs/adr/0013: cost that no audit event speaks for is never given to a principal, and
\* the shares of one row are the row: every principal that gets money was seen, on a row's
\* day, at the row's resource or one of its aliases.
SharesHaveWitnesses ==
  breakdown # None /\ breakdown.allocation # None =>
    \A i \in 1..Len(breakdown.allocation.records) :
      LET part == breakdown.allocation.records[i]
          same == {r \in 1..Len(breakdown.allocation.records) :
                     [breakdown.allocation.records[r] EXCEPT !.actor = None, !.cost = 0, !.quantity = 0]
                       = [part EXCEPT !.actor = None, !.cost = 0, !.quantity = 0]}
          whole == {r \in Rows(input.records) : [input.records[r] EXCEPT !.cost = 0, !.quantity = 0]
                                   = [part EXCEPT !.actor = None, !.cost = 0, !.quantity = 0]}
      IN  /\ part.actor # Unattributed =>
               \E e \in input.events :
                 /\ e.actor = part.actor /\ e.day = part.day
                 /\ \E id \in e.resources :
                      ResourceAliases(id) \intersect ResourceAliases(part.resource) # {}
          /\ MapThenSumSet(LAMBDA r : breakdown.allocation.records[r].cost, same)
               = MapThenSumSet(LAMBDA r : input.records[r].cost, whole)

Cited == UNION {findings[i].rules : i \in 1..Len(findings)}

\* docs/adr/0020: knowledge is dated.  A rule the playbooks cite was in force on the date
\* it interprets, and no rule of the same rank that came into force later and before the
\* date was passed over; a rule without a date is used only where none is in force.
RulesAreInForce ==
  investigator = "rules" =>
    \A c \in Cited :
      LET rivals == {i \in 1..Len(input.rules) :
                       /\ input.rules[i].services = c.rule.services
                       /\ input.rules[i].categories = c.rule.categories
                       /\ input.rules[i].service = c.rule.service}
          inForce == {i \in rivals : EffectiveOn(input.rules[i], c.date)}
      IN  IF c.from = None THEN inForce = {}
          ELSE /\ EffectiveOn(c.rule, c.date)
               /\ \A i \in inForce : input.rules[i].from <= c.from

Bag(list, View(_)) ==
  LET views == {View(list[i]) : i \in 1..Len(list)}
  IN  [v \in views |-> Cardinality({i \in 1..Len(list) : View(list[i]) = v})]

\* The rules know nothing of the validator, yet what they write passes it: no finding is
\* dropped, none is reported as an error, and each is published with the resources and the
\* cost it was written with.
RuleFindingsSurviveValidation ==
  investigator = "rules" /\ report # None =>
    LET Claim(f) == <<f.candidate, f.resources, f.increase, f.evidence, f.rules>>
    IN  /\ report.dropped = <<>>
        /\ \A i \in 1..Len(findings) :
             Errors(findings[i], KnownResources, Measured(findings[i].candidate), input.config) = {}
        /\ Bag(findings, Claim) = Bag(report.findings, Claim)

Supported(finding) ==
  LET measured == Measured(finding.candidate)
  IN  /\ Items(finding) > 0
      /\ KnownResources # {} => finding.resources \subseteq KnownResources \union ScopedIds
      /\ measured # None => ~Drifts(finding, measured, input.config)
      /\ finding.confidence >= 800 =>
           /\ Items(finding) >= 3 /\ HasKind(finding, CorroboratingSources)
           /\ \E rule \in finding.rules : ~rule.stale
      /\ input.available # None /\ finding.category # "unexplained_increase" =>
           input.available \intersect CauseSources # {}
      /\ \A rule \in finding.rules : ~Retroactive(rule)

\* docs/adr/0010: findings are claims until evidence supports them.  Whatever an agent
\* claims, after all the checks in their order every published finding passes every one of
\* them, claims no more confidence than it was written with, and a finding the checks call
\* uncertain never stands before a certain one.
PublishedFindingsAreSupported ==
  report # None =>
    /\ \A i \in 1..Len(report.findings) :
         /\ Supported(report.findings[i])
         /\ \E j \in 1..Len(findings) :
              /\ findings[j].candidate = report.findings[i].candidate
              /\ report.findings[i].confidence <= findings[j].confidence
              /\ findings[j].uncertain => report.findings[i].uncertain
         /\ \A j \in 1..(i - 1) :
              \/ ~report.findings[j].uncertain
              \/ report.findings[i].uncertain /\ report.findings[i].increase <= report.findings[j].increase
    /\ Len(report.findings) + Len(report.dropped) = Len(findings)

Chosen(candidate) == SelectPlaybook(candidate, input.specs, input.bundle, input.current)

\* docs/adr/0010: the score moves over its range without touching the ceiling; "the four
\* axes below sum to at most 0.865" (playbooks.py:28).  It holds of every candidate whose
\* baseline does not cost less than nothing: with a credit for a baseline the drift of the
\* unit cost is negative, and the score has no bound.
ScoreStaysBelowCeiling ==
  investigator = "rules" =>
    \A i \in 1..Len(Candidates) :
      LET spec == Chosen(Candidates[i])
          credit == Candidates[i].unitBefore # None /\ Candidates[i].unitBefore[1] < 0
      IN  ~credit => DerivedScore(spec, GatherEvidence(Candidates[i], spec, input.bundle, input.current),
                                  Candidates[i]) <= 865
=============================================================================
