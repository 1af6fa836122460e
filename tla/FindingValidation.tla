-------------------------- MODULE FindingValidation --------------------------
(***************************************************************************)
(* Findings are claims until evidence supports them: the checks a finding  *)
(* passes before it is published (packages/evidence validation.py).  A     *)
(* finding is                                                              *)
(*   [candidate, category, resources, evidence, rules, confidence,         *)
(*    increase, uncertain],                                                *)
(* its evidence a count per kind (see Playbooks) and its rules citations.  *)
(* Confidence is in thousandths.                                           *)
(***************************************************************************)
EXTENDS PeriodComparison, FiniteSetsExt

CONSTANT ScopedIds    \* resource ids that begin with "<provider>:", never looked up

SourceKinds == {"cost", "usage", "inventory", "metric", "audit", "recommendation", "freshness"}
CauseSources == {"metric", "audit", "inventory", "recommendation"}
CorroboratingSources == {"metric", "audit", "recommendation"}

Thousandths == 0..1000

FindingFields == {"candidate", "category", "resources", "evidence", "rules", "confidence",
                  "increase", "uncertain"}

\* What the contract makes of an answer, whoever wrote it: pieces of evidence can be
\* counted, figures are numbers and confidence is in its range.
IsFinding(f) ==
  /\ DOMAIN f = FindingFields
  /\ \A kind \in SourceKinds : f.evidence[kind] \in Nat
  /\ f.confidence \in Thousandths /\ f.increase \in Int /\ f.uncertain \in BOOLEAN
AreFindings(list) == IsList(list) /\ \A i \in 1..Len(list) : IsFinding(list[i])

Items(finding) == MapThenSumSet(LAMBDA kind : finding.evidence[kind], SourceKinds)
HasKind(finding, kinds) == \E kind \in kinds : finding.evidence[kind] > 0

Doubt(finding, cap) == [finding EXCEPT !.uncertain = TRUE, !.confidence = Smaller(@, cap)]

\* 3. Resource ids must exist; an empty inventory says nothing.
Unsupported(finding, known) ==
  IF known = {} THEN {} ELSE finding.resources \ (known \union ScopedIds)

KeepKnownResources(finding, known) ==
  IF Unsupported(finding, known) = {} THEN finding
  ELSE Doubt([finding EXCEPT !.resources = @ \ Unsupported(finding, known)], 400)

Drifts_Exact(finding, measured, config) == finding.increase # measured

\* 4. The claimed increase is the measured one, up to a hundredth of it (of a
\* unit of money at least) or two cents.
Drifts(finding, measured, config) ==
  LET drift == Magnitude(finding.increase - measured)
  IN  /\ 100 * drift > Larger(Magnitude(measured), config.dollar)
      /\ drift > 2 * config.cent

MeasuredCost_FlagOnly(finding, measured, config) ==
  IF Drifts(finding, measured, config) THEN [finding EXCEPT !.uncertain = TRUE] ELSE finding

MeasuredCost(finding, measured, config) ==
  IF Drifts(finding, measured, config)
  THEN [finding EXCEPT !.increase = config.cent * RoundDiv(measured, config.cent), !.uncertain = TRUE]
  ELSE finding

\* 5. Without a rule, or with one that is stale or undated, the reading is provisional.
CitedRules(finding) ==
  IF finding.rules = {} THEN Doubt(finding, 450)
  ELSE IF \E rule \in finding.rules : rule.stale \/ rule.from = None THEN Doubt(finding, 600)
  ELSE finding

Retroactive(rule) == rule.from # None /\ rule.date # None /\ rule.date < rule.from

\* 6. High confidence needs three pieces of evidence and one that corroborates.
Corroborated(finding) ==
  IF /\ finding.confidence >= 800
     /\ Items(finding) < 3 \/ ~HasKind(finding, CorroboratingSources)
  THEN [finding EXCEPT !.confidence = 700]
  ELSE finding

\* 9. A provider that supplied nothing that shows a cause has no cause named;
\* available is None where nobody said what it supplied.
SupportedCause(finding, available) ==
  IF available # None /\ available \intersect CauseSources = {}
  THEN Doubt([finding EXCEPT !.category = "unexplained_increase"], 400)
  ELSE finding

\* The finding after every check, in their order; measured is its candidate's change,
\* None for a candidate that is not in the comparison.
Checked(finding, known, measured, available, config) ==
  LET kept == KeepKnownResources(finding, known)
      costed == IF measured = None THEN kept ELSE MeasuredCost(kept, measured, config)
  IN  SupportedCause(Corroborated(CitedRules(costed)), available)

Drops(finding) == Items(finding) = 0 \/ \E rule \in finding.rules : Retroactive(rule)

\* The checks that report an error rather than a warning.
Errors(finding, known, measured, config) ==
  {code \in {"missing_evidence", "unsupported_resource_id", "cost_attribution_mismatch",
             "rule_applied_retroactively"} :
     CASE code = "missing_evidence" -> Items(finding) = 0
       [] code = "unsupported_resource_id" -> Unsupported(finding, known) # {}
       [] code = "cost_attribution_mismatch" -> measured # None /\ Drifts(finding, measured, config)
       [] OTHER -> \E rule \in finding.rules : Retroactive(rule)}

\* measured has the change of each candidate the findings name, or None.
ValidateFindings(findings, known, measured, available, config) ==
  LET after(f) == Checked(f, known, measured[f.candidate], available, config)
      places == 1..Len(findings)
      checked == [i \in places |-> after(findings[i])]
  IN  [findings |-> ElementsAt(checked, {i \in places : ~Drops(findings[i])}),
       dropped |-> ElementsAt(checked, {i \in places : Drops(findings[i])})]

\* Certain before uncertain, then by cost, then by confidence.
RankBefore(a, b) ==
  \/ ~a.uncertain /\ b.uncertain
  \/ /\ a.uncertain = b.uncertain
     /\ \/ a.increase > b.increase
        \/ a.increase = b.increase /\ a.confidence > b.confidence

RankFindings(findings) ==
  LET places == 1..Len(findings)
      order == Ordering(places, {p \in places \X places :
                 \/ RankBefore(findings[p[1]], findings[p[2]])
                 \/ ~RankBefore(findings[p[2]], findings[p[1]]) /\ p[1] < p[2]})
  IN  [i \in 1..Len(findings) |-> findings[order[i]]]
=============================================================================
