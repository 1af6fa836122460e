-------------------------- MODULE BillingKnowledge --------------------------
(***************************************************************************)
(* Which dated billing rule interprets a usage date (packages/knowledge    *)
(* store.py, contracts knowledge.py).  The repository is a sequence of     *)
(* rules of one provider and rule type, in the order of its files:         *)
(*   [id, service, services, categories, from, to, reviewed],              *)
(* with None for an open end or a date nobody wrote down.  A query names a *)
(* service, a category, both or (None) neither.                            *)
(***************************************************************************)
EXTENDS PeriodComparison, FiniteSets

EffectiveOn(rule, date) ==
  /\ rule.from # None
  /\ rule.from <= date
  /\ rule.to # None => date <= rule.to

\* review_max_age_days after the review a rule is stale; so is an unreviewed one.
IsStale(rule, today, maxAge) == rule.reviewed = None \/ today - rule.reviewed > maxAge

IsGeneric(rule) == rule.services = {} /\ rule.categories = {}

\* A category beats an exact service beats a service pattern; 0 is no match.
MatchScore(rule, service, category) ==
  CASE category # None /\ category \in rule.categories -> 3
    [] service # None /\ rule.service = service        -> 2
    [] service # None /\ service \in rule.services     -> 1
    [] service = None /\ category = None /\ IsGeneric(rule) -> 1
    [] OTHER -> 0

\* The rules with the best positive score, else the generic ones.
Pool(rules, service, category) ==
  LET score(i) == MatchScore(rules[i], service, category)
      scored == {i \in 1..Len(rules) : score(i) > 0}
  IN  IF scored # {}
      THEN {i \in scored : \A j \in scored : score(j) <= score(i)}
      ELSE {i \in 1..Len(rules) : IsGeneric(rules[i])}

\* max(..., key=valid_from or date.min): an undated rule counts as the oldest;
\* the first of equals.
MostRecent(rules, among) ==
  LET start(i) == IF rules[i].from = None THEN 0 ELSE rules[i].from
      newest == {i \in among : \A j \in among : start(j) <= start(i)}
  IN  CHOOSE i \in newest : \A j \in newest : i <= j

NotFound == [found |-> FALSE]

Citation(rule, date, today, maxAge) ==
  [found |-> TRUE, rule |-> rule, from |-> rule.from, date |-> date,
   stale |-> IsStale(rule, today, maxAge)]

Select_NewestOfPool(rules, service, category, date, today, maxAge) ==
  LET pool == Pool(rules, service, category)
  IN  IF pool = {} THEN NotFound
      ELSE Citation(rules[MostRecent(rules, pool)], date, today, maxAge)

\* The rule effective on the date, the most recent if several are; without one
\* an undated rule; a rule that starts later is never applied.
Select(rules, service, category, date, today, maxAge) ==
  LET pool == Pool(rules, service, category)
      effective == {i \in pool : EffectiveOn(rules[i], date)}
      undated == {i \in pool : rules[i].from = None}
      cite(i) == Citation(rules[i], date, today, maxAge)
  IN  CASE pool = {} -> NotFound
        [] pool # {} /\ date = None -> cite(MostRecent(rules, pool))
        [] pool # {} /\ date # None /\ effective # {} -> cite(MostRecent(rules, effective))
        [] pool # {} /\ date # None /\ effective = {} /\ undated # {} ->
             cite(CHOOSE i \in undated : \A j \in undated : i <= j)
        [] OTHER -> NotFound
=============================================================================
