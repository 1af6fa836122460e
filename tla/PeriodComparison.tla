-------------------------- MODULE PeriodComparison --------------------------
(***************************************************************************)
(* Two billing periods compared: grouping, materiality and reconciliation  *)
(* (packages/anomaly comparison.py).  Money, quantities and percentages    *)
(* are whole numbers of the last decimal place the code rounds to, so a    *)
(* Python round() is RoundDiv.  A cost record is                           *)
(*   [service, region, resource, owner, actor, sku, day, cost, quantity],  *)
(* with None for what the bill does not name; days are numbers and a       *)
(* DateRange is [start, end].  Records are those of one provider: every    *)
(* operator here skips the others first.                                   *)
(***************************************************************************)
EXTENDS Integers, SequencesExt

CONSTANT None    \* what is not there

\* Nearest integer to a / b, ties to even, b > 0.
RoundDiv(a, b) ==
  LET q == a \div b
      up == 2 * (a % b) > b \/ (2 * (a % b) = b /\ q % 2 = 1)
  IN  IF up THEN q + 1 ELSE q

Plus(a, b) == a + b
SumSeq(s) == FoldLeft(Plus, 0, s)
Larger(a, b) == IF a >= b THEN a ELSE b
Smaller(a, b) == IF a <= b THEN a ELSE b
Magnitude(a) == IF a < 0 THEN 0 - a ELSE a

IsList(s) == Len(s) \in Nat /\ s = [i \in 1..Len(s) |-> s[i]]

\* A sort: the elements of a finite set in an order of all of them.
Ordering(S, before) ==
  [n \in 1..Cardinality(S) |-> CHOOSE x \in S : Cardinality({y \in S : <<y, x>> \in before}) = n - 1]

\* A filter: the elements of a sequence at some of its places.
ElementsAt(s, places) ==
  LET order == Ordering(places, {p \in places \X places : p[1] < p[2]})
  IN  [n \in 1..Cardinality(places) |-> s[order[n]]]

PeriodContains(period, day) == period.start <= day /\ day <= period.end
Days(period) == period.end - period.start + 1

\* One total per day of the period, days without a record included.
DailyTotals(records, period) ==
  [day \in period.start..period.end |->
     SumSeq([i \in 1..Len(records) |-> IF records[i].day = day THEN records[i].cost ELSE 0])]

FirstOf(a, b) == IF a # None THEN a ELSE b

NewAggregate(key, dimension) ==
  [key |-> key, dimension |-> dimension, service |-> None, region |-> None,
   resource |-> None, owner |-> None, skus |-> {}, services |-> <<>>,
   current |-> 0, baseline |-> 0, currentQuantity |-> 0, baselineQuantity |-> 0, daily |-> <<>>]

\* The service that names the group: the one with the largest current cost, the
\* first seen of equals; until one has a positive cost, the first service seen.
NamingService(named, services) ==
  LET best == {i \in 1..Len(services) :
                 \A j \in 1..Len(services) : services[j].cost <= services[i].cost}
      first == CHOOSE i \in best : \A j \in best : i <= j
  IN  IF services[first].cost > 0 THEN services[first].name ELSE FirstOf(named, services[1].name)

\* The code's dict of totals, in insertion order: cost is added to name's entry.
AddTo(totals, name, cost) ==
  IF \E i \in 1..Len(totals) : totals[i].name = name
  THEN [i \in 1..Len(totals) |->
          IF totals[i].name = name THEN [totals[i] EXCEPT !.cost = @ + cost] ELSE totals[i]]
  ELSE Append(totals, [name |-> name, cost |-> cost])

AddRecord(group, record, inCurrent) ==
  LET spent == IF inCurrent THEN record.cost ELSE 0
      used == IF inCurrent THEN record.quantity ELSE 0
      services == AddTo(group.services, record.service, spent)
  IN  [group EXCEPT
         !.services = services,
         !.service = NamingService(@, services),
         !.region = FirstOf(@, record.region),
         !.resource = FirstOf(@, record.resource),
         !.owner = FirstOf(@, record.owner),
         !.skus = @ \union ({record.sku} \ {None}),
         !.current = @ + spent,
         !.baseline = @ + record.cost - spent,
         !.currentQuantity = @ + used,
         !.baselineQuantity = @ + record.quantity - used,
         !.daily = IF inCurrent THEN AddTo(@, record.day, spent) ELSE @]

DimensionKey_UnknownDropped(record, dimension) ==
  CASE dimension = "resource"  -> record.resource
    [] dimension = "service"   -> record.service
    [] dimension = "region"    -> record.region
    [] dimension = "tag_owner" -> record.owner
    [] dimension = "actor"     -> record.actor

DimensionKey(record, dimension) ==
  CASE dimension = "resource"  -> record.resource
    [] dimension = "service"   -> record.service
    [] dimension = "region"    -> FirstOf(record.region, "unknown-region")
    [] dimension = "tag_owner" -> FirstOf(record.owner, "untagged")
    [] dimension = "actor"     -> FirstOf(record.actor, "unattributed")

FinestDimension_ResourceOnly(record) == "resource"

\* compare_provider's partition: by resource where the bill names one, else by service.
FinestDimension(record) == IF record.resource # None THEN "resource" ELSE "service"

InScope(record, current, baseline) ==
  PeriodContains(current, record.day) \/ PeriodContains(baseline, record.day)

\* The groups in the order of their first record, by a dimension or by each record's
\* finest; a day of both periods is current.
Grouped(groups, record, by, current, baseline) ==
  LET dimension == IF by = "finest" THEN FinestDimension(record) ELSE by
      key == DimensionKey(record, dimension)
      at == {i \in 1..Len(groups) : groups[i].key = key}
      inCurrent == PeriodContains(current, record.day)
  IN  IF ~InScope(record, current, baseline) \/ key = None THEN groups
      ELSE IF at = {}
           THEN Append(groups, AddRecord(NewAggregate(key, dimension), record, inCurrent))
           ELSE [i \in 1..Len(groups) |->
                   IF i \in at THEN AddRecord(groups[i], record, inCurrent) ELSE groups[i]]

Groups(records, by, current, baseline) ==
  LET after[n \in 0..Len(records)] ==
        IF n = 0 THEN <<>> ELSE Grouped(after[n - 1], records[n], by, current, baseline)
  IN  after[Len(records)]

\* sorted(..., reverse=True): largest raw change first, equals in their old order.
ByRawChange(groups) ==
  LET change(i) == groups[i].current - groups[i].baseline
      places == 1..Len(groups)
      order == Ordering(places, {p \in places \X places :
                 \/ change(p[1]) > change(p[2])
                 \/ change(p[1]) = change(p[2]) /\ p[1] < p[2]})
  IN  [i \in 1..Len(groups) |-> groups[order[i]]]

\* Thousandths of a percent, None without a baseline to compare with.
Percent(value, expected) ==
  IF expected <= 0 THEN None ELSE RoundDiv((value - expected) * 100000, expected)

\* A unit cost as a fraction <<cost, quantity>>, None without usage.
UnitCost(cost, quantity) == IF quantity <= 0 THEN None ELSE <<cost, quantity>>

\* The first day above one and a half times the daily average of the baseline;
\* SpikeFloor is the 0.01 below which no threshold falls.
FirstSpike(group, current, baseline, floor) ==
  LET cost(day) == SumSeq([i \in 1..Len(group.daily) |->
                             IF group.daily[i].name = day THEN group.daily[i].cost ELSE 0])
      spikes == {day \in current.start..current.end :
                   /\ cost(day) > floor
                   /\ 2 * Days(baseline) * cost(day) > 3 * group.baseline}
  IN  IF spikes = {} THEN None ELSE CHOOSE day \in spikes : \A other \in spikes : day <= other

\* What the baseline comes to over the length of the current period.
Expected(cost, current, baseline) == RoundDiv(cost * Days(current), Days(baseline))

Candidate(group, current, baseline, config) ==
  LET expected == Expected(group.baseline, current, baseline)
  IN  [key |-> group.key, dimension |-> group.dimension, service |-> group.service,
       region |-> group.region, resource |-> group.resource, owner |-> group.owner,
       skus |-> group.skus, current |-> group.current, expected |-> expected,
       change |-> group.current - expected, percent |-> Percent(group.current, expected),
       quantityPercent |->
         IF group.baselineQuantity <= 0 THEN None
         ELSE RoundDiv((group.currentQuantity * Days(baseline)
                          - group.baselineQuantity * Days(current)) * 100000,
                       group.baselineQuantity * Days(current)),
       used |-> group.currentQuantity > 0 \/ group.baselineQuantity > 0,
       unitBefore |-> UnitCost(group.baseline, group.baselineQuantity),
       unitNow |-> UnitCost(group.current, group.currentQuantity),
       spike |-> FirstSpike(group, current, baseline, config.spikeFloor),
       isNew |-> group.baseline <= 0 /\ group.current > 0]

IsQuantityDriven(candidate) ==
  candidate.quantityPercent = None \/ candidate.quantityPercent >= 10000

IsMaterial(candidate, config) ==
  /\ candidate.change >= config.minChange
  /\ \/ candidate.isNew
     \/ candidate.percent = None
     \/ candidate.percent >= config.minPercent

\* Tolerance is a share in percent; Dollar is what the code writes as 1.0.
Reconcile(total, attributed, config) ==
  [total |-> total, attributed |-> attributed, unattributed |-> total - attributed,
   within |-> 100 * Magnitude(total - attributed)
                <= config.tolerance * Larger(Magnitude(total), config.dollar)]

GroupChanges(records, dimension, current, baseline, config) ==
  LET groups == ByRawChange(Groups(records, dimension, current, baseline))
  IN  [i \in 1..Len(groups) |-> Candidate(groups[i], current, baseline, config)]

ChangeSum(candidates) == SumSeq([i \in 1..Len(candidates) |-> candidates[i].change])

AllCandidates(records, current, baseline, config) ==
  LET groups == ByRawChange(Groups(records, "finest", current, baseline))
  IN  [i \in 1..Len(groups) |-> Candidate(groups[i], current, baseline, config)]

CompareProvider(records, current, baseline, config) ==
  LET groups == Groups(records, "finest", current, baseline)
      now == SumSeq([i \in 1..Len(groups) |-> groups[i].current])
      before == SumSeq([i \in 1..Len(groups) |-> groups[i].baseline])
      all == AllCandidates(records, current, baseline, config)
      material == ElementsAt(all, {i \in 1..Len(all) : IsMaterial(all[i], config)})
      candidates == SubSeq(material, 1, Smaller(Len(material), config.maxCandidates))
      change == now - Expected(before, current, baseline)
  IN  [current |-> now, baseline |-> before, change |-> change,
       expected |-> Expected(before, current, baseline), candidates |-> candidates,
       dailyCurrent |-> DailyTotals(records, current),
       dailyBaseline |-> DailyTotals(records, baseline),
       reconciliation |-> Reconcile(change, ChangeSum(candidates), config)]

\* comparisons: one ProviderComparison per provider asked for.
ComparePeriods(comparisons, config) ==
  LET total == SumSeq([i \in 1..Len(comparisons) |-> comparisons[i].change])
      attributed == SumSeq([i \in 1..Len(comparisons) |-> ChangeSum(comparisons[i].candidates)])
  IN  [providers |-> comparisons, change |-> total,
       reconciliation |-> Reconcile(total, attributed, config)]

ReconcileFindings(findings, total, config) ==
  Reconcile(total, SumSeq([i \in 1..Len(findings) |-> findings[i].increase]), config)
=============================================================================
