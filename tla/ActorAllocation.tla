--------------------------- MODULE ActorAllocation ---------------------------
(***************************************************************************)
(* Cost split over the principals the audit trail names (anomaly           *)
(* actors.py), and the breakdown by actor built on it (comparison.py       *)
(* group_changes_by_actor).  An audit event is                             *)
(*   [id, actor, resources, day, tokens, name]                             *)
(* with None for a principal or a token count that is not recorded.        *)
(***************************************************************************)
EXTENDS PeriodComparison, FiniteSetsExt

CONSTANTS
  ActorNames,  \* the principals and "unattributed", in alphabetical order
  BareName     \* BareName[arn]: the last part of the ARN of an EC2 instance or S3 bucket

ASSUME ActorNamesListed ==
  IsList(ActorNames) /\ "unattributed" \in {ActorNames[i] : i \in 1..Len(ActorNames)}

Unattributed == "unattributed"

ResourceAliases(id) == {id} \union (IF id \in DOMAIN BareName THEN {BareName[id]} ELSE {})

\* The events of the day that name the resource, under any alias, once each.
MatchingEvents(record, events) ==
  {e \in events :
     /\ record.resource # None
     /\ e.day = record.day
     /\ \E id \in e.resources :
          ResourceAliases(id) \intersect ResourceAliases(record.resource) # {}}

Principal(event) == FirstOf(event.actor, Unattributed)

WeightMethod(matching) ==
  IF matching = {} THEN None
  ELSE IF \A e \in matching : e.tokens # None /\ e.tokens # 0 THEN "token_count"
  ELSE "invocation_count"

Weight(event, matching) ==
  IF WeightMethod(matching) = "token_count" THEN event.tokens ELSE 1

WeightOf(actor, matching) ==
  MapThenSumSet(LAMBDA e : Weight(e, matching), {e \in matching : Principal(e) = actor})

\* By tokens if every event has some, else one per event; an event without a
\* principal keeps its weight.
ActorWeights(matching) ==
  [actor \in {Principal(e) : e \in matching} |-> WeightOf(actor, matching)]

TotalWeight(weights) == MapThenSumSet(LAMBDA actor : weights[actor], DOMAIN weights)

ActorRecord(record, actor, weight, total) ==
  [record EXCEPT !.actor = actor,
                 !.cost = RoundDiv(@ * weight, total),
                 !.quantity = RoundDiv(@ * weight, total)]

SplitRecord_NoResidual(record, weights) ==
  LET names == SelectSeq(ActorNames, LAMBDA a : a \in DOMAIN weights)
      total == TotalWeight(weights)
  IN  [i \in 1..Len(names) |-> ActorRecord(record, names[i], weights[names[i]], total)]

\* The largest weight first, equals by name.
RankedActors(weights) ==
  LET places == {i \in 1..Len(ActorNames) : ActorNames[i] \in DOMAIN weights}
      weight(i) == weights[ActorNames[i]]
      order == Ordering(places, {p \in places \X places :
                 \/ weight(p[1]) > weight(p[2])
                 \/ weight(p[1]) = weight(p[2]) /\ p[1] < p[2]})
  IN  [i \in 1..Cardinality(places) |-> ActorNames[order[i]]]

Shares(record, weights, actors, total) ==
  [i \in 1..Len(actors) |-> ActorRecord(record, actors[i], weights[actors[i]], total)]

\* The largest share absorbs what the rounding left over.
AbsorbResidual(parts, record) ==
  LET left(costs, whole) == whole - SumSeq(costs)
  IN  [parts EXCEPT
         ![1].cost = @ + left([i \in 1..Len(parts) |-> parts[i].cost], record.cost),
         ![1].quantity = @ + left([i \in 1..Len(parts) |-> parts[i].quantity], record.quantity)]

SplitRecord(record, weights) ==
  AbsorbResidual(Shares(record, weights, RankedActors(weights), TotalWeight(weights)), record)

AllocateRecord(record, events) ==
  LET matching == MatchingEvents(record, events)
  IN  IF matching = {} THEN <<ActorRecord(record, Unattributed, 1, 1)>>
      ELSE SplitRecord(record, ActorWeights(matching))

\* How the records that a named principal has a share of were weighted.
MethodsUsed(records, events) ==
  {WeightMethod(MatchingEvents(records[i], events)) :
     i \in {h \in 1..Len(records) :
              \E e \in MatchingEvents(records[h], events) : Principal(e) # Unattributed}}

\* What the records of the principals, or of nobody, come to: <<sum, sum of magnitudes>>.
SpentBy(named, records) ==
  LET costs == [i \in 1..Len(records) |->
                  IF (records[i].actor # Unattributed) = named THEN records[i].cost ELSE 0]
  IN  <<SumSeq(costs), SumSeq([i \in 1..Len(costs) |-> Magnitude(costs[i])])>>

Allocation(records, methods, known, lost) ==
  [records |-> records,
   method |-> IF methods = {} THEN None
              ELSE IF Cardinality(methods) = 1 THEN CHOOSE m \in methods : TRUE ELSE "mixed",
   attributed |-> known[1], unattributed |-> lost[1],
   unattributedShare |-> IF known[2] + lost[2] <= 0 THEN None ELSE <<lost[2], known[2] + lost[2]>>]

AllocateActorCosts(records, events) ==
  LET allocated == FlattenSeq([i \in 1..Len(records) |-> AllocateRecord(records[i], events)])
  IN  Allocation(allocated, MethodsUsed(records, events),
                 SpentBy(TRUE, allocated), SpentBy(FALSE, allocated))

\* Records and events are narrowed to the two periods before the split.
AllocateInPeriods(records, events, current, baseline) ==
  AllocateActorCosts(ElementsAt(records, {i \in 1..Len(records) : InScope(records[i], current, baseline)}),
                     {e \in events : InScope(e, current, baseline)})

GroupsOfAllocation(allocation, current, baseline, config) ==
  [allocation |-> allocation,
   changes |-> GroupChanges(allocation.records, "actor", current, baseline, config)]

GroupChangesByActor(records, events, current, baseline, config) ==
  GroupsOfAllocation(AllocateInPeriods(records, events, current, baseline), current, baseline, config)
=============================================================================
