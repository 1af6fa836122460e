------------------------------ MODULE MCAnalysis ------------------------------
(***************************************************************************)
(* Bills of at most three rows over six days, and what a worker may know   *)
(* of them.  One unit is a tenth of a cent.                                *)
(***************************************************************************)
EXTENDS Analysis

MCActorNames == <<"alice", "bob", "unattributed">>
MCBareName == [arn_vm |-> "vm"]
MCScopedIds == {"aws:vm"}
MCHits ==
  [ec2 |-> {"EC2", "Virtual Machines", "Compute Engine"}, s3 |-> {}, nat |-> {"NAT Gateway", "NatGateway"},
   cpu |-> {"CPUUtilization", "Percentage CPU", "compute.googleapis.com/instance/cpu/utilization"},
   bytes |-> {"BytesOutToDestination"}, net |-> {"NetworkOut"}, net2 |-> {"NetworkIn"},
   RunInstances |-> {"RunInstances"}, CreateRoute |-> {"CreateRoute"}]

Row(service, resource, day, cost, quantity) ==
  [service |-> service, region |-> None, resource |-> resource, owner |-> None, actor |-> None,
   sku |-> None, day |-> day, cost |-> cost, quantity |-> quantity,
   account |-> "main", category |-> "usage"]

Event(id, actor, resources, day, tokens) ==
  [id |-> id, actor |-> actor, resources |-> resources, day |-> day, tokens |-> tokens,
   name |-> "RunInstances"]

Config ==
  [minChange |-> 1000, minPercent |-> 20000, spikeFloor |-> 10, maxCandidates |-> 2,
   tolerance |-> 2, dollar |-> 1000, cent |-> 10]

Period(first, last) == [start |-> first, end |-> last]

NoBundle == [resource |-> None, series |-> <<>>, events |-> <<>>, recommendations |-> 0,
             flagged |-> FALSE, complete |-> TRUE]

-----------------------------------------------------------------------------
\* Any bill of three rows, with the audit events that may speak for it; the current
\* period is shorter than the baseline, or the two overlap.
Rows6 == {
  Row("ec2", "vm", 2, 2003, 10), [Row("ec2", "arn_vm", 5, 4001, 10) EXCEPT !.owner = "team"],
  Row("ec2", "vm", 5, 1400, 0), Row("ec2", None, 2, 0 - 101, 0),
  [Row("s3", None, 5, 1201, 3) EXCEPT !.region = "eu"], Row("s3", "vm", 6, 1801, 7),
  [Row("s3", None, 3, 1, 1) EXCEPT !.region = "us"], Row("ec2", "vm", 9, 200, 1) }

Bills == UNION {[1..n -> Rows6] : n \in 0..3}

Trails == {
  {},
  {Event(1, "alice", {"vm"}, 5, 3), Event(2, "bob", {"arn_vm", "vm"}, 5, 4), Event(3, None, {"vm"}, 2, None)},
  {Event(1, "alice", {"vm"}, 5, 3), Event(2, None, {"vm"}, 5, None), Event(3, "bob", {"vm"}, 6, 1),
   Event(4, "bob", {"vm"}, 5, None)} }

BillInputs ==
  {[records |-> bill, accounts |-> {}, events |-> trail, current |-> periods[1], baseline |-> periods[2],
    config |-> [Config EXCEPT !.maxCandidates = limit], specs |-> AwsPlaybooks, bundle |-> NoBundle,
    rules |-> <<>>, today |-> 10, available |-> None] :
     bill \in Bills, trail \in Trails, limit \in {1, 3},
     periods \in {<<Period(5, 6), Period(1, 4)>>, <<Period(3, 6), Period(1, 3)>>}}

-----------------------------------------------------------------------------
\* One candidate of each shape, with every combination of what is known of it.
Shapes == {
  <<Row("ec2", "vm", 2, 2000, 10), Row("ec2", "vm", 5, 9000, 40)>>,   \* grew with usage
  <<Row("ec2", "vm", 2, 2000, 10), Row("ec2", "vm", 5, 6013, 5)>>,    \* grew without usage
  <<Row("nat", None, 5, 6013, 5)>>,                                     \* new
  <<Row("ec2", "vm", 5, 6013, 5), Row("nat", "gw", 6, 9000, 1)>>,     \* two of them
  <<Row("s3", None, 2, 2000, 10), Row("s3", None, 5, 9000, 10)>> }    \* nothing to go by

Series(name, points) == [name |-> name, points |-> points]

Started(untrusted) ==
  [name |-> "RunInstances", resources |-> {"vm"}, day |-> 5, untrusted |-> untrusted]

Bundles == {[resource |-> r, series |-> s, events |-> e, recommendations |-> n,
              flagged |-> n = 3 /\ Len(e) = 1, complete |-> c] :
  r \in {None, [id |-> "vm", owner |-> None], [id |-> "vm", owner |-> "team"]},
  s \in {<<>>, <<Series("cpu", <<[day |-> 5, value |-> 3]>>), Series("net", <<>>), Series("net2", <<>>)>>,
         <<Series("cpu", <<[day |-> 5, value |-> 60]>>), Series("bytes", <<[day |-> 6, value |-> 9]>>)>>},
  e \in {<<>>, <<Started(TRUE)>>, <<Started(FALSE), Started(FALSE), Started(FALSE), Started(FALSE)>>},
  n \in {0, 3}, c \in BOOLEAN}

Rule(id, from, to, reviewed) ==
  [id |-> id, service |-> None, services |-> {"ec2"}, categories |-> {}, from |-> from, to |-> to,
   reviewed |-> reviewed]
Generic(id, from) == [Rule(id, from, None, 9) EXCEPT !.services = {}]

RuleSets == {
  <<>>,
  <<Rule("old", 1, None, 9), Rule("new", 4, None, 9), Rule("future", 9, None, 9)>>,
  <<Rule("ended", 1, 3, 9), Rule("undated", None, None, None), Generic("any", 2)>>,
  <<Generic("any", 1), Generic("later", 6)>> }

CaseInputs ==
  {[records |-> shape, accounts |-> {}, events |-> {}, current |-> Period(5, 6), baseline |-> Period(1, 4),
    config |-> Config, specs |-> told[1], bundle |-> bundle, rules |-> rules, today |-> 10,
    available |-> told[2]] :
     shape \in Shapes, bundle \in Bundles, rules \in RuleSets,
     told \in {<<AwsPlaybooks, None>>, <<AzurePlaybooks, {"cost"}>>, <<GcpPlaybooks, {"cost", "metric"}>>}}

\* A baseline that holds a credit.
CreditInputs ==
  {[i EXCEPT !.records = <<Row("ec2", "vm", 2, 0 - 1000, 10), Row("ec2", "vm", 5, 9000, 40)>>] :
     i \in {c \in CaseInputs : c.available = None}}

MCInputs == BillInputs \union CaseInputs \union CreditInputs

-----------------------------------------------------------------------------
Evidences ==
  {[kind \in SourceKinds |-> IF kind = "cost" THEN counts[1]
                             ELSE IF kind = "metric" THEN counts[2] ELSE 0] :
     counts \in {<<0, 0>>, <<1, 0>>, <<3, 0>>, <<1, 1>>, <<2, 1>>}}

Citations == {{}} \union
  {{[found |-> TRUE, rule |-> Rule("new", from, None, 9), from |-> from, date |-> 5, stale |-> stale]} :
     from \in {None, 4, 6}, stale \in BOOLEAN}

Claim ==
  [candidate : {"vm", "made up"}, category : {"idle_compute", "unexplained_increase"},
   resources : {{}, {"vm"}, {"ghost", "aws:vm"}}, evidence : Evidences, rules : Citations,
   confidence : {300, 850}, increase : {6012, 5000}, uncertain : {FALSE}]

Plain == [candidate |-> "vm", category |-> "idle_compute", resources |-> {"vm"},
          evidence |-> [kind \in SourceKinds |-> 1], rules |-> {}, confidence |-> 850,
          increase |-> 2400, uncertain |-> FALSE]

\* An agent answers the two-resource case with a claim of every kind.
MCClaims(data, comparisonMade) ==
  IF Len(data.records) = 2 /\ data.records[1].cost = 6013 /\ data.bundle = NoBundle /\ data.rules = <<>>
  THEN {<<claim>> : claim \in Claim} \union {<<Plain, claim>> : claim \in {c \in Claim : c.rules = {}}}
  ELSE {<<>>}
=============================================================================
