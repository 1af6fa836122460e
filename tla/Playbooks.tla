------------------------------ MODULE Playbooks ------------------------------
(***************************************************************************)
(* The deterministic investigator: which waste pattern explains a          *)
(* candidate, what evidence there is and how much confidence it earns      *)
(* (worker_core playbooks.py, evidence.py, context.py) with the pattern    *)
(* tables of the three providers.  A text is known by the patterns it      *)
(* contains, Hits[text].  What a worker may read about the candidate is    *)
(*   [resource, series, events, recommendations, flagged, complete]:       *)
(* an inventory row [owner] or None, metric series [name, points], audit   *)
(* events [name, resources, day, untrusted], a number of recommendations,  *)
(* whether their texts were scrubbed, and whether the data covers the      *)
(* period.  Confidence is in thousandths.                                  *)
(***************************************************************************)
EXTENDS BillingKnowledge, FiniteSetsExt

CONSTANT Hits    \* Hits[text]: the patterns the text contains

MatchesAny(text, patterns) == text # None /\ Hits[text] \intersect patterns # {}

Playbook(category, services, priority) ==
  [category |-> category, services |-> services, skus |-> {}, metrics |-> {}, audits |-> {},
   idle |-> {}, idleBelow |-> 0, newSpend |-> FALSE, growth |-> TRUE, rate |-> FALSE,
   unowned |-> FALSE, fallback |-> FALSE, priority |-> priority, ceiling |-> 920]

Idle(category, services, metrics, idle, below) ==
  [Playbook(category, services, 20) EXCEPT !.metrics = metrics, !.idle = idle, !.idleBelow = below]

FallbackPlaybook ==
  [Playbook("unexplained_increase", {}, 99) EXCEPT !.growth = FALSE, !.fallback = TRUE, !.ceiling = 400]

PricingChange == [Playbook("pricing_change", {}, 15) EXCEPT !.rate = TRUE]
UntaggedResources ==
  [Playbook("untagged_resources", {}, 60) EXCEPT !.unowned = TRUE, !.ceiling = 700]
CommitmentChange(services) == [Playbook("commitment_change", services, 20) EXCEPT !.growth = FALSE]

AwsPlaybooks == <<
  [Playbook("nat_gateway_misroute", {"Virtual Private Cloud", "NAT Gateway"}, 10) EXCEPT
     !.skus = {"NatGateway"},
     !.metrics = {"BytesOutToDestination", "BytesInFromDestination", "ActiveConnectionCount"},
     !.audits = {"ReplaceRoute", "CreateRoute", "DeleteVpcEndpoint", "ModifyVpcEndpoint"}],
  [Playbook("ai_inference", {"Bedrock", "SageMaker"}, 15) EXCEPT
     !.metrics = {"Invocations", "InputTokenCount", "OutputTokenCount", "InvocationClientErrors"}],
  PricingChange,
  [Idle("idle_compute", {"Elastic Compute Cloud", "EC2"},
        {"CPUUtilization", "NetworkOut", "NetworkIn"}, {"CPUUtilization"}, 5) EXCEPT
     !.audits = {"RunInstances", "StartInstances"}],
  Idle("unattached_storage", {"Elastic Block Store", "EBS"},
       {"VolumeReadOps", "VolumeWriteOps", "VolumeIdleTime"}, {"VolumeReadOps", "VolumeWriteOps"}, 1),
  Idle("idle_database", {"Relational Database Service", "RDS", "Aurora"},
       {"DatabaseConnections", "CPUUtilization", "ReadIOPS"}, {"DatabaseConnections"}, 1),
  [Playbook("kubernetes_autoscaling", {"Elastic Kubernetes Service", "EKS"}, 20) EXCEPT
     !.metrics = {"cluster_node_count", "node_count", "pending_pods"},
     !.audits = {"UpdateNodegroupConfig", "CreateNodegroup"}],
  [Playbook("cross_region_transfer", {"Data Transfer"}, 25) EXCEPT !.metrics = {"BytesOut", "NetworkOut"}],
  CommitmentChange({"Savings Plans", "Reserved Instances"}),
  UntaggedResources >>

AzurePlaybooks == <<
  [Playbook("functions_retry_loop", {"Azure Functions", "Functions"}, 10) EXCEPT
     !.metrics = {"FunctionExecutionCount", "FunctionErrors", "FunctionExecutionUnits"},
     !.audits = {"deploy", "publish", "restart", "Microsoft.Web/sites"}],
  [Playbook("ai_inference", {"Cognitive Services", "Azure OpenAI"}, 15) EXCEPT
     !.metrics = {"ProcessedPromptTokens", "GeneratedTokens", "TokenTransaction"}],
  PricingChange,
  Idle("idle_compute", {"Virtual Machines"},
       {"Percentage CPU", "Network In Total", "Network Out Total"}, {"Percentage CPU"}, 5),
  Idle("unattached_storage", {"Storage", "Managed Disks"},
       {"Disk Read Operations/Sec", "Disk Write Operations/Sec", "Composite Disk Read Operations/sec"},
       {"Disk Read Operations/Sec", "Composite Disk Read Operations/sec"}, 1),
  Idle("idle_database", {"SQL Database", "Database for PostgreSQL", "Database for MySQL"},
       {"connection_successful", "cpu_percent", "dtu_consumption_percent"}, {"connection_successful"}, 1),
  [Playbook("kubernetes_autoscaling", {"Azure Kubernetes Service", "AKS"}, 20) EXCEPT
     !.metrics = {"node_count", "kube_node_status_allocatable_cpu_cores", "pending_pods"},
     !.audits = {"Microsoft.ContainerService", "agentPools"}],
  [Playbook("cross_region_transfer", {"Bandwidth"}, 25) EXCEPT !.metrics = {"Egress", "Ingress"}],
  CommitmentChange({"Reservation", "Savings Plan", "Reserved"}),
  UntaggedResources >>

GcpPlaybooks == <<
  [Playbook("api_key_abuse", {"Cloud Translation", "Cloud Vision", "Natural Language", "Speech-to-Text"}, 5)
   EXCEPT !.metrics = {"serviceruntime.googleapis.com/api/request_count", "request_count", "characters"},
          !.audits = {"Translate", "annotate", "recognize", "SetIamPolicy"}],
  [Playbook("ai_inference", {"Vertex AI"}, 15) EXCEPT
     !.metrics = {"prediction/online/prediction_count", "token_count", "request_count"}],
  PricingChange,
  [Idle("idle_compute", {"Compute Engine"},
        {"compute.googleapis.com/instance/cpu/utilization", "instance/network/sent_bytes_count"},
        {"compute.googleapis.com/instance/cpu/utilization"}, 5) EXCEPT
     !.audits = {"compute.instances.insert", "compute.instances.start"}],
  Idle("unattached_storage", {"Persistent Disk", "Compute Engine Storage"},
       {"instance/disk/read_ops_count", "instance/disk/write_ops_count"},
       {"instance/disk/read_ops_count", "instance/disk/write_ops_count"}, 1),
  Idle("idle_database", {"Cloud SQL"}, {"database/network/connections", "database/cpu/utilization"},
       {"database/network/connections"}, 1),
  [Playbook("kubernetes_autoscaling", {"Kubernetes Engine"}, 20) EXCEPT
     !.metrics = {"node_count", "container/cpu/request_cores", "pending_pods"},
     !.audits = {"container.clusters.update", "NodePool"}],
  [Playbook("cross_region_transfer", {"Networking", "Cloud NAT"}, 25) EXCEPT
     !.metrics = {"instance/network/sent_bytes_count", "nat/sent_bytes_count"}],
  CommitmentChange({"Committed Use", "Commitments"}),
  UntaggedResources >>

-----------------------------------------------------------------------------
\* A tag of the bill or of the inventory names an owner.
HasOwner(candidate, bundle) ==
  \/ candidate.owner # None
  \/ candidate.resource # None /\ bundle.resource # None /\ bundle.resource.owner # None

SeriesFor(candidate, bundle) == IF candidate.resource = None THEN <<>> ELSE bundle.series

\* window_average(start, end) <= limit, where no points at all average to zero.
AverageAtMost(series, period, limit) ==
  LET points == ElementsAt(series.points, {i \in 1..Len(series.points) :
                                             PeriodContains(period, series.points[i].day)})
  IN  SumSeq([i \in 1..Len(points) |-> points[i].value]) <= limit * Len(points)

LowUtilization(spec, candidate, bundle, current) ==
  \E i \in 1..Len(SeriesFor(candidate, bundle)) :
    LET series == bundle.series[i]
    IN  /\ MatchesAny(series.name, spec.idle)
        /\ AverageAtMost(series, current, spec.idleBelow)

\* Audit events of the current period: of the resource, or any for a service.
PlaybookEvents(spec, candidate, bundle, current) ==
  ElementsAt(bundle.events, {i \in 1..Len(bundle.events) :
    LET e == bundle.events[i]
    IN  /\ candidate.resource # None => candidate.resource \in e.resources
        /\ spec.audits # {} => MatchesAny(e.name, spec.audits)
        /\ PeriodContains(current, e.day)})

\* match_score is not None.
Applies(spec, candidate, bundle, current) ==
  \/ spec.fallback
  \/ /\ spec.services # {} => MatchesAny(candidate.service, spec.services)
     /\ spec.skus # {} => \E sku \in candidate.skus : MatchesAny(sku, spec.skus)
     /\ spec.newSpend => candidate.isNew
     /\ spec.rate => ~IsQuantityDriven(candidate)
     /\ ~spec.rate /\ spec.growth => IsQuantityDriven(candidate)
     /\ spec.unowned => ~HasOwner(candidate, bundle)
     /\ spec.idle # {} => LowUtilization(spec, candidate, bundle, current)

Points(condition, n) == IF condition THEN n ELSE 0

MatchPoints(spec, candidate, bundle, current) ==
  LET series == SeriesFor(candidate, bundle)
  IN  IF spec.fallback THEN 0
      ELSE Points(spec.services # {}, 3) + Points(spec.skus # {}, 3) + Points(spec.newSpend, 1)
             + Points(spec.rate, 3) + Points(spec.unowned, 2) + Points(spec.idle # {}, 2)
             + Points(\E i \in 1..Len(series) : MatchesAny(series[i].name, spec.metrics), 1)
             + Points(spec.audits # {} /\ PlaybookEvents(spec, candidate, bundle, current) # <<>>, 2)

\* Most points, then the smallest priority number, then the first of the table.
SelectPlaybook(candidate, specs, bundle, current) ==
  LET points(i) == MatchPoints(specs[i], candidate, bundle, current)
      fits == {i \in 1..Len(specs) : Applies(specs[i], candidate, bundle, current)}
      beats(i, j) == \/ points(i) > points(j)
                     \/ points(i) = points(j) /\ specs[i].priority < specs[j].priority
      best == {i \in fits : \A j \in fits : ~beats(j, i)}
  IN  IF fits = {} THEN FallbackPlaybook
      ELSE specs[CHOOSE i \in best : \A j \in best : i <= j]

\* How many pieces of evidence of each kind there are.
GatherEvidence(candidate, spec, bundle, current) ==
  LET series == SeriesFor(candidate, bundle)
      wanted == ElementsAt(series, {i \in 1..Len(series) :
                  spec.metrics = {} \/ MatchesAny(series[i].name, spec.metrics)})
      metrics == IF wanted = <<>> THEN series ELSE wanted
      events == PlaybookEvents(spec, candidate, bundle, current)
      quoted == SubSeq(events, 1, Smaller(Len(events), 3))
      known == candidate.resource # None
  IN  [cost |-> 1, usage |-> Points(candidate.used, 1),
       inventory |-> Points(known /\ bundle.resource # None, 1),
       metric |-> Smaller(Len(metrics), 3), audit |-> Len(quoted),
       recommendation |-> Points(known, Smaller(bundle.recommendations, 2)),
       freshness |-> Points(~bundle.complete, 1),
       untrusted |-> \/ \E i \in 1..Len(quoted) : quoted[i].untrusted
                     \/ bundle.flagged /\ known /\ (bundle.resource # None \/ bundle.recommendations > 0)]

EvidenceKinds == {"cost", "usage", "inventory", "metric", "audit", "recommendation", "freshness"}

EvidenceWeight ==
  [usage |-> 70, inventory |-> 50, metric |-> 120, audit |-> 180, recommendation |-> 50]

\* 1000 is how far a change stands clear that has quadrupled, or has no baseline.
Separation(candidate) ==
  IF candidate.percent = None THEN 1000
  ELSE Larger(0, Smaller(RoundDiv(candidate.percent, 300), 1000))

\* 1000 when the unit cost did what the playbook says, 500 when it is not known;
\* a drift of a quarter is a full one.
RateCoherence(spec, candidate) ==
  IF candidate.unitBefore = None \/ candidate.unitNow = None THEN 500
  ELSE LET was == candidate.unitBefore[1] * candidate.unitNow[2]
           is == candidate.unitNow[1] * candidate.unitBefore[2]
           quotient == IF was > 0 THEN RoundDiv(4000 * Magnitude(is - was), was)
                       ELSE 0 - RoundDiv(4000 * Magnitude(is - was), 0 - was)
           drift == Smaller(quotient, 1000)
       IN  IF was = 0 THEN 500 ELSE IF spec.rate THEN drift ELSE 1000 - drift

DerivedScore_EveryItemCounts(spec, evidence, candidate) ==
  LET kinds == DOMAIN EvidenceWeight
      weights == MapThenSumSet(LAMBDA k : Points(evidence[k] > 0, EvidenceWeight[k]), kinds)
      corroboration == MapThenSumSet(LAMBDA k : 25 * Larger(evidence[k] - 1, 0), kinds)
  IN  160 + weights + corroboration + RoundDiv(Separation(candidate), 10)
        + RoundDiv(60 * RateCoherence(spec, candidate), 1000)

\* The score before the ceiling of the playbook.
DerivedScore(spec, evidence, candidate) ==
  LET kinds == DOMAIN EvidenceWeight
      weights == MapThenSumSet(LAMBDA k : Points(evidence[k] > 0, EvidenceWeight[k]), kinds)
      corroboration == MapThenSumSet(LAMBDA k : 25 * Larger(evidence[k] - 1, 0), kinds)
  IN  160 + weights + Smaller(corroboration, 75) + RoundDiv(Separation(candidate), 10)
        + RoundDiv(60 * RateCoherence(spec, candidate), 1000)
        - Points(evidence.freshness > 0, 100) - Points(evidence.untrusted, 50)

ScoreConfidence(spec, evidence, candidate) ==
  Larger(50, Smaller(DerivedScore(spec, evidence, candidate), spec.ceiling))

\* A billing rule that is missing, stale or undated leaves the reading provisional.
RuleCap(citation) ==
  IF ~citation.found THEN 450 ELSE IF citation.stale \/ citation.from = None THEN 600 ELSE 1000

BuildFinding(candidate, spec, bundle, citation, current, cent) ==
  LET evidence == GatherEvidence(candidate, spec, bundle, current)
      flat == ~IsQuantityDriven(candidate) /\ spec.category # "pricing_change"
  IN  [candidate |-> candidate.key, category |-> spec.category,
       resources |-> {candidate.resource} \ {None},
       evidence |-> evidence, rules |-> IF citation.found THEN {citation} ELSE {},
       confidence |-> Smaller(Smaller(ScoreConfidence(spec, evidence, candidate), RuleCap(citation)),
                              IF flat THEN 700 ELSE 1000),
       increase |-> cent * RoundDiv(candidate.change, cent),
       uncertain |-> spec.fallback \/ RuleCap(citation) < 1000 \/ ~bundle.complete]

\* The usage date a rule is looked up for.
RuleDate(candidate, current) == IF candidate.spike = None THEN current.end ELSE candidate.spike

\* One finding per candidate the task asks for, in order, up to the limit, from the
\* bundle of its key; rules are those of the provider, read on the day today.
RunPlaybooks(candidates, wanted, limit, specs, bundles, rules, today, maxAge, current, cent) ==
  LET asked == ElementsAt(candidates, {i \in 1..Len(candidates) :
                                         wanted = {} \/ candidates[i].key \in wanted})
      finding(c) ==
        LET spec == SelectPlaybook(c, specs, bundles[c.key], current)
        IN  BuildFinding(c, spec, bundles[c.key],
                         Select(rules, c.service, spec.category, RuleDate(c, current), today, maxAge),
                         current, cent)
  IN  [i \in 1..Smaller(Len(asked), limit) |-> finding(asked[i])]
=============================================================================
