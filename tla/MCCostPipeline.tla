---------------------------- MODULE MCCostPipeline ----------------------------
(***************************************************************************)
(* The fixtures of MCAnalysis, uploads of a few rows in days of two hours, *)
(* and a bill of a few lines that a provider reports while it is read.     *)
(***************************************************************************)
EXTENDS MCAnalysis, CostPipeline

CONSTANTS t1, t2

MCAlphabet == <<"ec2", "nat", "s3", "vm">>
MCPlaybooksOf(slot) ==
  CASE slot = "aws" -> AwsPlaybooks [] slot = "azure" -> AzurePlaybooks [] slot = "gcp" -> GcpPlaybooks

MCRequests(source) ==
  {[records |-> <<>>, accounts |-> accounts, events |-> {}, current |-> Period(3, 4),
    baseline |-> Period(1, 2), config |-> Config, specs |-> <<>>, bundle |-> None,
    rules |-> <<Rule("new", 1, None, 9)>>, today |-> 10, available |-> None] :
     accounts \in IF source = "live" THEN {{}} ELSE {{}, {"main"}}}

Line(day, hour, cost) ==
  [service |-> "ec2", product |-> None, resource |-> "vm", owner |-> None, account |-> "main",
   currency |-> "USD", kind |-> "Usage", region |-> None, sku |-> None, day |-> day, hour |-> hour,
   ends |-> None, cost |-> cost, amortized |-> None, credits |-> None, quantity |-> 10]

AwsLines == {
  Line(1, 0, 2000), [Line(3, 0, 3000) EXCEPT !.region = "eu"],
  [Line(3, 1, 1500) EXCEPT !.region = "us"], [Line(3, 1, 1200) EXCEPT !.owner = "team", !.account = "other"],
  [Line(4, 0, 500) EXCEPT !.kind = "Tax", !.resource = None],
  [Line(4, 0, 0) EXCEPT !.service = "s3", !.resource = None, !.amortized = 4000],
  [Line(4, 1, 6000) EXCEPT !.service = None, !.product = "nat"],
  [Line(4, 1, 6000) EXCEPT !.service = None, !.resource = None],
  [Line(5, 0, 100) EXCEPT !.currency = "EUR", !.kind = "Odd"] }
AzureLines == {
  Line(1, None, 2000), [Line(4, None, 7000) EXCEPT !.kind = "Purchase"],
  [Line(4, None, 0 - 300) EXCEPT !.kind = "Refund"], [Line(3, None, 0) EXCEPT !.quantity = 0] }
GcpLines == {
  [Line(1, None, 2000) EXCEPT !.ends = 2], [Line(3, None, 4000) EXCEPT !.ends = 2, !.credits = 0 - 100],
  [Line(4, None, 3000) EXCEPT !.ends = 1], [Line(4, None, 0 - 700) EXCEPT !.ends = 2] }

Of(lines, n) == UNION {[1..m -> lines] : m \in 0..n}

File(slot, kind, format, rows) ==
  [type |-> TRUE, packing |-> "plain", secret |-> "nowhere", slot |-> slot, kind |-> kind,
   format |-> format, rows |-> rows]

\* A day of one hour before a whole one, and a last day cut short.
Quiet == File("aws", "cost", "aws",
              <<Line(2, 0, 2000), Line(3, 0, 5000), Line(3, 1, 5000), Line(4, 0, 9000)>>)
BillFiles ==
  {File("aws", "cost", "aws", rows) : rows \in Of(AwsLines, 3)}
  \union {File("azure", "cost", "azure", rows) : rows \in Of(AzureLines, 2)}
  \union {File("gcp", "cost", "gcp", rows) : rows \in Of(GcpLines, 3)}
  \union {[Quiet EXCEPT !.type = t, !.packing = p, !.secret = s, !.format = f] :
            t \in BOOLEAN, p \in {"plain", "gzip", "bomb", "truncated", "two members"},
            s \in {"nowhere", "inside", "outside"}, f \in {"aws", "gcp", None}}
  \union {File("aws", "cost", "aws", Quiet.rows \o Quiet.rows)}

Identity(type) ==
  [type |-> type, issuer |-> "alice", arn |-> None, issuerName |-> None, invokedBy |-> None,
   user |-> None, principal |-> "bob", account |-> IF type = "Root" THEN "alice" ELSE None]
Counts(total, in, out) == [total |-> total, input |-> in, output |-> out]
Trail(id, type, day, arns, counts) ==
  [id |-> id, name |-> "RunInstances", day |-> day, source |-> "ec2", identity |-> Identity(type),
   arns |-> arns, counts |-> counts]

AuditFiles == {
  File("aws", "audit", "cloudtrail",
       <<Trail("e1", "AssumedRole", 4, <<"vm">>, <<Counts(None, 3, None), Counts(7, None, 1)>>),
         Trail("e2", "AWSService", 3, <<"vm", None>>, <<Counts(None, None, 2)>>),
         Trail(None, "Root", 4, <<>>, <<>>), Trail("e3", "Other", 4, <<"arn_vm">>, <<>>)>>),
  File("aws", "audit", "items", <<Event("e1", "alice", {"vm"}, 4, None), Event("e2", None, {}, 5, None)>>),
  File("aws", "audit", "items", <<>>), File("gcp", "audit", "cloudtrail", <<>>),
  File("aws", "audit", None, <<>>),
  File("aws", "audit", "cloudtrail", [i \in 1..5 |-> Trail("e1", "Root", 4, <<>>, <<>>)]) }

MCUploads ==
  {[cost |-> bill, audit |-> None] : bill \in BillFiles}
  \union {[cost |-> Quiet, audit |-> trail] : trail \in AuditFiles}

\* Some usage of the third day comes after all that there is of the fourth; of AWS there is
\* at first nothing but usage of today, which no window has; Azure reports in order.
LateUsage == <<[Line(1, None, 5000) EXCEPT !.ends = 2], [Line(3, None, 4000) EXCEPT !.ends = 1],
               [Line(4, None, 500) EXCEPT !.ends = 2], [Line(3, None, 3000) EXCEPT !.ends = 2, !.credits = 0 - 100]>>
InDays(rows) == [i \in 1..Len(rows) |-> [rows[i] EXCEPT !.ends = None]]
InOrder == <<LateUsage[1], LateUsage[2], LateUsage[4], LateUsage[3]>>
MCLedgers == {
  [format |-> "aws", rows |-> InDays(SubSeq(LateUsage, 3, 4)), known |-> 1, detailed |-> FALSE],
  [format |-> "azure", rows |-> InDays(InOrder), known |-> 4, detailed |-> FALSE],
  [format |-> "gcp", rows |-> LateUsage, known |-> 3, detailed |-> TRUE] }

MCCallers == {"orchestrator", "worker", t1, t2}
Tools == Permutations({t1, t2})
MCAsked == {{Period(3, 4)}, {Period(0 - 1, 4)}, {Period(9, 9)}}
=============================================================================
