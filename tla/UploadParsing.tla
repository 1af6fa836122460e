---------------------------- MODULE UploadParsing ----------------------------
(***************************************************************************)
(* What the gateway makes of an uploaded file (datasets ingest.py) and the *)
(* parsers of the three billing exports (focus parsers.py).  A file is     *)
(*   [type, packing, secret, slot, kind, format, rows]:                    *)
(* whether its media type is accepted, how it is packed, where a field     *)
(* named like a credential stands ("nowhere", "outside" or "inside" the    *)
(* packing), the provider and kind of the URL, what its content is (None   *)
(* for neither text, CSV nor JSON that is known), and its rows.  A row of  *)
(* a bill is                                                               *)
(*   [service, product, resource, owner, account, currency, kind, region,  *)
(*    sku, day, hour, ends, cost, amortized, credits, quantity],           *)
(* None where a column is empty; hour is the start hour of AWS, ends the   *)
(* hours from the row's midnight to the end of its usage of GCP.  An       *)
(* instant is a number of hours; that of the end of a day is its 24:00.    *)
(***************************************************************************)
EXTENDS PeriodComparison

CONSTANTS
  HoursPerDay,   \* HOURS_PER_DAY
  MaxRows,       \* upload_max_rows
  Alphabet       \* every service and resource, in alphabetical order

ASSUME HoursAssumption == HoursPerDay \in Nat \ {0}

Refused(code) == [accepted |-> FALSE, code |-> code]
Amount(value) == FirstOf(value, 0)
EndOfDay(day) == (day + 1) * HoursPerDay

-----------------------------------------------------------------------------
\* CUR line item types and Cost Explorer record types, and Azure's charge types.
AwsChargeTypes ==
  [Usage |-> "usage", DiscountedUsage |-> "usage", SavingsPlanCoveredUsage |-> "usage",
   SavingsPlanRecurringFee |-> "purchase", RIPurchase |-> "purchase", Fee |-> "purchase",
   RIFee |-> "purchase", Tax |-> "tax", Credit |-> "credit", Refund |-> "credit",
   SavingsPlanNegation |-> "adjustment", EDPDiscount |-> "adjustment",
   EnterpriseDiscountProgramDiscount |-> "adjustment", BundledDiscount |-> "adjustment"]
AzureChargeTypes ==
  [Usage |-> "usage", Purchase |-> "purchase", Tax |-> "tax", Refund |-> "credit",
   UnusedReservation |-> "usage", Adjustment |-> "adjustment"]

ChargeCategory(types, kind) ==
  LET named == FirstOf(kind, "Usage") IN IF named \in DOMAIN types THEN types[named] ELSE "unknown"

\* What all three parsers do alike.
NewRecord(row, service, category, billed, effective) ==
  [service |-> FirstOf(service, "unknown"), region |-> row.region, resource |-> row.resource,
   owner |-> row.owner, actor |-> None, sku |-> row.sku, day |-> row.day, cost |-> effective,
   billed |-> billed, quantity |-> Amount(row.quantity),
   account |-> FirstOf(row.account, "unknown"), category |-> category,
   currency |-> FirstOf(row.currency, "USD")]

AwsRecord(row) ==
  NewRecord(row, FirstOf(row.service, row.product), ChargeCategory(AwsChargeTypes, row.kind),
            Amount(row.cost), FirstOf(row.amortized, Amount(row.cost)))
AzureRecord(row) ==
  NewRecord(row, row.service, ChargeCategory(AzureChargeTypes, row.kind),
            Amount(row.cost), FirstOf(row.amortized, Amount(row.cost)))
\* Credits come on the row they are for; a row that costs less than nothing is one.
GcpRecord(row) ==
  NewRecord(row, row.service, IF Amount(row.cost) >= 0 THEN "usage" ELSE "credit",
            Amount(row.cost), Amount(row.cost) + Amount(row.credits))

Parse(format, rows) ==
  [i \in 1..Len(rows) |->
     CASE format = "aws"   -> AwsRecord(rows[i])
       [] format = "azure" -> AzureRecord(rows[i])
       [] format = "gcp"   -> GcpRecord(rows[i])]
-----------------------------------------------------------------------------
\* _validate_cost_records: a row without a service or with nothing in it is rejected.
Usable(record) ==
  /\ record.service # "unknown"
  /\ ~(record.billed = 0 /\ record.cost = 0 /\ record.quantity = 0)

Currencies(records) == {records[i].currency : i \in 1..Len(records)}

AggregationKey_Resources(record) ==
  <<record.account, record.day, record.service, record.resource, record.category, record.currency>>

\* AGGREGATION_FIELDS and the tags.
AggregationKey(record) ==
  <<record.account, record.day, record.service, record.sku, record.region, record.resource,
    record.category, record.currency, record.owner>>

Alphabetical(name) == CHOOSE i \in DOMAIN Alphabet : Alphabet[i] = name
\* resource_key(): what names no resource is sorted by its service.
SortKey(record) ==
  <<record.day, Alphabetical(record.service), Alphabetical(FirstOf(record.resource, record.service))>>
SortsBefore(k, l) ==
  \E n \in 1..3 : k[n] < l[n] /\ \A m \in 1..(n - 1) : k[m] = l[m]

AddToBucket(buckets, record) ==
  LET at == {i \in 1..Len(buckets) : AggregationKey(buckets[i]) = AggregationKey(record)}
  IN  IF at = {} THEN Append(buckets, record)
      ELSE [i \in 1..Len(buckets) |->
              IF i \notin at THEN buckets[i]
              ELSE [buckets[i] EXCEPT !.quantity = @ + record.quantity,
                                      !.billed = @ + record.billed, !.cost = @ + record.cost]]

\* One row per key and day, in the order of (day, service, resource), equals as they came.
AggregateCostRecords(records) ==
  LET after[n \in 0..Len(records)] == IF n = 0 THEN <<>> ELSE AddToBucket(after[n - 1], records[n])
      buckets == after[Len(records)]
      places == 1..Len(buckets)
      order == Ordering(places, {p \in places \X places :
                 \/ SortsBefore(SortKey(buckets[p[1]]), SortKey(buckets[p[2]]))
                 \/ SortKey(buckets[p[1]]) = SortKey(buckets[p[2]]) /\ p[1] < p[2]})
  IN  [i \in 1..Len(buckets) |-> buckets[order[i]]]
-----------------------------------------------------------------------------
Largest(S) == CHOOSE x \in S : \A y \in S : y <= x
DaysOf(records) == {records[i].day : i \in 1..Len(records)}
LastDay(records) == Largest(DaysOf(records))

HourBuckets(rows, day) ==
  {rows[i].hour : i \in {j \in 1..Len(rows) : rows[j].day = day /\ rows[j].hour # None}}

ObservedGrain_QuietestDay(counts) == CHOOSE n \in counts : \A m \in counts : n <= m

\* What a complete day of this file looks like.
ObservedGrain(counts) == Largest(counts)

\* A short last day of an hourly file is partial; in a coarser file there is no telling.
AwsDataThrough(rows, records) ==
  LET last == LastDay(records)
      seen(day) == Cardinality(HourBuckets(rows, day))
      earlier == {day \in DaysOf(rows) : seen(day) > 0 /\ day < last}
      grain == ObservedGrain({seen(day) : day \in earlier})
      partial == earlier # {} /\ grain >= HoursPerDay /\ seen(last) < grain
  IN  IF partial THEN EndOfDay(Largest(earlier)) ELSE EndOfDay(last)

\* Usage of the last day must reach its midnight.
GcpDataThrough(rows, records) ==
  LET last == LastDay(records)
      stamps == {rows[i].day * HoursPerDay + rows[i].ends :
                   i \in {j \in 1..Len(rows) : rows[j].ends # None}}
      ends == {stamp \in stamps : stamp >= last * HoursPerDay}
      earlier == {day \in DaysOf(records) : day < last}
  IN  IF ends = {} \/ Largest(ends) >= EndOfDay(last) THEN EndOfDay(last)
      ELSE IF earlier # {} THEN EndOfDay(Largest(earlier)) ELSE Largest(ends)

AzureDataThrough(records) == EndOfDay(LastDay(records))

DataThrough(format, rows, records) ==
  CASE format = "aws"   -> AwsDataThrough(rows, records)
    [] format = "azure" -> AzureDataThrough(records)
    [] format = "gcp"   -> GcpDataThrough(rows, records)
-----------------------------------------------------------------------------
\* parse_cost_source.
ParseCostSource(file) ==
  LET records == Parse(file.format, file.rows)
      usable == ElementsAt(records, {i \in 1..Len(records) : Usable(records[i])})
  IN  IF file.format \notin {"aws", "azure", "gcp"} \/ file.format # file.slot
      THEN Refused("provider_format_mismatch")
      ELSE IF Len(file.rows) > MaxRows THEN Refused("upload_too_large")
      ELSE IF usable = <<>> THEN Refused("unprocessable_upload")
      ELSE IF Cardinality(Currencies(usable)) > 1 THEN Refused("mixed_currency")
      ELSE [accepted |-> TRUE, items |-> AggregateCostRecords(usable),
            through |-> DataThrough(file.format, file.rows, records),
            currency |-> usable[1].currency]

FirstNamed(names) ==
  LET named == {i \in DOMAIN names : names[i] # None}
  IN  IF named = {} THEN None ELSE names[CHOOSE i \in named : \A j \in named : i <= j]

\* The principal of a CloudTrail record: of a session the role that issued it.
CloudTrailActor(identity) ==
  CASE identity.type = "AssumedRole" -> FirstNamed(<<identity.issuer, identity.arn, identity.issuerName>>)
    [] identity.type = "AWSService"  -> identity.invokedBy
    [] identity.type \in {"IAMUser", "Root"} ->
         FirstNamed(<<identity.arn, identity.user, identity.account>>)
    [] OTHER -> FirstNamed(<<identity.arn, identity.user, identity.principal, identity.account>>)

\* The first of the containers that has a count gives it; a total goes before its parts.
TokenCount(counts) ==
  LET Read(field) == FirstNamed([i \in 1..Len(counts) |-> counts[i][field]])
      parts == {Read("input"), Read("output")} \ {None}
  IN  IF Read("total") # None THEN Read("total")
      ELSE IF parts = {} THEN None ELSE Amount(Read("input")) + Amount(Read("output"))

\* A record is [id, name, day, source, identity, arns, counts].
HasRequired(record) ==
  record.id # None /\ record.name # None /\ record.day # None /\ record.source # None

CloudTrailEvent(record) ==
  [id |-> record.id, name |-> record.name, day |-> record.day,
   actor |-> CloudTrailActor(record.identity),
   resources |-> {record.arns[i] : i \in 1..Len(record.arns)} \ {None},
   tokens |-> TokenCount(record.counts)]

\* A file of CloudCause's own shape holds the events themselves.
EvidenceItems(file) ==
  IF file.format = "cloudtrail"
  THEN LET sound == ElementsAt(file.rows, {i \in 1..Len(file.rows) : HasRequired(file.rows[i])})
       IN  [i \in 1..Len(sound) |-> CloudTrailEvent(sound[i])]
  ELSE file.rows

\* parse_evidence_source, for the audit trail.
ParseAuditSource(file) ==
  LET events == EvidenceItems(file)
  IN  IF file.format \notin {"cloudtrail", "items"} THEN Refused("unprocessable_upload")
      ELSE IF file.format = "cloudtrail" /\ (file.slot # "aws" \/ file.kind # "audit")
      THEN Refused("provider_format_mismatch")
      ELSE IF Len(file.rows) > MaxRows THEN Refused("upload_too_large")
      ELSE IF events = <<>> THEN Refused("unprocessable_upload")
      ELSE [accepted |-> TRUE, items |-> events, through |-> EndOfDay(LastDay(events)) - 1,
            currency |-> None]

\* A single gzip member within the limits is expanded, what is not packed passes through.
DecompressIfNeeded(file) ==
  CASE file.packing \in {"plain", "gzip"} -> "ok"
    [] file.packing = "bomb" -> "upload_too_large"
    [] file.packing \in {"truncated", "two members"} -> "unprocessable_upload"

\* parse_source, after the media type: credentials are looked for before and after the
\* file is expanded.
ParseSource(file) ==
  IF ~file.type THEN Refused("unsupported_content_type")
  ELSE IF file.secret = "outside" THEN Refused("credential_shaped_field")
  ELSE IF DecompressIfNeeded(file) # "ok" THEN Refused(DecompressIfNeeded(file))
  ELSE IF file.secret = "inside" THEN Refused("credential_shaped_field")
  ELSE IF file.kind = "cost" THEN ParseCostSource(file) ELSE ParseAuditSource(file)
=============================================================================
