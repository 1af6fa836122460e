------------------------------ MODULE BillProofs ------------------------------
(***************************************************************************)
(* What is lost or given away on the way from a bill to an answer, for any *)
(* data, callers, periods and limits.                                      *)
(*                                                                         *)
(* Missing usage is known: a bundle is complete only if what it was read   *)
(* from reaches to the end of the current period.                          *)
(*                                                                         *)
(* However a bill is cut, the groups add up to it, also by actor: the      *)
(* parts of a row come to the row, and a part has its witness.             *)
(*                                                                         *)
(* Aggregation is lossless: two lists of records with the same keys, and   *)
(* the same amounts for every set of keys, answer every question alike.    *)
(***************************************************************************)
EXTENDS CostPipelineProofs

USE LiveAssumption, HoursAssumption
-----------------------------------------------------------------------------
(* What an upload shows to be missing. *)

LEMMA SomeAreThere ==
  ASSUME NEW s, IsList(s), s # <<>>
  PROVE  Len(s) \in Nat /\ Len(s) # 0
<1>1. Len(s) \in Nat
  BY DEF IsList
<1>2. SUFFICES ASSUME Len(s) = 0 PROVE FALSE
  BY <1>1
<1>3. s = [i \in 1..0 |-> s[i]]
  BY <1>2 DEF IsList
<1>4. s = <<>>
  BY <1>3
<1> QED BY <1>4

\* The days of rows that are there have a last one.
LEMMA LastOfDays ==
  ASSUME NEW rows, IsList(rows), rows # <<>>, \A i \in 1..Len(rows) : rows[i].day \in Int
  PROVE  /\ IsFiniteSet(DaysOf(rows)) /\ DaysOf(rows) \in SUBSET Int
         /\ LastDay(rows) \in Int /\ LastDay(rows) \in DaysOf(rows)
         /\ \A day \in DaysOf(rows) : day <= LastDay(rows)
<1> DEFINE day == [i \in 1..Len(rows) |-> rows[i].day]
           E == {day[i] : i \in 1..Len(rows)}
<1>1. Len(rows) \in Nat /\ Len(rows) # 0
  BY SomeAreThere
<1>2. IsFiniteSet(E)
  <2>1. IsFiniteSet(1..Len(rows))
    BY <1>1, UpTo
  <2> HIDE DEF day
  <2> QED BY <2>1, ImageIsFinite
<1>3. E = DaysOf(rows)
  BY DEF DaysOf
<1>4. E \in SUBSET Int /\ E # {}
  BY <1>1
<1> HIDE DEF E
<1>5. Largest(E) \in E /\ \A y \in E : y <= Largest(E)
  BY <1>2, <1>4, HasLargest
<1> QED BY <1>2, <1>3, <1>4, <1>5 DEF LastDay

LEMMA ParsedDays ==
  ASSUME NEW format \in {"aws", "azure", "gcp"}, NEW rows, IsLedger(rows)
  PROVE  DaysOf(Parse(format, rows)) = DaysOf(rows) /\ LastDay(Parse(format, rows)) = LastDay(rows)
<1> DEFINE records == Parse(format, rows)
<1>1. Len(records) = Len(rows)
  BY ParsedOK
<1>2. \A i \in 1..Len(rows) : records[i].day = rows[i].day
  BY DEF Parse, AwsRecord, AzureRecord, GcpRecord, NewRecord
<1> HIDE DEF records
<1>3. DaysOf(records) = DaysOf(rows)
  BY <1>1, <1>2 DEF DaysOf
<1> QED BY <1>3 DEF LastDay, records

LEMMA HoursCounted ==
  ASSUME NEW rows, IsList(rows), NEW day
  PROVE  Cardinality(HourBuckets(rows, day)) \in Nat
<1> DEFINE J == {j \in 1..Len(rows) : rows[j].day = day /\ rows[j].hour # None}
           hour == [i \in J |-> rows[i].hour]
<1>1. IsFiniteSet(J)
  <2>1. IsFiniteSet(1..Len(rows)) /\ J \in SUBSET (1..Len(rows))
    BY UpTo DEF IsList
  <2> QED BY <2>1, FS_Subset
<1>2. IsFiniteSet({hour[i] : i \in J})
  <2> HIDE DEF hour, J
  <2> QED BY <1>1, ImageIsFinite
<1>3. {hour[i] : i \in J} = HourBuckets(rows, day)
  BY DEF HourBuckets
<1> QED BY <1>2, <1>3, FS_CardinalityType

\* An hourly file that stops in the day it ends with reaches no further than a day before.
LEMMA HoursMissing ==
  ASSUME NEW rows, IsLedger(rows), rows # <<>>, NEW records, LastDay(records) = LastDay(rows)
  PROVE  LET last == LastDay(rows)
             through == AwsDataThrough(rows, records)
             seen(day) == Cardinality(HourBuckets(rows, day))
         IN  /\ through \in Int /\ through <= EndOfDay(last)
             /\ seen(last) < HoursPerDay /\ (\E day \in DaysOf(rows) : day < last /\ seen(day) = HoursPerDay)
                  => through < EndOfDay(last)
<1> DEFINE last == LastDay(rows)
           seen(day) == Cardinality(HourBuckets(rows, day))
           earlier == {day \in DaysOf(rows) : seen(day) > 0 /\ day < last}
           counts == {seen(day) : day \in earlier}
           grain == ObservedGrain(counts)
           partial == earlier # {} /\ grain >= HoursPerDay /\ seen(last) < grain
           through == AwsDataThrough(rows, records)
<1>1. IsList(rows) /\ \A i \in 1..Len(rows) : rows[i].day \in Int
  BY DEF IsLedger, IsRow
<1>2. /\ IsFiniteSet(DaysOf(rows)) /\ DaysOf(rows) \in SUBSET Int /\ last \in Int
      /\ \A day \in DaysOf(rows) : day <= last
  BY <1>1, LastOfDays
<1>3. \A day : seen(day) \in Nat
  BY <1>1, HoursCounted
<1>4. through = IF partial THEN EndOfDay(Largest(earlier)) ELSE EndOfDay(last)
  BY DEF AwsDataThrough
<1>5. IsFiniteSet(earlier) /\ earlier \in SUBSET Int
  <2>1. earlier \in SUBSET DaysOf(rows)
    OBVIOUS
  <2> QED BY <1>2, <2>1, FS_Subset
<1>6. earlier # {} => Largest(earlier) \in Int /\ Largest(earlier) < last
  <2>1. \A day \in earlier : day < last /\ day \in Int
    BY <1>5
  <2> HIDE DEF earlier
  <2>2. earlier # {} => Largest(earlier) \in earlier
    BY <1>5, HasLargest
  <2> QED BY <2>1, <2>2
<1>7. ASSUME earlier # {} PROVE grain \in counts /\ \A n \in counts : n <= grain
  <2> DEFINE count == [day \in earlier |-> seen(day)]
  <2>1. IsFiniteSet({count[day] : day \in earlier})
    <3> HIDE DEF count, earlier
    <3> QED BY <1>5, ImageIsFinite
  <2>2. {count[day] : day \in earlier} = counts
    OBVIOUS
  <2>3. counts \in SUBSET Int /\ counts # {}
    <3> HIDE DEF earlier, seen
    <3>1. \A day : seen(day) \in Int
      BY <1>3
    <3> QED BY <1>7, <3>1
  <2> HIDE DEF counts, count
  <2>4. IsFiniteSet(counts)
    BY <2>1, <2>2
  <2> QED BY <2>3, <2>4, HasLargest DEF ObservedGrain
<1>8. HoursPerDay \in Nat \ {0}
  BY HoursAssumption
<1>9. EndOfDay(last) \in Int
  BY <1>2, DaysEndInOrder
<1>10. earlier # {} => /\ EndOfDay(Largest(earlier)) \in Int
                       /\ EndOfDay(Largest(earlier)) < EndOfDay(last)
  <2> DEFINE before == Largest(earlier)
             H == HoursPerDay
  <2> SUFFICES ASSUME earlier # {} PROVE EndOfDay(before) \in Int /\ EndOfDay(before) < EndOfDay(last)
    OBVIOUS
  <2>1. before \in Int /\ before < last
    BY <1>6
  <2> HIDE DEF before
  <2>2. EndOfDay(before) \in Int /\ EndOfDay(before) <= last * H /\ EndOfDay(last) = last * H + H
    BY <1>2, <2>1, DaysEndInOrder
  <2>3. last * H \in Int /\ H > 0 /\ H \in Int
    BY <1>2, <1>8
  <2> QED BY <2>2, <2>3
<1>11. ASSUME seen(last) < HoursPerDay, NEW day \in DaysOf(rows), day < last, seen(day) = HoursPerDay
       PROVE  partial
  <2>1. day \in earlier /\ seen(day) \in counts
    BY <1>8, <1>11
  <2>2. HoursPerDay <= grain /\ grain \in Int
    <3>1. \A n \in counts : n \in Int
      BY <1>3
    <3> QED BY <1>7, <1>11, <2>1, <3>1
  <2> QED BY <1>3, <1>8, <1>11, <2>1, <2>2
<1> HIDE DEF partial, earlier, counts, grain, through, last
<1> QED
  <2>1. through \in Int /\ through <= EndOfDay(last)
    <3>1. CASE partial
      <4>1. earlier # {}
        BY <3>1 DEF partial
      <4> QED BY <1>4, <1>9, <1>10, <3>1, <4>1
    <3>2. CASE ~partial
      BY <1>4, <1>9, <3>2
    <3> QED BY <3>1, <3>2
  <2>2. partial => through < EndOfDay(last)
    <3> SUFFICES ASSUME partial PROVE through < EndOfDay(last)
      OBVIOUS
    <3>1. earlier # {}
      BY DEF partial
    <3> QED BY <1>4, <1>10, <3>1
  <2> QED BY <1>11, <2>1, <2>2 DEF last, through

\* The rows of an export say when their usage was over, within a day of the day it began on.
EndsNear(row) == row.ends = None \/ (row.ends \in Nat /\ row.ends < 2 * HoursPerDay)

\* An export with usage of its last day, none of which lasts to midnight, reaches no further.
LEMMA UsageCutShort ==
  ASSUME NEW rows, IsLedger(rows), rows # <<>>, \A i \in 1..Len(rows) : EndsNear(rows[i]),
         NEW records, LastDay(records) = LastDay(rows), DaysOf(records) = DaysOf(rows)
  PROVE  LET last == LastDay(rows)
             through == GcpDataThrough(rows, records)
             mine == {rows[i].ends : i \in {j \in 1..Len(rows) : rows[j].day = last /\ rows[j].ends # None}}
         IN  /\ through \in Int /\ through <= EndOfDay(last)
             /\ mine # {} /\ (\A end \in mine : end < HoursPerDay) => through < EndOfDay(last)
<1> DEFINE H == HoursPerDay
           last == LastDay(rows)
           J == {j \in 1..Len(rows) : rows[j].ends # None}
           stamp == [i \in J |-> rows[i].day * H + rows[i].ends]
           stamps == {stamp[i] : i \in J}
           ends == {x \in stamps : x >= last * H}
           earlier == {day \in DaysOf(rows) : day < last}
           through == GcpDataThrough(rows, records)
           mine == {rows[i].ends : i \in {j \in 1..Len(rows) : rows[j].day = last /\ rows[j].ends # None}}
<1>1. IsList(rows) /\ \A i \in 1..Len(rows) : rows[i].day \in Int
  BY DEF IsLedger, IsRow
<1>2. /\ IsFiniteSet(DaysOf(rows)) /\ DaysOf(rows) \in SUBSET Int /\ last \in Int
      /\ \A day \in DaysOf(rows) : day <= last
  BY <1>1, LastOfDays
<1>3. H \in Nat /\ H > 0
  BY HoursAssumption
<1>4. last * H \in Int /\ EndOfDay(last) \in Int /\ EndOfDay(last) = last * H + H
  <2>1. last * H \in Int
    BY <1>2, <1>3
  <2> HIDE DEF last
  <2> QED BY <1>2, <2>1, DaysEndInOrder
<1>5. through = IF ends = {} \/ Largest(ends) >= EndOfDay(last) THEN EndOfDay(last)
                ELSE IF earlier # {} THEN EndOfDay(Largest(earlier)) ELSE Largest(ends)
  <2>1. {rows[i].day * HoursPerDay + rows[i].ends : i \in {j \in 1..Len(rows) : rows[j].ends # None}} = stamps
    OBVIOUS
  <2> HIDE DEF stamps
  <2> QED BY <2>1 DEF GcpDataThrough
<1>6. ASSUME NEW i \in J
      PROVE  /\ rows[i].ends \in Nat /\ rows[i].ends < 2 * H /\ rows[i].day \in Int /\ rows[i].day <= last
             /\ stamp[i] \in Int /\ stamp[i] = rows[i].day * H + rows[i].ends
  <2>1. rows[i].ends \in Nat /\ rows[i].ends < 2 * H
    BY DEF EndsNear
  <2>2. rows[i].day \in Int /\ rows[i].day \in DaysOf(rows)
    BY <1>1 DEF DaysOf
  <2>3. rows[i].day * H \in Int
    BY <1>3, <2>2
  <2> QED BY <1>2, <2>1, <2>2, <2>3
<1>7. IsFiniteSet(J)
  <2>1. IsFiniteSet(1..Len(rows)) /\ J \in SUBSET (1..Len(rows))
    BY <1>1, UpTo DEF IsList
  <2> QED BY <2>1, FS_Subset
<1>8. IsFiniteSet(ends) /\ ends \in SUBSET Int
  <2>1. IsFiniteSet(stamps)
    <3> HIDE DEF stamp, J
    <3> QED BY <1>7, ImageIsFinite
  <2>2. \A i \in J : stamp[i] \in Int
    BY <1>6
  <2>3. ends \in SUBSET stamps /\ stamps \in SUBSET Int
    <3> HIDE DEF stamp, J
    <3> QED BY <2>2
  <2> HIDE DEF ends, stamps
  <2> QED BY <2>1, <2>3, FS_Subset
<1>9. \A i \in J : stamp[i] >= last * H => stamp[i] \in ends
  OBVIOUS
<1>10. \A x \in ends : \E i \in J : x = stamp[i]
  OBVIOUS
<1>11. mine # {} => \E i \in J : rows[i].day = last
  OBVIOUS
<1>12. \A i \in J : rows[i].day = last => rows[i].ends \in mine
  OBVIOUS
<1>13. earlier # {} => EndOfDay(Largest(earlier)) \in Int /\ EndOfDay(Largest(earlier)) < EndOfDay(last)
  <2> DEFINE e == Largest(earlier)
  <2> SUFFICES ASSUME earlier # {} PROVE EndOfDay(e) \in Int /\ EndOfDay(e) < EndOfDay(last)
    OBVIOUS
  <2>1. earlier \in SUBSET DaysOf(rows)
    OBVIOUS
  <2>2. IsFiniteSet(earlier) /\ earlier \in SUBSET Int
    <3> HIDE DEF earlier
    <3> QED BY <1>2, <2>1, FS_Subset
  <2>3. e \in earlier
    <3> HIDE DEF earlier
    <3> QED BY <2>2, HasLargest
  <2>4. e \in Int /\ e < last
    BY <2>2, <2>3
  <2> HIDE DEF e
  <2>5. EndOfDay(e) \in Int /\ EndOfDay(e) <= last * H
    <3> HIDE DEF last
    <3> QED BY <1>2, <2>4, DaysEndInOrder
  <2> QED BY <1>3, <1>4, <2>5
<1> HIDE DEF stamp, stamps, mine, J, earlier
<1>14. ends # {} => Largest(ends) \in ends /\ Largest(ends) \in Int
  <2> HIDE DEF ends
  <2> QED BY <1>8, HasLargest
<1>15. ASSUME mine # {}, \A end \in mine : end < H PROVE ends # {} /\ Largest(ends) < EndOfDay(last)
  <2>1. PICK i \in J : rows[i].day = last
    BY <1>11, <1>15
  <2>2. stamp[i] \in ends
    <3>1. stamp[i] >= last * H
      BY <1>4, <1>6, <2>1
    <3> QED BY <1>9, <3>1
  <2>3. PICK l \in J : Largest(ends) = stamp[l]
    BY <1>10, <1>14, <2>2
  <2>4. stamp[l] < EndOfDay(last)
    <3>1. CASE rows[l].day = last
      <4>1. rows[l].ends < H
        BY <1>12, <1>15, <3>1
      <4> QED BY <1>3, <1>4, <1>6, <3>1, <4>1
    <3>2. CASE rows[l].day < last
      <4> DEFINE d == rows[l].day
      <4>0. d \in Int /\ d < last /\ stamp[l] = d * H + rows[l].ends /\ rows[l].ends \in Nat /\ rows[l].ends < 2 * H
        BY <1>6, <3>2
      <4> HIDE DEF d
      <4>1. EndOfDay(d) <= last * H /\ EndOfDay(d) = d * H + H
        <5> HIDE DEF last
        <5> QED BY <1>2, <4>0, DaysEndInOrder
      <4>2. d * H \in Int
        BY <1>3, <4>0
      <4> HIDE DEF last
      <4> QED BY <1>3, <1>4, <4>0, <4>1, <4>2
    <3> QED BY <1>2, <1>6, <3>1, <3>2
  <2> QED BY <2>2, <2>3, <2>4
<1> HIDE DEF ends, through
<1>16. through \in Int /\ through <= EndOfDay(last)
  BY <1>4, <1>5, <1>13, <1>14
<1>17. mine # {} /\ (\A end \in mine : end < H) => through < EndOfDay(last)
  BY <1>4, <1>5, <1>13, <1>14, <1>15
<1> QED BY <1>16, <1>17 DEF through, mine, last

\* A bill that is taken for a dataset reaches no further than what it holds,
LEMMA BillReaches ==
  ASSUME NEW file, FileOK(file), \A i \in 1..Len(file.rows) : EndsNear(file.rows[i]),
         ParseSource(file).accepted, input.current.end \in Int
  PROVE  /\ ParseSource(file).through \in Int
         /\ FileHasGap(file) => ParseSource(file).through < EndOfDay(input.current.end)
<1> DEFINE rows == file.rows
           records == Parse(file.format, rows)
           usable == ElementsAt(records, {i \in 1..Len(records) : Usable(records[i])})
           last == LastDay(rows)
           through == DataThrough(file.format, rows, records)
           end == input.current.end
<1>1. \A code : ~Refused(code).accepted
  BY DEF Refused
<1>2. ParseSource(file) = ParseCostSource(file)
  BY <1>1 DEF ParseSource, FileOK
<1>3. file.format \in {"aws", "azure", "gcp"} /\ ParseSource(file).through = through /\ usable # <<>>
  BY <1>1, <1>2 DEF ParseCostSource
<1>4. IsLedger(rows) /\ IsList(rows)
  BY DEF FileOK, IsLedger
<1>5. rows # <<>>
  <2> SUFFICES ASSUME rows = <<>> PROVE FALSE
    OBVIOUS
  <2>1. Len(records) = 0 /\ IsList(records)
    <3>1. Len(rows) = 0
      OBVIOUS
    <3> QED BY <1>3, <1>4, <3>1, ParsedOK
  <2>2. {i \in 1..Len(records) : Usable(records[i])} = {}
    BY <2>1
  <2>3. usable = ElementsAt(records, {})
    BY <2>2
  <2>4. Keeps(ElementsAt(records, {}), records, {})
    <3>1. {} \in SUBSET (1..Len(records))
      OBVIOUS
    <3> HIDE DEF records
    <3> QED BY <2>1, <3>1, Filtered DEF IsList
  <2>5. IsList(usable) /\ Len(usable) = 0
    <3> HIDE DEF records, usable
    <3>1. Cardinality({}) = 0
      BY FS_EmptySet
    <3> QED BY <2>3, <2>4, <3>1, KeptIsList
  <2>6. usable = <<>>
    <3> HIDE DEF usable
    <3> QED BY <2>5, SomeAreThere
  <2> QED BY <1>3, <2>6
<1>6. LastDay(records) = last /\ DaysOf(records) = DaysOf(rows)
  BY <1>3, <1>4, ParsedDays
<1>7. last \in Int /\ EndOfDay(last) \in Int
  <2>1. \A i \in 1..Len(rows) : rows[i].day \in Int
    BY <1>4 DEF IsLedger, IsRow
  <2> HIDE DEF rows
  <2> QED BY <1>4, <1>5, <2>1, LastOfDays, DaysEndInOrder
<1> DEFINE seen(day) == Cardinality(HourBuckets(rows, day))
           ends == {rows[i].ends : i \in {j \in 1..Len(rows) : rows[j].day = last /\ rows[j].ends # None}}
           short == /\ file.format = "aws" /\ seen(last) < HoursPerDay
                    /\ \E day \in DaysOf(rows) : day < last /\ seen(day) = HoursPerDay
           cut == file.format = "gcp" /\ ends # {} /\ \A x \in ends : x < HoursPerDay
<1>8. FileHasGap(file) => last < end \/ (last = end /\ (short \/ cut))
  BY <1>6 DEF FileHasGap
<1>9. through \in Int /\ through <= EndOfDay(last) /\ (short \/ cut => through < EndOfDay(last))
  <2>1. CASE file.format = "aws"
    <3>1. through = AwsDataThrough(rows, records)
      BY <2>1 DEF DataThrough
    <3>2. ~cut
      BY <2>1
    <3> HIDE DEF rows, records, through, cut
    <3> QED BY <1>4, <1>5, <1>6, <3>1, <3>2, HoursMissing
  <2>2. CASE file.format = "gcp"
    <3>1. through = GcpDataThrough(rows, records) /\ \A i \in 1..Len(rows) : EndsNear(rows[i])
      BY <2>2 DEF DataThrough
    <3>2. ~short
      BY <2>2
    <3> HIDE DEF rows, records, through, short
    <3> QED BY <1>4, <1>5, <1>6, <3>1, <3>2, UsageCutShort
  <2>3. CASE file.format = "azure"
    <3>1. through = AzureDataThrough(records) /\ ~cut /\ ~short
      BY <2>3 DEF DataThrough
    <3> HIDE DEF rows, records, through, cut, short
    <3> QED BY <1>6, <1>7, <3>1 DEF AzureDataThrough
  <2> QED BY <1>3, <2>1, <2>2, <2>3
<1>10. last < end => EndOfDay(last) < EndOfDay(end)
  <2> HIDE DEF last, end
  <2>1. last < end => EndOfDay(last) <= end * HoursPerDay
    BY <1>7, DaysEndInOrder DEF end
  <2>2. EndOfDay(end) = end * HoursPerDay + HoursPerDay
    BY DaysEndInOrder DEF end
  <2>3. end * HoursPerDay \in Int
    BY HoursAssumption DEF end
  <2> QED BY <1>7, <2>1, <2>2, <2>3, HoursAssumption
<1>11. EndOfDay(end) \in Int
  BY DaysEndInOrder
<1> HIDE DEF rows, records, through, cut, short, last, end
<1> QED BY <1>3, <1>7, <1>8, <1>9, <1>10, <1>11 DEF through, end

\* and a trail up to its last event.
LEMMA TrailReaches ==
  ASSUME NEW file, file.kind = "audit", IsList(file.rows), ParseSource(file).accepted,
         \A i \in 1..Len(file.rows) : /\ file.format = "cloudtrail" => IsTrail(file.rows[i])
                                      /\ file.format = "items" => IsEvent(file.rows[i])
  PROVE  ParseSource(file).through \in Int
<1> DEFINE rows == file.rows
           places == {i \in 1..Len(rows) : HasRequired(rows[i])}
           sound == ElementsAt(rows, places)
           told == [i \in 1..Len(sound) |-> CloudTrailEvent(sound[i])]
           events == EvidenceItems(file)
<1>1. \A code : ~Refused(code).accepted
  BY DEF Refused
<1>2. ParseSource(file) = ParseAuditSource(file)
  BY <1>1 DEF ParseSource
<1>3. /\ file.format \in {"cloudtrail", "items"} /\ events # <<>>
      /\ ParseSource(file).through = EndOfDay(LastDay(events)) - 1
  BY <1>1, <1>2 DEF ParseAuditSource
<1>4. IsList(events) /\ \A i \in 1..Len(events) : events[i].day \in Int
  <2>1. CASE file.format = "items"
    <3>1. events = rows
      BY <2>1 DEF EvidenceItems
    <3> QED BY <2>1, <3>1 DEF IsEvent
  <2>2. CASE file.format = "cloudtrail"
    <3>1. events = told
      BY <2>2 DEF EvidenceItems
    <3>2. \A i \in 1..Len(rows) : HasRequired(rows[i]) => rows[i].day \in Int
      BY <2>2 DEF HasRequired, IsTrail
    <3>3. IsList(sound) /\ \A m \in 1..Len(sound) : \E i \in places : sound[m] = rows[i]
      <4>1. places \in SUBSET (1..Len(rows))
        OBVIOUS
      <4> HIDE DEF places
      <4> QED BY <4>1, KeptList
    <3>4. \A m \in 1..Len(sound) : sound[m].day \in Int
      <4> HIDE DEF sound
      <4> QED BY <3>2, <3>3
    <3> HIDE DEF sound
    <3>5. Len(sound) \in Nat
      BY <3>3 DEF IsList
    <3>6. IsList(told) /\ Len(told) = Len(sound)
      BY <3>5, ListOf
    <3>7. \A m \in 1..Len(sound) : told[m].day \in Int
      BY <3>4 DEF CloudTrailEvent
    <3> HIDE DEF told, events
    <3> QED BY <3>1, <3>6, <3>7
  <2> QED BY <1>3, <2>1, <2>2
<1> HIDE DEF events
<1>5. LastDay(events) \in Int
  BY <1>3, <1>4, LastOfDays
<1>6. EndOfDay(LastDay(events)) \in Int
  BY <1>5, DaysEndInOrder
<1> QED BY <1>3, <1>6

-----------------------------------------------------------------------------
(* What the worker knows of what it did not get. *)

\* The worker asks for the periods of its task; those that are all to come have not begun.
AskedFor(call) ==
  /\ call.stage \in {"waiting", "fetching", "answered"} => call.periods = Periods
  /\ call.stage \in {"waiting", "fetching"} => call.window # None
  /\ call.stage = "answered" /\ call.window = None =>
       call.through \in Int /\ call.through < EndOfDay(input.current.end)

SourcesParsed ==
  /\ DOMAIN sources = Kinds
  /\ \A kind \in Kinds : sources[kind] # None => files[kind] # None /\ sources[kind] = ParseSource(files[kind])
  /\ origin = "upload" => files \in Uploads

DatasetKnown ==
  origin = "upload" /\ stage # "sourcing" =>
    "cost" \in Stored /\ input.bundle.complete = (DatasetThrough >= EndOfDay(input.current.end))

\* A bundle is complete when the answer it is made of is, and there is no later answer.
WorkerKnown ==
  origin = "live" =>
    /\ AskedFor(calls["worker"]) /\ input.current.end \in Nat
    /\ stage \in {"sourcing", "loaded"} => input.bundle = None
    /\ input.bundle # None /\ input.bundle.complete =>
         calls["worker"].stage = "answered" /\ calls["worker"].through >= EndOfDay(input.current.end)

KnownIInv == SourcesParsed /\ DatasetKnown /\ WorkerKnown

LEMMA InitKnownIInv == Init => KnownIInv
<1> SUFFICES ASSUME Init PROVE KnownIInv
  OBVIOUS
<1>1. /\ sources = [cost |-> None, audit |-> None] /\ calls = [c \in Callers |-> NotAsked]
      /\ origin = "upload" => files \in Uploads /\ stage = "sourcing"
      /\ origin = "live" => input \in Requests("live")
  BY DEF Init, NoFiles, LiveInit
<1>2. SourcesParsed
  BY <1>1 DEF SourcesParsed, Kinds
<1>3. AskedFor(calls["worker"])
  BY <1>1, CallersAssumption DEF AskedFor, NotAsked
<1> QED BY <1>1, <1>2, <1>3, RequestsAssumption DEF KnownIInv, DatasetKnown, WorkerKnown

\* Without a window there was no day to ask for: the periods begin today or later.
LEMMA NothingToAsk ==
  ASSUME NEW periods, GoodPeriods(periods), today \in Int, LiveWindow(periods) = None, NEW p \in periods
  PROVE  EndOfDay(today - 1) < EndOfDay(p.end)
<1> DEFINE start == [q \in periods |-> q.start]
           end == [q \in periods |-> q.end]
           S == {q.start : q \in periods}
           E == {q.end : q \in periods}
           first == Smallest(S)
           last == Smaller(Largest(E), today - 1)
<1>1. \A q \in periods : q.start \in Int /\ q.end \in Int /\ q.start <= q.end
  BY DEF GoodPeriods, IsPeriod
<1>2. IsFiniteSet(S) /\ IsFiniteSet(E)
  <2>1. IsFiniteSet({start[q] : q \in periods}) /\ IsFiniteSet({end[q] : q \in periods})
    <3> HIDE DEF start, end
    <3> QED BY ImageIsFinite DEF GoodPeriods
  <2>2. {start[q] : q \in periods} = S /\ {end[q] : q \in periods} = E
    OBVIOUS
  <2> HIDE DEF S, E, start, end
  <2> QED BY <2>1, <2>2
<1>3. S \in SUBSET Int /\ E \in SUBSET Int /\ S # {} /\ E # {} /\ p.start \in S /\ p.end \in E
  BY <1>1
<1>4. None = IF last < first THEN None ELSE [start |-> first, end |-> last]
  BY DEF LiveWindow
<1> HIDE DEF S, E
<1>5. first \in Int /\ first <= p.start
  BY <1>2, <1>3, HasSmallest
<1>6. Largest(E) \in Int /\ p.end <= Largest(E)
  BY <1>2, <1>3, HasLargest
<1>7. last \in Int
  BY <1>6 DEF Smaller
<1>8. last < first
  <2> SUFFICES ASSUME ~(last < first) PROVE FALSE
    OBVIOUS
  <2> HIDE DEF last, first
  <2>1. None = [start |-> first, end |-> last]
    BY <1>4
  <2>2. [start |-> first, end |-> last] \in [start : Int, end : Int]
    BY <1>5, <1>7
  <2> QED BY <2>1, <2>2, NoneAssumption
<1> HIDE DEF first
<1>9. today - 1 < p.end
  BY <1>1, <1>5, <1>6, <1>8 DEF Smaller
<1>10. EndOfDay(today - 1) <= p.end * HoursPerDay /\ EndOfDay(p.end) = p.end * HoursPerDay + HoursPerDay
      /\ EndOfDay(today - 1) \in Int
  <2>1. today - 1 \in Int /\ p.end \in Int
    BY <1>1
  <2> QED BY <1>9, <2>1, DaysEndInOrder
<1>11. p.end * HoursPerDay \in Int
  BY <1>1, HoursAssumption
<1> QED BY <1>10, <1>11, HoursAssumption

LEMMA AnsweredFor ==
  ASSUME NEW call, call.periods = Periods, call.window # None, NEW rows
  PROVE  AskedFor(Answered(call, rows))
<1>1. Answered(call, rows).periods = call.periods /\ Answered(call, rows).window = call.window
  BY DEF Answered, NotAsked
<1> QED BY <1>1 DEF AskedFor

LEMMA EnteredFor ==
  ASSUME NEW call, DOMAIN call = CallFields, call.periods = Periods, call.window # None, NEW entries
  PROVE  AskedFor(Entered(call, entries))
<1> DEFINE key == CacheKey(call.window)
           started == [call EXCEPT !.stage = "fetching", !.started = now, !.attempt = 1]
<1>1. CASE key \in DOMAIN entries /\ entries[key].expires > now
  <2>1. Entered(call, entries) = Answered(call, entries[key].rows)
    BY <1>1 DEF Entered
  <2> QED BY <2>1, AnsweredFor
<1>2. CASE ~(key \in DOMAIN entries /\ entries[key].expires > now)
  <2>1. Entered(call, entries) = started
    BY <1>2 DEF Entered
  <2>2. started.stage = "fetching" /\ started.periods = call.periods /\ started.window = call.window
    BY DEF CallFields, NotAsked
  <2> HIDE DEF started
  <2> QED BY <2>1, <2>2 DEF AskedFor
<1> QED BY <1>1, <1>2

\* What is asked next, or answered.
LEMMA WorkerStep ==
  ASSUME AskedFor(calls["worker"]), FetchIInv, IsInput(input), today \in Int, LiveStep
  PROVE  AskedFor(calls'["worker"])
<1> DEFINE worker == calls["worker"]
<1>1. "worker" \in Callers /\ DOMAIN calls = Callers /\ DOMAIN worker = CallFields
  BY CallersAssumption DEF FetchIInv, LiveTypes
<1>2. ASSUME NEW c \in Callers, NEW call, calls' = [calls EXCEPT ![c] = call], c = "worker" => AskedFor(call)
      PROVE  AskedFor(calls'["worker"])
  BY <1>1, <1>2
<1>3. AskedFor(Over)
  BY DEF AskedFor, Over, NotAsked
<1>4. ASSUME NEW c \in Callers, NEW periods \in AskedNow(c), Ask(c, periods) PROVE AskedFor(calls'["worker"])
  <2> DEFINE window == LiveWindow(periods)
             call == [NotAsked EXCEPT !.periods = periods, !.window = window]
  <2>1. c = "worker" => periods = Periods
    BY DEF AskedNow
  <2>2. GoodPeriods(periods)
    BY PeriodsAsked
  <2>3. CASE window = None
    <3> DEFINE answered == [call EXCEPT !.stage = "answered", !.through = EndOfDay(today - 1)]
    <3>1. calls' = [calls EXCEPT ![c] = answered]
      BY <1>4, <2>3 DEF Ask
    <3>2. answered.stage = "answered" /\ answered.periods = periods /\ answered.through = EndOfDay(today - 1)
      BY DEF NotAsked
    <3> HIDE DEF answered
    <3>3. input.current \in Periods
      BY DEF Periods
    <3>4. c = "worker" => answered.through \in Int /\ answered.through < EndOfDay(input.current.end)
      <4>1. today - 1 \in Int
        OBVIOUS
      <4>2. EndOfDay(today - 1) \in Int
        BY <4>1, DaysEndInOrder
      <4> QED BY <2>1, <2>2, <2>3, <3>2, <3>3, <4>2, NothingToAsk
    <3>5. c = "worker" => AskedFor(answered)
      BY <2>1, <3>2, <3>4 DEF AskedFor
    <3> QED BY <1>2, <3>1, <3>5
  <2>4. CASE window # None /\ Days(window) > MaxDays
    <3>1. calls' = [calls EXCEPT ![c] = Over]
      BY <1>4, <2>4 DEF Ask
    <3> QED BY <1>2, <1>3, <3>1
  <2>5. CASE window # None /\ ~(Days(window) > MaxDays)
    <3>1. PICK kept \in Purged : \E lock :
            LET entries == [k \in kept |-> cache[k]]
            IN  \/ calls' = [calls EXCEPT ![c] = Entered([call EXCEPT !.lock = lock], entries)]
                \/ calls' = [calls EXCEPT ![c] = [call EXCEPT !.stage = "waiting", !.lock = lock]]
      BY <1>4, <2>5 DEF Ask
    <3> DEFINE entries == [k \in kept |-> cache[k]]
    <3>2. PICK lock : \/ calls' = [calls EXCEPT ![c] = Entered([call EXCEPT !.lock = lock], entries)]
                      \/ calls' = [calls EXCEPT ![c] = [call EXCEPT !.stage = "waiting", !.lock = lock]]
      BY <3>1
    <3> HIDE DEF entries
    <3> DEFINE first == [call EXCEPT !.lock = lock]
               waiting == [call EXCEPT !.stage = "waiting", !.lock = lock]
    <3>3. /\ DOMAIN first = CallFields /\ first.window = window /\ first.periods = periods
          /\ waiting.window = window /\ waiting.periods = periods /\ waiting.stage = "waiting"
      BY DEF NotAsked, CallFields
    <3> HIDE DEF first, waiting, window
    <3>4. c = "worker" => AskedFor(Entered(first, entries)) /\ AskedFor(waiting)
      BY <2>1, <2>5, <3>3, EnteredFor DEF AskedFor
    <3>5. CASE calls' = [calls EXCEPT ![c] = Entered(first, entries)]
      BY <1>2, <3>4, <3>5
    <3>6. CASE calls' = [calls EXCEPT ![c] = waiting]
      BY <1>2, <3>4, <3>6
    <3> QED BY <3>2, <3>5, <3>6 DEF first, waiting
  <2> QED BY <2>3, <2>4, <2>5
<1>5. ASSUME NEW c \in Callers, GiveUp(c) PROVE AskedFor(calls'["worker"])
  BY <1>2, <1>3, <1>5 DEF GiveUp
<1>6. ASSUME NEW c \in Callers, NEW rows, Fetching(c), Complete(c, rows) PROVE AskedFor(calls'["worker"])
  <2>1. calls' = [calls EXCEPT ![c] = Answered(calls[c], rows)]
    BY <1>6 DEF Complete
  <2>2. c = "worker" => AskedFor(Answered(worker, rows))
    BY <1>6, AnsweredFor DEF Fetching, AskedFor
  <2> QED BY <1>2, <2>1, <2>2
<1>7. ASSUME NEW c \in Callers, Acquire(c) PROVE AskedFor(calls'["worker"])
  <2>1. calls' = [calls EXCEPT ![c] = Entered(calls[c], cache)] /\ calls[c].stage = "waiting"
    BY <1>7 DEF Acquire
  <2>2. c = "worker" => AskedFor(Entered(worker, cache))
    BY <1>1, <2>1, EnteredFor DEF AskedFor
  <2> QED BY <1>2, <2>1, <2>2
<1>8. ASSUME NEW c \in Callers, PostAgain(c) PROVE AskedFor(calls'["worker"])
  <2> DEFINE call == [worker EXCEPT !.attempt = @ + 1]
  <2>1. calls' = [calls EXCEPT ![c] = [calls[c] EXCEPT !.attempt = @ + 1]]
    BY <1>8 DEF PostAgain
  <2>2. /\ call.stage = worker.stage /\ call.window = worker.window /\ call.periods = worker.periods
        /\ call.through = worker.through
    BY <1>1 DEF CallFields, NotAsked
  <2>3. AskedFor(call)
    <3> HIDE DEF call
    <3> QED BY <2>2 DEF AskedFor
  <2> QED BY <1>2, <2>1, <2>3
<1>9. ASSUME NEW c \in Callers, ReadPage(c) PROVE AskedFor(calls'["worker"])
  <2> DEFINE total == IF calls[c].pages = 0 THEN Query(calls[c].window) ELSE calls[c].total
             call == [worker EXCEPT !.total = total, !.pages = @ + 1, !.attempt = 1]
  <2>1. /\ Fetching(c)
        /\ \/ Complete(c, total)
           \/ GiveUp(c)
           \/ calls' = [calls EXCEPT ![c] = [calls[c] EXCEPT !.total = total, !.pages = @ + 1, !.attempt = 1]]
    BY <1>9 DEF ReadPage
  <2> HIDE DEF total
  <2>2. /\ call.stage = worker.stage /\ call.window = worker.window /\ call.periods = worker.periods
        /\ call.through = worker.through
    BY <1>1 DEF CallFields, NotAsked
  <2>3. AskedFor(call)
    <3> HIDE DEF call
    <3> QED BY <2>2 DEF AskedFor
  <2>4. CASE calls' = [calls EXCEPT ![c] = [calls[c] EXCEPT !.total = total, !.pages = @ + 1, !.attempt = 1]]
    BY <1>2, <2>3, <2>4
  <2> QED BY <1>5, <1>6, <2>1, <2>4
<1>10. CASE \E c \in Callers : \E periods \in AskedNow(c) : Ask(c, periods)
  BY <1>4, <1>10
<1>11. CASE \E c \in Callers : \/ Acquire(c) \/ ReadAll(c) \/ ReadPage(c) \/ PostAgain(c)
                               \/ FetchFails(c) \/ Cancel(c)
  <2>1. PICK c \in Callers : \/ Acquire(c) \/ ReadAll(c) \/ ReadPage(c) \/ PostAgain(c)
                             \/ FetchFails(c) \/ Cancel(c)
    BY <1>11
  <2>2. ReadAll(c) => \E rows : Fetching(c) /\ Complete(c, rows)
    BY DEF ReadAll
  <2>3. FetchFails(c) \/ Cancel(c) => GiveUp(c)
    BY DEF FetchFails, Cancel
  <2> QED BY <1>5, <1>6, <1>7, <1>8, <1>9, <2>1, <2>2, <2>3
<1>12. CASE Report \/ Tick \/ Midnight
  BY <1>12 DEF Report, Tick, Midnight
<1> QED BY <1>10, <1>11, <1>12 DEF LiveStep, LiveNext

\* What is said of a call stays while the periods do.
LEMMA AskedStays ==
  ASSUME NEW call, AskedFor(call), input'.current = input.current, input'.baseline = input.baseline,
         calls'["worker"] = call
  PROVE  AskedFor(calls["worker"])'
<1> QED BY DEF AskedFor, Periods

LEMMA KnownStep == KnownIInv /\ DataIInv /\ FetchIInv /\ MoneyOK /\ [Next]_pipelineVars => KnownIInv'
<1> SUFFICES ASSUME KnownIInv, DataIInv, FetchIInv, MoneyOK, [Next]_pipelineVars PROVE KnownIInv'
  OBVIOUS
<1>1. SourcesParsed /\ DatasetKnown /\ WorkerKnown /\ IsInput(input) /\ DOMAIN input = InputFields
  BY DEF KnownIInv, DataIInv, IsInput
<1>2. ASSUME UNCHANGED <<origin, files, sources>>
      PROVE  SourcesParsed' /\ Stored' = Stored /\ DatasetThrough' = DatasetThrough
  BY <1>1, <1>2 DEF SourcesParsed, Stored, DatasetThrough
<1>3. ASSUME UNCHANGED <<input, calls, origin, files, sources>>, stage = "sourcing" => stage' = "sourcing",
             stage' \in {"sourcing", "loaded"} => stage' = stage
      PROVE  KnownIInv'
  <2>1. SourcesParsed' /\ DatasetKnown'
    BY <1>1, <1>2, <1>3 DEF DatasetKnown
  <2>2. WorkerKnown'
    <3>1. AskedFor(calls["worker"]) => AskedFor(calls["worker"])'
      BY <1>3, AskedStays
    <3> QED BY <1>1, <1>3, <3>1 DEF WorkerKnown
  <2> QED BY <2>1, <2>2 DEF KnownIInv
<1>4. CASE UNCHANGED pipelineVars
  BY <1>3, <1>4 DEF pipelineVars, vars, liveVars
<1>5. ASSUME NEW kind \in Kinds, PutSource(kind) PROVE KnownIInv'
  <2>1. /\ origin = "upload" /\ origin' = "upload" /\ stage = "sourcing" /\ stage' = "sourcing"
        /\ files[kind] # None /\ sources' = [sources EXCEPT ![kind] = ParseSource(files[kind])] /\ files' = files
    BY <1>5 DEF PutSource, vars
  <2>2. SourcesParsed'
    BY <1>1, <2>1 DEF SourcesParsed
  <2> QED BY <2>1, <2>2 DEF KnownIInv, DatasetKnown, WorkerKnown
<1>6. CASE LoadDataset
  <2> DEFINE events == IF "audit" \in Stored THEN InPeriods(sources["audit"].items) ELSE <<>>
  <2>1. /\ origin = "upload" /\ UNCHANGED <<origin, files, sources>> /\ "cost" \in Stored
        /\ input'.bundle = Bundle(events, DatasetThrough) /\ input'.current = input.current
    BY <1>1, <1>6 DEF LoadDataset, InputFields
  <2>2. Bundle(events, DatasetThrough).complete = (DatasetThrough >= EndOfDay(input.current.end))
    BY DEF Bundle
  <2>3. DatasetKnown'
    BY <1>2, <2>1, <2>2 DEF DatasetKnown
  <2> QED BY <1>2, <2>1, <2>3 DEF KnownIInv, WorkerKnown
<1>7. CASE LoadLive \/ LoadFails
  <2>1. /\ origin = "live" /\ stage = "sourcing" /\ UNCHANGED <<origin, files, sources, calls>>
        /\ input'.bundle = input.bundle /\ input'.current = input.current /\ input'.baseline = input.baseline
    BY <1>1, <1>7 DEF LoadLive, LoadFails, InputFields, liveVars
  <2>2. AskedFor(calls["worker"])'
    BY <1>1, <2>1, AskedStays DEF WorkerKnown
  <2>3. WorkerKnown'
    BY <1>1, <2>1, <2>2 DEF WorkerKnown
  <2> QED BY <1>2, <2>1, <2>3 DEF KnownIInv, DatasetKnown
<1>8. CASE LoadBundle \/ BundleFails
  <2>1. /\ origin = "live" /\ stage = "compared" /\ stage' \in {"compared", "investigated"}
        /\ UNCHANGED <<origin, files, sources, calls>>
        /\ input'.current = input.current /\ input'.baseline = input.baseline
        /\ \/ calls["worker"].stage = "answered" /\ input'.bundle = Bundle(<<>>, calls["worker"].through)
           \/ input'.bundle = Bundle(<<>>, 0)
    BY <1>1, <1>8 DEF LoadBundle, BundleFails, InputFields, liveVars
  <2>2. \A through : Bundle(<<>>, through).complete = (through >= EndOfDay(input.current.end))
    BY DEF Bundle
  <2>3. ~(0 >= EndOfDay(input.current.end))
    <3> DEFINE e == input.current.end
    <3>1. e \in Nat
      BY <1>1, <2>1 DEF WorkerKnown
    <3> HIDE DEF e
    <3>2. EndOfDay(e) = e * HoursPerDay + HoursPerDay /\ e * HoursPerDay \in Nat /\ HoursPerDay \in Nat \ {0}
      BY <3>1, DaysEndInOrder, HoursAssumption
    <3>3. ~(0 >= EndOfDay(e))
      BY <3>2
    <3> QED BY <3>3 DEF e
  <2>4. AskedFor(calls["worker"])'
    BY <1>1, <2>1, AskedStays DEF WorkerKnown
  <2>5. WorkerKnown'
    BY <1>1, <2>1, <2>2, <2>3, <2>4 DEF WorkerKnown
  <2> QED BY <1>2, <2>1, <2>5 DEF KnownIInv, DatasetKnown
<1>9. CASE AnalysisStep
  <2>1. UNCHANGED <<input, calls, origin, files, sources>>
    BY <1>9 DEF AnalysisStep, liveVars, Compare, Publish, InvestigateByRules, InvestigateByAgent, GetCostBreakdown
  <2>2. stage \in {"loaded", "compared", "investigated"}
        /\ stage' \in {"compared", "investigated", "published", "grouped"}
    BY <1>9 DEF AnalysisStep, Compare, Publish, InvestigateByRules, InvestigateByAgent, GetCostBreakdown
  <2> QED BY <1>3, <2>1, <2>2
<1>10. CASE LiveStep
  <2>1. /\ origin = "live" /\ UNCHANGED <<input, stage, origin, files, sources>>
        /\ stage = "sourcing" \/ input.bundle = None
    BY <1>10 DEF LiveStep, vars
  <2>2. AskedFor(calls'["worker"])
    BY <1>1, <1>10, <2>1, WorkerStep DEF WorkerKnown, MoneyOK
  <2>3. AskedFor(calls["worker"])'
    BY <2>1, <2>2, AskedStays
  <2>4. WorkerKnown'
    BY <1>1, <2>1, <2>3 DEF WorkerKnown
  <2> QED BY <1>2, <2>1, <2>4 DEF KnownIInv, DatasetKnown
<1> QED BY <1>4, <1>5, <1>6, <1>7, <1>8, <1>9, <1>10 DEF Next

LEMMA KnownInvariance == Spec => []KnownIInv
<1> QED BY InitKnownIInv, KnownStep, DataInvariance, FetchInvariance, MoneyInvariance, PTL DEF Spec

\* A dataset reaches no further than its bill.
LEMMA DatasetReaches ==
  ASSUME KnownIInv, DataIInv, origin = "upload", stage # "sourcing", FileHasGap(files.cost)
  PROVE  ~input.bundle.complete
<1>1. "cost" \in Stored /\ input.bundle.complete = (DatasetThrough >= EndOfDay(input.current.end))
  BY DEF KnownIInv, DatasetKnown
<1>2. /\ files \in Uploads /\ input.current.end \in Int
      /\ \A kind \in Stored : /\ kind \in Kinds /\ files[kind] # None
                              /\ sources[kind] = ParseSource(files[kind]) /\ ParseSource(files[kind]).accepted
  BY DEF KnownIInv, SourcesParsed, Stored, DataIInv, IsInput, IsPeriod
<1>3. /\ ParseSource(files["cost"]).through \in Int
      /\ ParseSource(files["cost"]).through < EndOfDay(input.current.end)
  <2>1. FileOK(files["cost"]) /\ files["cost"] # None
    BY <1>1, <1>2 DEF DataIInv, FilesOK
  <2>2. \A i \in 1..Len(files["cost"].rows) : EndsNear(files["cost"].rows[i])
    BY <1>2, <2>1, FilesAssumption DEF EndsNear
  <2> QED BY <1>1, <1>2, <2>1, <2>2, BillReaches
<1>4. "audit" \in Stored => ParseSource(files["audit"]).through \in Int
  <2> SUFFICES ASSUME "audit" \in Stored PROVE ParseSource(files["audit"]).through \in Int
    OBVIOUS
  <2>1. files["audit"] # None /\ files["audit"].kind = "audit" /\ IsList(files["audit"].rows)
    BY <1>2 DEF DataIInv, FilesOK
  <2>2. \A i \in 1..Len(files["audit"].rows) :
          /\ files["audit"].format = "cloudtrail" => IsTrail(files["audit"].rows[i])
          /\ files["audit"].format = "items" => IsEvent(files["audit"].rows[i])
    BY <1>2, <2>1, FilesAssumption
  <2> QED BY <1>2, <2>1, <2>2, TrailReaches
<1> DEFINE through == [kind \in Stored |-> ParseSource(files[kind]).through]
           S == {through[kind] : kind \in Stored}
<1>5. {sources[kind].through : kind \in Stored} = S
  BY <1>2
<1>6. IsFiniteSet(S)
  <2>1. IsFiniteSet(Stored)
    <3>1. IsFiniteSet({"cost"}) /\ IsFiniteSet({"audit"})
      BY FS_Singleton
    <3>2. IsFiniteSet({"cost"} \cup {"audit"})
      BY <3>1, FS_Union
    <3>3. Stored \in SUBSET ({"cost"} \cup {"audit"})
      BY DEF Stored, Kinds
    <3> QED BY <3>2, <3>3, FS_Subset
  <2> HIDE DEF through
  <2> QED BY <2>1, ImageIsFinite
<1>7. S \in SUBSET Int /\ through["cost"] \in S
  <2>1. \A kind \in Stored : kind = "cost" \/ kind = "audit"
    BY DEF Stored, Kinds
  <2> QED BY <1>1, <1>3, <1>4, <2>1
<1>8. through["cost"] = ParseSource(files["cost"]).through
  BY <1>1
<1> HIDE DEF S, through
<1>9. Smallest(S) \in Int /\ Smallest(S) <= through["cost"]
  BY <1>6, <1>7, HasSmallest
<1>10. EndOfDay(input.current.end) \in Int
  BY <1>2, DaysEndInOrder
<1>11. DatasetThrough \in Int /\ DatasetThrough <= ParseSource(files["cost"]).through
  <2>1. DatasetThrough = Smallest(S)
    <3>1. DatasetThrough = Smallest({sources[kind].through : kind \in Stored})
      BY DEF DatasetThrough
    <3> QED BY ONLY <1>5, <3>1
  <2>2. Smallest(S) <= ParseSource(files["cost"]).through
    BY ONLY <1>8, <1>9
  <2> QED BY ONLY <1>9, <2>1, <2>2
<1>12. ~(DatasetThrough >= EndOfDay(input.current.end))
  BY <1>3, <1>10, <1>11
<1> QED BY <1>1, <1>12

\* A worker that was told all up to the end of the period was told of its last day.
LEMMA WorkerWasTold ==
  ASSUME KnownIInv, MoneyOK, DataIInv, origin = "live", input.bundle # None, WorkerMissed
  PROVE  ~input.bundle.complete
<1> SUFFICES ASSUME input.bundle.complete PROVE FALSE
  OBVIOUS
<1> DEFINE call == calls["worker"]
           end == input.current.end
<1> HIDE DEF call, end
<1>1. AskedFor(call) /\ end \in Nat /\ call.stage = "answered" /\ call.through >= EndOfDay(end)
  BY DEF KnownIInv, WorkerKnown, call, end
<1>2. ledger \in Ledgers /\ CallWhole(call)
  BY CallersAssumption DEF MoneyOK, call
<1>3. AreSources(ledger.rows) /\ KnownFormat
  BY <1>2, LedgerIs
<1>4. EndOfDay(end) \in Int /\ end \in Int
  <2>1. end \in Int
    BY <1>1
  <2> QED BY <2>1, DaysEndInOrder
<1>5. call.periods = Periods /\ (call.window = None => call.through \in Int /\ call.through < EndOfDay(end))
  BY <1>1 DEF AskedFor, end
<1>6. call.window # None
  <2> SUFFICES ASSUME call.window = None PROVE FALSE
    OBVIOUS
  <2> QED BY <1>1, <1>4, <1>5
<1> DEFINE last == call.window.end
<1>7. PICK n : Whole(call, n)
  BY <1>1, <1>2, <1>6 DEF CallWhole
<1>8. /\ call.through \in Int /\ call.through <= EndOfDay(last) /\ last \in Int
      /\ \E p \in Periods : last <= p.end
  BY <1>5, <1>7 DEF Whole, AnswerIsOf, EndsWithAPeriod
<1>9. IsPeriod(input.current) /\ IsPeriod(input.baseline) /\ input.baseline.end <= end
  BY DEF DataIInv, IsInput, WorkerMissed, end
<1> HIDE DEF last
<1>10. last = end
  <2>1. last <= end
    <3>1. PICK p \in Periods : last <= p.end
      BY <1>8
    <3>2. p.end \in Int /\ p.end <= end
      BY <1>4, <1>9 DEF Periods, IsPeriod, end
    <3> QED BY <1>4, <1>8, <3>1, <3>2
  <2>2. last < end => EndOfDay(last) <= end * HoursPerDay
    BY <1>4, <1>8, DaysEndInOrder
  <2>3. EndOfDay(end) = end * HoursPerDay + HoursPerDay /\ end * HoursPerDay \in Int /\ EndOfDay(last) \in Int
    BY <1>4, <1>8, DaysEndInOrder
  <2> QED BY <1>1, <1>4, <1>8, <2>1, <2>2, <2>3
<1>11. MineOn(call, end)
  <2>1. PeriodContains(input.current, end)
    BY <1>9 DEF PeriodContains, IsPeriod, end
  <2> QED BY <1>5, <2>1 DEF MineOn, Periods
<1>12. PICK i \in 1..Len(call.records) : call.records[i].day = end
  BY <1>1, <1>7, <1>10, <1>11 DEF Whole, ToldOfTheEnd, last
<1>13. PICK day \in DaysOf(ledger.rows) :
         PeriodContains(input.current, day) /\ \A told \in DaysOf(call.records) : told < day
  BY DEF WorkerMissed, call
<1>14. end < day /\ day <= end /\ day \in Int
  <2>1. day \in Int
    BY <1>3, <1>13 DEF DaysOf, AreSources, IsSource, IsRow
  <2> QED BY <1>12, <1>13, <2>1 DEF DaysOf, PeriodContains, end
<1> QED BY <1>4, <1>14

\* Of a bundle that is not complete the playbooks make no certain finding.
LEMMA RulesDoubt ==
  ASSUME DataIInv, PublishedFindingsAreSupported, report # None, investigator = "rules",
         ~input.bundle.complete, NEW i \in 1..Len(report.findings)
  PROVE  report.findings[i].uncertain
<1>1. \A j \in 1..Len(findings) : findings[j].uncertain
  <2> SUFFICES ASSUME NEW j \in 1..Len(findings) PROVE findings[j].uncertain
    OBVIOUS
  <2>1. PICK k \in 1..Len(Candidates) :
          LET c == Candidates[k]
              spec == SelectPlaybook(c, input.specs, input.bundle, input.current)
          IN  findings[j] = BuildFinding(c, spec, input.bundle,
                              Select(input.rules, c.service, spec.category, RuleDate(c, input.current),
                                     input.today, ReviewAge),
                              input.current, input.config.cent)
    <3>1. \A m \in 1..Len(findings) : \E k \in 1..Len(Candidates) :
            LET c == Candidates[k]
                spec == SelectPlaybook(c, input.specs, input.bundle, input.current)
            IN  findings[m] = BuildFinding(c, spec, input.bundle,
                                Select(input.rules, c.service, spec.category, RuleDate(c, input.current),
                                       input.today, ReviewAge),
                                input.current, input.config.cent)
      BY ONLY DataIInv, investigator = "rules", FoundByRules
    <3> QED BY <3>1
  <2>2. ASSUME NEW c, NEW spec, NEW bundle, NEW citation, NEW current, NEW cent, ~bundle.complete
        PROVE  BuildFinding(c, spec, bundle, citation, current, cent).uncertain
    <3>1. BuildFinding(c, spec, bundle, citation, current, cent).uncertain
            = (spec.fallback \/ RuleCap(citation) < 1000 \/ ~bundle.complete)
      BY DEF BuildFinding
    <3> QED BY <2>2, <3>1
  <2> QED BY <2>1, <2>2
<1>2. PICK j \in 1..Len(findings) : findings[j].uncertain => report.findings[i].uncertain
  BY DEF PublishedFindingsAreSupported
<1> QED BY <1>1, <1>2

\* Whatever is missing at the end of what the worker reads, the report does not hide it.
THEOREM MissingUsageIsKnown == Spec => []MissingUsageIsNotCertain
<1>1. KnownIInv /\ DataIInv /\ MoneyOK /\ PublishedFindingsAreSupported => MissingUsageIsNotCertain
  <2> SUFFICES ASSUME KnownIInv, DataIInv, MoneyOK, PublishedFindingsAreSupported,
                      stage \in {"compared", "investigated", "published"},
                      \/ origin = "upload" /\ FileHasGap(files.cost)
                      \/ origin = "live" /\ WorkerMissed
               PROVE  /\ input.bundle # None => ~input.bundle.complete
                      /\ report # None /\ investigator = "rules" =>
                           \A i \in 1..Len(report.findings) : report.findings[i].uncertain
    BY DEF MissingUsageIsNotCertain
  <2>1. input.bundle # None => ~input.bundle.complete
    BY DatasetReaches, WorkerWasTold
  <2>2. investigator = "rules" => input.bundle # None
    BY NoneAssumption DEF DataIInv, FoundAre
  <2>3. ASSUME report # None, investigator = "rules"
        PROVE  \A i \in 1..Len(report.findings) : report.findings[i].uncertain
    <3>1. ~input.bundle.complete
      BY <2>1, <2>2, <2>3
    <3> QED BY <2>3, <3>1, RulesDoubt
  <2> QED BY <2>1, <2>3
<1> QED BY <1>1, KnownInvariance, DataInvariance, MoneyInvariance, PublishedFindingsHaveSupport, PTL

-----------------------------------------------------------------------------
(* Lists put one after the other. *)

LEMMA Joined ==
  ASSUME NEW s, IsList(s), NEW t, IsList(t)
  PROVE  /\ IsList(s \o t) /\ Len(s \o t) = Len(s) + Len(t)
         /\ \A i \in 1..Len(s) : (s \o t)[i] = s[i]
         /\ \A i \in 1..Len(t) : (s \o t)[Len(s) + i] = t[i]
<1> DEFINE V == {s[i] : i \in 1..Len(s)} \cup {t[i] : i \in 1..Len(t)}
<1>1. s \in Seq(V) /\ t \in Seq(V) /\ Len(s) \in Nat /\ Len(t) \in Nat
  <2>1. s = [i \in 1..Len(s) |-> s[i]] /\ t = [i \in 1..Len(t) |-> t[i]] /\ Len(s) \in Nat /\ Len(t) \in Nat
    BY DEF IsList
  <2>2. (\A i \in 1..Len(s) : s[i] \in V) /\ (\A i \in 1..Len(t) : t[i] \in V)
    OBVIOUS
  <2> HIDE DEF V
  <2>3. s \in [1..Len(s) -> V] /\ t \in [1..Len(t) -> V]
    BY <2>1, <2>2
  <2> QED BY <2>1, <2>3
<1> HIDE DEF V
<1>2. s \o t \in Seq(V) /\ Len(s \o t) = Len(s) + Len(t)
  BY <1>1
<1>3. /\ \A i \in 1..Len(s) : (s \o t)[i] = s[i]
      /\ \A i \in 1..Len(t) : (s \o t)[Len(s) + i] = t[i]
  BY <1>1
<1>4. IsList(s \o t)
  <2>1. s \o t \in [1..Len(s \o t) -> V] /\ Len(s \o t) \in Nat
    BY <1>2, LenProperties
  <2> QED BY <2>1 DEF IsList
<1> QED BY <1>2, <1>3, <1>4

\* A list of lists, as it grows into one list.
AreLists(seqs) == IsList(seqs) /\ \A i \in 1..Len(seqs) : IsList(seqs[i])
Grows(flat, seqs) ==
  /\ flat[1] = seqs[1]
  /\ \A n \in 2..Len(seqs) : flat[n] = flat[n - 1] \o seqs[n]

LEMMA FlatAfter ==
  ASSUME NEW seqs, AreLists(seqs), Len(seqs) # 0
  PROVE  \E flat : Grows(flat, seqs) /\ FlattenSeq(seqs) = flat[Len(seqs)]
<1> DEFINE N == Len(seqs)
           More(s, n) == s \o seqs[n]
           Body(g, n) == IF n = 1 THEN seqs[n] ELSE More(g[n - 1], n)
           Made(g, m) == g = [n \in 1..m |-> Body(g, n)]
<1>0. N \in Nat /\ N # 0
  BY DEF AreLists, IsList
<1>1. \E g : Made(g, N)
  <2> DEFINE P == {m \in Nat : \E g : Made(g, m + 1)}
  <2>1. 0 \in P
    <3> DEFINE g == [n \in 1..1 |-> seqs[n]]
    <3>1. g = [n \in 1..(0 + 1) |-> Body(g, n)]
      OBVIOUS
    <3> QED BY <3>1
  <2>2. ASSUME NEW m \in P PROVE m + 1 \in P
    <3> HIDE DEF More
    <3>1. PICK g : g = [n \in 1..(m + 1) |-> Body(g, n)]
      OBVIOUS
    <3> DEFINE h == [n \in 1..(m + 1 + 1) |-> IF n = m + 1 + 1 THEN More(g[m + 1], m + 1 + 1) ELSE g[n]]
    <3>2. \A n \in 1..(m + 1 + 1) : h[n] = Body(h, n)
      <4> TAKE n \in 1..(m + 1 + 1)
      <4>1. CASE n = m + 1 + 1
        BY <4>1
      <4>2. CASE n \in 1..(m + 1)
        <5>1. h[n] = g[n] /\ g[n] = Body(g, n)
          BY <3>1, <4>2
        <5>2. n # 1 => h[n - 1] = g[n - 1]
          BY <4>2
        <5> QED BY <5>1, <5>2
      <4> QED BY <4>1, <4>2
    <3>3. h = [n \in 1..(m + 1 + 1) |-> Body(h, n)]
      BY <3>2
    <3> HIDE DEF h, Body
    <3>4. \E f : Made(f, m + 1 + 1)
      BY <3>3
    <3> QED BY <3>4
  <2> HIDE DEF Made
  <2>3. P = Nat
    <3> HIDE DEF P
    <3>1. P \in SUBSET Nat
      BY DEF P
    <3> QED BY <2>1, <2>2, <3>1, EveryNatural
  <2>4. N - 1 \in Nat /\ (N - 1) + 1 = N
    BY <1>0
  <2>5. N - 1 \in P
    BY <2>3, <2>4
  <2> QED BY <2>4, <2>5
<1> DEFINE flat == CHOOSE g : Made(g, N)
<1>2. Made(flat, N)
  BY <1>1
<1>3. FlattenSeq(seqs) = flat[N]
  BY DEF FlattenSeq
<1>4. Grows(flat, seqs)
  <2>1. \A n \in 1..N : flat[n] = Body(flat, n)
    BY <1>2
  <2> HIDE DEF flat
  <2>2. 1 \in 1..N /\ \A n \in 2..N : n \in 1..N /\ n # 1
    BY <1>0
  <2>3. flat[1] = seqs[1]
    BY <2>1, <2>2
  <2>4. \A n \in 2..N : flat[n] = flat[n - 1] \o seqs[n]
    BY <2>1, <2>2
  <2> QED BY <2>3, <2>4 DEF Grows
<1> HIDE DEF flat
<1> QED BY <1>3, <1>4

\* What there is in the lists up to n.
Holds(s, seqs, n) ==
  IsList(s) /\ \A k \in 1..Len(s) : \E i \in 1..n : \E j \in 1..Len(seqs[i]) : s[k] = seqs[i][j]

LEMMA FlatHolds ==
  ASSUME NEW seqs, AreLists(seqs), NEW flat, Grows(flat, seqs)
  PROVE  \A n \in 1..Len(seqs) : Holds(flat[n], seqs, n)
<1> DEFINE N == Len(seqs)
           P == {m \in Nat : m + 1 <= N => Holds(flat[m + 1], seqs, m + 1)}
<1>0. N \in Nat /\ \A i \in 1..N : IsList(seqs[i])
  BY DEF AreLists, IsList
<1>1. 0 \in P
  <2>1. ASSUME 1 <= N PROVE Holds(flat[1], seqs, 1)
    <3>1. 1 \in 1..N /\ flat[1] = seqs[1]
      BY <1>0, <2>1 DEF Grows
    <3> QED BY <1>0, <3>1 DEF Holds
  <2> QED BY <2>1
<1>2. ASSUME NEW m \in P PROVE m + 1 \in P
  <2> DEFINE k == m + 1
  <2>0. k \in Nat /\ m \in Nat /\ k # 0
    OBVIOUS
  <2> SUFFICES ASSUME k + 1 <= N PROVE Holds(flat[k + 1], seqs, k + 1)
    BY <2>0
  <2>1. Holds(flat[k], seqs, k)
    BY <1>0, <2>0
  <2> HIDE DEF P
  <2>2. k + 1 \in 2..N /\ k + 1 \in 1..N /\ (k + 1) - 1 = k
    BY <1>0, <2>0
  <2> HIDE DEF k
  <2> DEFINE s == flat[k]
             t == seqs[k + 1]
  <2>3. flat[k + 1] = s \o t
    BY <2>2 DEF Grows
  <2>4. IsList(s) /\ IsList(t) /\ Len(s) \in Nat /\ Len(t) \in Nat
    BY <1>0, <2>1, <2>2 DEF Holds, IsList
  <2>5. \A x \in 1..Len(s) : \E i \in 1..k : \E j \in 1..Len(seqs[i]) : s[x] = seqs[i][j]
    BY <2>1 DEF Holds
  <2>6. ASSUME NEW x \in 1..(Len(s) + Len(t))
        PROVE  \E i \in 1..(k + 1) : \E j \in 1..Len(seqs[i]) : (s \o t)[x] = seqs[i][j]
    <3>1. CASE x \in 1..Len(s)
      <4>1. (s \o t)[x] = s[x]
        BY <2>4, <3>1, Joined
      <4> HIDE DEF s, t
      <4>2. PICK i \in 1..k : \E j \in 1..Len(seqs[i]) : s[x] = seqs[i][j]
        BY <2>5, <3>1
      <4>3. i \in 1..(k + 1)
        BY <2>0
      <4> QED BY <4>1, <4>2, <4>3
    <3>2. CASE x \notin 1..Len(s)
      <4> HIDE DEF s
      <4>1. x - Len(s) \in 1..Len(t) /\ Len(s) + (x - Len(s)) = x
        BY <2>4, <2>6, <3>2
      <4>2. (s \o t)[x] = t[x - Len(s)]
        <5> HIDE DEF t
        <5>1. \A i \in 1..Len(t) : (s \o t)[Len(s) + i] = t[i]
          BY <2>4, Joined
        <5> QED BY <4>1, <5>1
      <4>3. k + 1 \in 1..(k + 1)
        BY <2>0
      <4> QED BY <4>1, <4>2, <4>3
    <3> QED BY <3>1, <3>2
  <2>7. IsList(s \o t) /\ Len(s \o t) = Len(s) + Len(t)
    BY <2>4, Joined
  <2> QED BY <2>3, <2>6, <2>7 DEF Holds
<1>3. P = Nat
  <2> HIDE DEF P
  <2>1. P \in SUBSET Nat
    BY DEF P
  <2> QED BY <1>1, <1>2, <2>1, EveryNatural
<1>4. ASSUME NEW n \in 1..N PROVE Holds(flat[n], seqs, n)
  <2>1. n - 1 \in Nat /\ (n - 1) + 1 = n /\ n <= N
    BY <1>0
  <2>2. n - 1 \in P
    BY <1>3, <2>1
  <2> QED BY <2>1, <2>2
<1> QED BY <1>4

\* The sum over a list of two lists.
Worth(s, v) == [k \in 1..Len(s) |-> v[s[k]]]

LEMMA JoinedTotal ==
  ASSUME NEW s, IsList(s), NEW t, IsList(t), NEW v,
         \A i \in 1..Len(s) : v[s[i]] \in Int, \A i \in 1..Len(t) : v[t[i]] \in Int
  PROVE  Total(Worth(s \o t, v), 1..Len(s \o t)) = Total(Worth(s, v), 1..Len(s)) + Total(Worth(t, v), 1..Len(t))
<1> DEFINE a == Len(s)
           b == Len(t)
           f == Worth(s \o t, v)
           A == 1..a
           B == (a + 1)..(a + b)
           J == 1..b
           g == Worth(t, v)
           at == [j \in J |-> a + j]
<1>1. a \in Nat /\ b \in Nat
  BY DEF IsList
<1>2. /\ Len(s \o t) = a + b
      /\ \A i \in A : (s \o t)[i] = s[i]
      /\ \A i \in J : (s \o t)[a + i] = t[i]
  BY Joined
<1>3. (\A i \in A : f[i] = v[s[i]]) /\ (\A j \in J : f[a + j] = g[j] /\ g[j] = v[t[j]])
  <2>1. (\A i \in A : i \in 1..(a + b)) /\ (\A j \in J : a + j \in 1..(a + b))
    BY <1>1
  <2> QED BY <1>2, <2>1 DEF Worth
<1>4. \A j \in J : at[j] = a + j
  OBVIOUS
<1>5. Worth(s, v) = [k \in A |-> v[s[k]]]
  BY DEF Worth
<1>6. (\A i \in A : v[s[i]] \in Int) /\ (\A j \in J : v[t[j]] \in Int)
  OBVIOUS
<1> HIDE DEF a, b, f, g, at
<1>7. IsFiniteSet(A) /\ IsFiniteSet(B) /\ IsFiniteSet(J)
  BY <1>1, UpTo, FS_Interval
<1>8. A \cap B = {} /\ A \cup B = 1..(a + b)
  BY <1>1
<1>9. \A x \in B : x - a \in J /\ a + (x - a) = x
  BY <1>1
<1>10. \A x \in B : f[x] \in Int
  BY <1>3, <1>6, <1>9
<1>11. Picks(at, J, B)
  <2>1. \A j \in J : a + j \in B
    BY <1>1
  <2>2. \A i, j \in J : a + i = a + j => i = j
    BY <1>1
  <2> QED BY <1>4, <1>9, <2>1, <2>2 DEF Picks
<1>12. Follows(g, J, f, at) /\ WholeOn(f, B)
  BY <1>3, <1>4, <1>10 DEF Follows, WholeOn
<1>13. Total(g, J) = Total(f, B)
  BY <1>7, <1>11, <1>12, PickedTotal
<1>14. Total(f, A \cup B) = Total(f, A) + Total(f, B)
  <2>1. \A x \in A \cup B : f[x] \in Int
    BY <1>3, <1>6, <1>10
  <2> HIDE DEF A, B
  <2> QED BY <1>7, <1>8, <2>1, TotalUnion
<1>15. Total(f, A) = Total(Worth(s, v), A)
  <2> DEFINE e == Worth(s, v)
  <2>1. \A x \in A : f[x] = e[x]
    BY <1>3, <1>5
  <2> HIDE DEF A, e
  <2>2. Total(f, A) = Total(e, A)
    BY <1>7, <2>1, TotalSame
  <2> QED BY <2>2 DEF e
<1>16. Total(f, 1..Len(s \o t)) = Total(Worth(s, v), A) + Total(g, J)
  BY <1>2, <1>8, <1>13, <1>14, <1>15
<1> QED BY <1>16 DEF a, b, f, g

\* The sum over all of the lists is that of their sums.
LEMMA FlatTotal ==
  ASSUME NEW seqs, AreLists(seqs), NEW v, NEW h,
         \A i \in 1..Len(seqs) : \A j \in 1..Len(seqs[i]) : v[seqs[i][j]] \in Int,
         \A i \in 1..Len(seqs) : h[i] = Total(Worth(seqs[i], v), 1..Len(seqs[i]))
  PROVE  /\ Holds(FlattenSeq(seqs), seqs, Len(seqs))
         /\ Total(Worth(FlattenSeq(seqs), v), 1..Len(FlattenSeq(seqs))) = Total(h, 1..Len(seqs))
<1> DEFINE N == Len(seqs)
           Sum(s) == Total(Worth(s, v), 1..Len(s))
<1>0. N \in Nat /\ \A i \in 1..N : IsList(seqs[i]) /\ Len(seqs[i]) \in Nat
  BY DEF AreLists, IsList
<1>1. CASE N = 0
  <2>1. FlattenSeq(seqs) = seqs
    BY <1>1 DEF FlattenSeq
  <2>2. 1..Len(seqs) = {}
    BY <1>1
  <2>3. Holds(seqs, seqs, Len(seqs))
    BY <2>2 DEF Holds, AreLists
  <2>4. Total(Worth(seqs, v), {}) = 0 /\ Total(h, {}) = 0
    BY TotalNone
  <2> QED BY <2>1, <2>2, <2>3, <2>4
<1>2. CASE N # 0
  <2>1. PICK flat : Grows(flat, seqs) /\ FlattenSeq(seqs) = flat[N]
    BY <1>2, FlatAfter
  <2>2. \A n \in 1..N : Holds(flat[n], seqs, n)
    BY <2>1, FlatHolds
  <2> DEFINE P == {m \in Nat : m + 1 <= N => Sum(flat[m + 1]) = Total(h, 1..(m + 1))}
  <2>3. \A i \in 1..N : h[i] = Sum(seqs[i]) /\ h[i] \in Int
    <3> TAKE i \in 1..N
    <3>1. IsFiniteSet(1..Len(seqs[i])) /\ h[i] = Sum(seqs[i])
      BY <1>0, UpTo
    <3>2. \A j \in 1..Len(seqs[i]) : Worth(seqs[i], v)[j] \in Int
      BY DEF Worth
    <3> QED BY <3>1, <3>2, TotalWhole
  <2>4. \A i \in 1..N : \A j \in 1..Len(seqs[i]) : v[seqs[i][j]] \in Int
    OBVIOUS
  <2> HIDE DEF Sum
  <2>5. 0 \in P
    <3> SUFFICES ASSUME 1 <= N PROVE Sum(flat[1]) = Total(h, 1..1)
      OBVIOUS
    <3>1. 1 \in 1..N /\ flat[1] = seqs[1]
      BY <1>0, <2>1 DEF Grows
    <3>2. IsFiniteSet(1..1) /\ 1 \in 1..1 /\ (1..1) \ {1} = {} /\ \A i \in 1..1 : h[i] \in Int
      <4>1. 1 \in Nat
        OBVIOUS
      <4>2. IsFiniteSet(1..1)
        BY ONLY <4>1, UpTo
      <4> QED BY <2>3, <3>1, <4>2
    <3>3. Total(h, 1..1) = h[1] + Total(h, {})
      BY <3>2, TotalStep
    <3> QED BY <2>3, <3>1, <3>3, TotalNone
  <2>6. ASSUME NEW m \in P PROVE m + 1 \in P
    <3> DEFINE k == m + 1
    <3>0. k \in Nat /\ m \in Nat /\ k # 0
      OBVIOUS
    <3> SUFFICES ASSUME k + 1 <= N PROVE Sum(flat[k + 1]) = Total(h, 1..(k + 1))
      BY <3>0
    <3>1. Sum(flat[k]) = Total(h, 1..k)
      BY <1>0, <3>0
    <3> HIDE DEF P
    <3>2. k + 1 \in 2..N /\ k + 1 \in 1..N /\ (k + 1) - 1 = k /\ k \in 1..N /\ \A i \in 1..(k + 1) : i \in 1..N
      BY <1>0, <3>0
    <3> HIDE DEF k
    <3> DEFINE s == flat[k]
               t == seqs[k + 1]
    <3>3. flat[k + 1] = s \o t
      BY <2>1, <3>2 DEF Grows
    <3>4. IsList(s) /\ IsList(t) /\ (\A j \in 1..Len(t) : v[t[j]] \in Int)
      BY <1>0, <2>2, <2>4, <3>2 DEF Holds
    <3>5. \A x \in 1..Len(s) : v[s[x]] \in Int
      <4> TAKE x \in 1..Len(s)
      <4>1. PICK i \in 1..k : \E j \in 1..Len(seqs[i]) : s[x] = seqs[i][j]
        BY <2>2, <3>2 DEF Holds
      <4>2. i \in 1..N
        BY <3>0, <3>2
      <4> QED BY <2>4, <4>1, <4>2
    <3>6. Sum(s \o t) = Sum(s) + Sum(t)
      <4> HIDE DEF s, t
      <4> QED BY <3>4, <3>5, JoinedTotal DEF Sum
    <3>7. /\ IsFiniteSet(1..(k + 1)) /\ k + 1 \in 1..(k + 1) /\ (1..(k + 1)) \ {k + 1} = 1..k
          /\ \A i \in 1..(k + 1) : h[i] \in Int
      <4>1. \A i \in 1..(k + 1) : h[i] \in Int
        BY <2>3, <3>2
      <4> QED BY <3>0, <4>1, UpTo
    <3>8. Total(h, 1..(k + 1)) = h[k + 1] + Total(h, 1..k)
      <4> DEFINE S == 1..(k + 1)
      <4>1. IsFiniteSet(S) /\ k + 1 \in S /\ S \ {k + 1} = 1..k /\ \A i \in S : h[i] \in Int
        BY <3>7
      <4> HIDE DEF S
      <4>2. Total(h, S) = h[k + 1] + Total(h, S \ {k + 1})
        BY <4>1, TotalStep
      <4> QED BY <4>1, <4>2 DEF S
    <3>9. h[k + 1] = Sum(t) /\ h[k + 1] \in Int
      BY <2>3, <3>2
    <3>10. Total(h, 1..k) \in Int
      <4>1. IsFiniteSet(1..k)
        BY ONLY <3>0, UpTo
      <4>2. \A i \in 1..k : h[i] \in Int
        BY <2>3, <3>0, <3>2
      <4> QED BY <4>1, <4>2, TotalWhole
    <3> HIDE DEF s, t
    <3>11. Sum(s \o t) = Total(h, 1..k) + h[k + 1]
      BY <3>1, <3>6, <3>9 DEF s
    <3> QED BY <3>3, <3>8, <3>9, <3>10, <3>11
  <2>7. P = Nat
    <3> HIDE DEF P
    <3>1. P \in SUBSET Nat
      BY DEF P
    <3> QED BY <2>5, <2>6, <3>1, EveryNatural
  <2>8. N - 1 \in Nat /\ (N - 1) + 1 = N /\ N \in 1..N
    BY <1>0, <1>2
  <2>9. N - 1 \in P
    BY <2>7, <2>8
  <2>10. Sum(flat[N]) = Total(h, 1..N)
    BY <2>8, <2>9
  <2> QED BY <2>1, <2>2, <2>8, <2>10 DEF Sum
<1> QED BY <1>1, <1>2
-----------------------------------------------------------------------------
(* A row is split over the principals that a trail names. *)

LEMMA TotalPositive ==
  ASSUME NEW S, IsFiniteSet(S), S # {}, NEW f, \A x \in S : f[x] \in Nat \ {0}
  PROVE  Total(f, S) \in Nat \ {0}
<1>1. PICK x \in S : TRUE
  OBVIOUS
<1>2. \A y \in S : f[y] \in Int
  OBVIOUS
<1>3. Total(f, S) = f[x] + Total(f, S \ {x})
  BY <1>2, TotalStep
<1>4. Total(f, S \ {x}) \in Nat
  <2> DEFINE R == S \ {x}
  <2>1. IsFiniteSet(R) /\ \A y \in R : f[y] \in Nat
    BY FS_Subset
  <2> HIDE DEF R
  <2>2. Total(f, R) \in Nat
    BY <2>1, TotalNatural
  <2> QED BY <2>2 DEF R
<1>5. f[x] \in Nat \ {0}
  OBVIOUS
<1> QED BY <1>3, <1>4, <1>5

WeightsIn(matching) == [e \in matching |-> Weight(e, matching)]
EventsOf(actor, matching) == {e \in matching : Principal(e) = actor}

LEMMA WeightIs ==
  ASSUME NEW matching, IsFiniteSet(matching), NEW actor
  PROVE  WeightOf(actor, matching) = Total(WeightsIn(matching), EventsOf(actor, matching))
<1> DEFINE S == EventsOf(actor, matching)
           V(e) == Weight(e, matching)
           f == WeightsIn(matching)
           iter == CHOOSE g : g = [s \in SUBSET S |-> IF s = {} THEN 0 ELSE V(Some(s)) + g[s \ {Some(s)}]]
<1>1. WeightOf(actor, matching) = iter[S]
  BY DEF WeightOf, MapThenSumSet, MapThenFoldSet, Some, EventsOf
<1>2. \A e \in S : f[e] = V(e)
  BY DEF WeightsIn, EventsOf
<1>0. IsFiniteSet(S)
  BY FS_Subset DEF EventsOf
<1> HIDE DEF V, f, S
<1>3. \A s \in SUBSET S : s # {} => Some(s) \in S
  BY DEF Some
<1>4. ASSUME NEW g
      PROVE  Sums(g, f, S) <=> g = [s \in SUBSET S |-> IF s = {} THEN 0 ELSE V(Some(s)) + g[s \ {Some(s)}]]
  <2>1. ASSUME NEW s \in SUBSET S
        PROVE  Summed(f, g, s) = IF s = {} THEN 0 ELSE V(Some(s)) + g[s \ {Some(s)}]
    BY <1>2, <1>3 DEF Summed
  <2> QED BY <2>1 DEF Sums
<1>5. \E g : g = [s \in SUBSET S |-> IF s = {} THEN 0 ELSE V(Some(s)) + g[s \ {Some(s)}]]
  <2>1. PICK g : Sums(g, f, S)
    BY <1>0, SumsExist
  <2> QED BY <1>4, <2>1
<1>6. iter = [s \in SUBSET S |-> IF s = {} THEN 0 ELSE V(Some(s)) + iter[s \ {Some(s)}]]
  BY <1>5
<1> HIDE DEF iter
<1>7. Sums(iter, f, S)
  BY <1>4, <1>6
<1>8. S \in SUBSET S
  OBVIOUS
<1>9. iter[S] = Total(f, S)
  BY <1>0, <1>7, <1>8, TotalIs
<1> QED BY <1>1, <1>9 DEF S, f

\* An event that is counted by its tokens has some.
LEMMA EventsWeigh ==
  ASSUME NEW matching, AreEvents(matching), NEW e \in matching
  PROVE  Weight(e, matching) \in Nat \ {0} /\ Principal(e) \in Principals
<1>1. e.tokens \in Nat \cup {None} /\ e.actor \in Principals \cup {None}
  BY DEF AreEvents, IsEvent
<1>2. CASE \A x \in matching : x.tokens # None /\ x.tokens # 0
  <2>1. WeightMethod(matching) = "token_count"
    BY <1>2 DEF WeightMethod
  <2> QED BY <1>1, <1>2, <2>1, ActorNamesListed DEF Weight, Principal, FirstOf, Principals, Unattributed
<1>3. CASE ~ \A x \in matching : x.tokens # None /\ x.tokens # 0
  <2>1. WeightMethod(matching) = "invocation_count"
    BY <1>3 DEF WeightMethod
  <2> QED BY <1>1, <2>1, ActorNamesListed DEF Weight, Principal, FirstOf, Principals, Unattributed
<1> QED BY <1>2, <1>3

\* Every actor that has a weight is a principal of the events, and has some.
AreWeights(weights, matching) ==
  /\ DOMAIN weights = {Principal(e) : e \in matching} /\ DOMAIN weights \subseteq Principals
  /\ IsFiniteSet(DOMAIN weights) /\ DOMAIN weights # {}
  /\ \A actor \in DOMAIN weights : weights[actor] \in Nat \ {0}

LEMMA ActorsWeigh ==
  ASSUME NEW matching, AreEvents(matching), matching # {}
  PROVE  AreWeights(ActorWeights(matching), matching)
<1> DEFINE weights == ActorWeights(matching)
<1>1. DOMAIN weights = {Principal(e) : e \in matching} /\ DOMAIN weights # {}
  BY DEF ActorWeights
<1>2. IsFiniteSet(DOMAIN weights)
  <2> DEFINE p == [e \in matching |-> Principal(e)]
  <2>1. {Principal(e) : e \in matching} = {p[e] : e \in matching}
    OBVIOUS
  <2>2. IsFiniteSet(matching)
    BY DEF AreEvents
  <2> HIDE DEF p
  <2>3. IsFiniteSet({p[e] : e \in matching})
    BY <2>2, ImageIsFinite
  <2> QED BY <1>1, <2>1, <2>3
<1>3. DOMAIN weights \subseteq Principals
  BY <1>1, EventsWeigh
<1>4. ASSUME NEW actor \in DOMAIN weights PROVE weights[actor] \in Nat \ {0}
  <2> DEFINE S == EventsOf(actor, matching)
             f == WeightsIn(matching)
  <2>1. weights[actor] = Total(f, S)
    BY <1>1, WeightIs DEF ActorWeights, AreEvents
  <2>2. IsFiniteSet(S) /\ S # {}
    BY <1>1, FS_Subset DEF EventsOf, AreEvents
  <2>3. \A e \in S : f[e] \in Nat \ {0}
    BY EventsWeigh DEF EventsOf, WeightsIn
  <2> HIDE DEF S, f
  <2> QED BY <2>1, <2>2, <2>3, TotalPositive
<1> QED BY <1>1, <1>2, <1>3, <1>4 DEF AreWeights

LEMMA ActorsRanked ==
  ASSUME NEW weights, NEW matching, AreWeights(weights, matching)
  PROVE  /\ IsList(RankedActors(weights)) /\ Len(RankedActors(weights)) \in Nat \ {0}
         /\ \A i \in 1..Len(RankedActors(weights)) : RankedActors(weights)[i] \in DOMAIN weights
         /\ TotalWeight(weights) \in Nat \ {0}
<1> DEFINE N == Len(ActorNames)
           places == {i \in 1..N : ActorNames[i] \in DOMAIN weights}
           weight(i) == weights[ActorNames[i]]
           before == {p \in places \X places : \/ weight(p[1]) > weight(p[2])
                                               \/ weight(p[1]) = weight(p[2]) /\ p[1] < p[2]}
           n == Cardinality(places)
           order == Ordering(places, before)
           names == [i \in 1..n |-> ActorNames[order[i]]]
<1>1. RankedActors(weights) = names
  BY DEF RankedActors
<1>2. N \in Nat /\ IsFiniteSet(places) /\ n \in Nat /\ places \in SUBSET Int
  <2>1. N \in Nat
    BY ActorNamesListed DEF IsList
  <2>2. IsFiniteSet(places)
    BY <2>1, UpTo, FS_Subset
  <2> QED BY <2>1, <2>2, FS_CardinalityType
<1>3. \A i \in places : weight(i) \in Int /\ ActorNames[i] \in DOMAIN weights
  BY DEF AreWeights
<1>4. places # {}
  <2>1. PICK a : a \in DOMAIN weights
    BY DEF AreWeights
  <2>2. a \in Principals
    BY <2>1 DEF AreWeights
  <2> QED BY <2>1, <2>2 DEF Principals
<1> HIDE DEF weight, places
<1>5. Orders(before, places)
  <2>1. \A i, j \in places : <<i, j>> \in before <=> weight(i) > weight(j) \/ (weight(i) = weight(j) /\ i < j)
    OBVIOUS
  <2> HIDE DEF before
  <2> QED BY <1>2, <1>3, <2>1 DEF Orders
<1> HIDE DEF before
<1>6. Lists(order, places, before)
  BY <1>2, <1>5, OrderingLists
<1>7. order \in [1..n -> places] /\ \E m \in 1..n : TRUE
  BY <1>4, <1>6 DEF Lists
<1> HIDE DEF order, n
<1>8. IsList(names) /\ Len(names) = n
  <2>1. DOMAIN names = 1..n /\ names = [i \in 1..n |-> names[i]]
    OBVIOUS
  <2> HIDE DEF names
  <2> QED BY <1>2, <2>1, ListOf
<1>9. n # 0
  BY <1>2, <1>7
<1>10. \A i \in 1..n : names[i] \in DOMAIN weights
  BY <1>3, <1>7
<1>11. TotalWeight(weights) \in Nat \ {0}
  <2> DEFINE S == DOMAIN weights
  <2>1. TotalWeight(weights) = Total(weights, S)
    BY DEF TotalWeight, Total
  <2>2. IsFiniteSet(S) /\ S # {} /\ \A x \in S : weights[x] \in Nat \ {0}
    BY DEF AreWeights
  <2> HIDE DEF S
  <2>3. Total(weights, S) \in Nat \ {0}
    BY <2>2, TotalPositive
  <2> QED BY <2>1, <2>3
<1> HIDE DEF names
<1> QED BY <1>1, <1>2, <1>8, <1>9, <1>10, <1>11

\* A share of a row: all of it but who pays, how much and for how much.
IsShare(part, r) ==
  /\ DOMAIN part = DOMAIN r /\ part = [f \in DOMAIN part |-> part[f]]
  /\ part.cost \in Int /\ part.quantity \in Int
  /\ \A f \in DOMAIN r \ {"actor", "cost", "quantity"} : part[f] = r[f]
IsCharge(r) == IsRecord(r) /\ IsUnsplit(r)

LEMMA ActorShare ==
  ASSUME NEW r, IsCharge(r), NEW actor, NEW weight \in Nat, NEW total \in Nat \ {0}
  PROVE  /\ IsShare(ActorRecord(r, actor, weight, total), r)
         /\ ActorRecord(r, actor, weight, total).actor = actor
         /\ ActorRecord(r, actor, weight, total).cost = RoundDiv(r.cost * weight, total)
<1> DEFINE cost == RoundDiv(r.cost * weight, total)
           quantity == RoundDiv(r.quantity * weight, total)
           part == [[[r EXCEPT !.actor = actor] EXCEPT !.cost = cost] EXCEPT !.quantity = quantity]
<1>1. r.cost * weight \in Int /\ r.quantity * weight \in Int
  <2>1. r.cost \in Int /\ r.quantity \in Int
    BY DEF IsCharge, IsRecord
  <2> QED BY <2>1
<1>2. cost \in Int /\ quantity \in Int
  BY <1>1, RoundedIsWhole
<1>3. ActorRecord(r, actor, weight, total) = part
  BY DEF ActorRecord
<1>4. {"service", "region", "resource", "owner", "day", "actor", "cost", "quantity"} \subseteq DOMAIN r
  BY DEF IsCharge, IsUnsplit
<1> HIDE DEF cost, quantity
<1>5. DOMAIN part = DOMAIN r /\ part.actor = actor /\ part.cost = cost /\ part.quantity = quantity
  BY <1>4
<1>6. \A f \in DOMAIN r \ {"actor", "cost", "quantity"} : part[f] = r[f]
  OBVIOUS
<1>7. part = [f \in DOMAIN part |-> part[f]]
  OBVIOUS
<1> HIDE DEF part
<1> QED BY <1>2, <1>3, <1>5, <1>6, <1>7 DEF IsShare, cost

\* The shares of a row.
AreShares(parts, r) == IsList(parts) /\ Len(parts) # 0 /\ \A i \in 1..Len(parts) : IsShare(parts[i], r)
ActorsOf(parts) == [i \in 1..Len(parts) |-> parts[i].actor]

LEMMA CostsAreList ==
  ASSUME NEW parts, IsList(parts), \A i \in 1..Len(parts) : parts[i].cost \in Int
  PROVE  /\ IsList(CostsOf(parts)) /\ Len(CostsOf(parts)) = Len(parts)
         /\ SumSeq(CostsOf(parts)) = Total(CostsOf(parts), 1..Len(parts))
         /\ SumSeq(CostsOf(parts)) \in Int
<1> DEFINE s == CostsOf(parts)
           n == Len(parts)
<1>1. DOMAIN s = 1..n /\ s = [i \in 1..n |-> s[i]] /\ n \in Nat /\ \A i \in 1..n : s[i] \in Int
  BY DEF CostsOf, IsList
<1> HIDE DEF s, n
<1>2. IsList(s) /\ Len(s) = n
  BY <1>1, ListOf
<1>3. SumSeq(s) = Total(s, 1..n) /\ SumSeq(s) \in Int
  BY <1>1, <1>2, SumOfList
<1> QED BY <1>2, <1>3 DEF s, n

\* The largest share takes what the others leave.
LEMMA ResidualAbsorbed ==
  ASSUME NEW r, IsCharge(r), NEW parts, AreShares(parts, r)
  PROVE  /\ AreShares(AbsorbResidual(parts, r), r)
         /\ Len(AbsorbResidual(parts, r)) = Len(parts)
         /\ \A i \in 1..Len(parts) : AbsorbResidual(parts, r)[i].actor = parts[i].actor
         /\ Total(CostsOf(AbsorbResidual(parts, r)), 1..Len(parts)) = r.cost
<1> DEFINE n == Len(parts)
           costs == CostsOf(parts)
           quantities == [i \in 1..n |-> parts[i].quantity]
           left == r.cost - SumSeq(costs)
           over == r.quantity - SumSeq(quantities)
           first == [[parts[1] EXCEPT !.cost = parts[1].cost + left] EXCEPT !.quantity = parts[1].quantity + over]
           new == [parts EXCEPT ![1] = first]
<1>1. n \in Nat \ {0} /\ IsList(parts) /\ \A i \in 1..n : IsShare(parts[i], r)
  BY DEF AreShares, IsList
<1>2. left \in Int /\ Total(costs, 1..n) = SumSeq(costs) /\ SumSeq(costs) \in Int
  <2>1. r.cost \in Int /\ \A i \in 1..Len(parts) : parts[i].cost \in Int
    BY <1>1 DEF IsCharge, IsRecord, IsShare
  <2>2. SumSeq(costs) \in Int /\ Total(costs, 1..n) = SumSeq(costs)
    BY <1>1, <2>1, CostsAreList
  <2> HIDE DEF costs
  <2> QED BY <2>1, <2>2
<1>3. over \in Int
  <2>1. r.quantity \in Int /\ \A i \in 1..n : quantities[i] \in Int
    BY <1>1 DEF IsCharge, IsRecord, IsShare
  <2>2. DOMAIN quantities = 1..n /\ quantities = [i \in 1..n |-> quantities[i]]
    OBVIOUS
  <2> HIDE DEF quantities
  <2>3. IsList(quantities) /\ Len(quantities) = n
    BY <1>1, <2>2, ListOf
  <2>4. SumSeq(quantities) \in Int
    BY <2>1, <2>3, SumOfList
  <2> QED BY <2>1, <2>4
<1>4. DOMAIN parts = 1..n /\ parts = [i \in 1..n |-> parts[i]]
  BY <1>1 DEF IsList
<1>0. 1 \in 1..n
  BY <1>1
<1>5a. IsShare(parts[1], r) /\ {"actor", "cost", "quantity"} \subseteq DOMAIN parts[1]
  <2>1. IsShare(parts[1], r)
    BY <1>0, <1>1
  <2> QED BY <2>1 DEF IsShare, IsCharge, IsUnsplit
<1>5. AbsorbResidual(parts, r) = new
  <2>1. [i \in 1..Len(parts) |-> parts[i].cost] = costs
    BY DEF CostsOf
  <2> HIDE DEF costs
  <2>2. AbsorbResidual(parts, r) = [parts EXCEPT ![1].cost = @ + left, ![1].quantity = @ + over]
    BY <2>1 DEF AbsorbResidual
  <2>3. 1 \in DOMAIN parts
    BY <1>1, <1>4
  <2> HIDE DEF left, over, n
  <2> DEFINE once == [parts EXCEPT ![1] = [parts[1] EXCEPT !.cost = parts[1].cost + left]]
  <2>4. once[1] = [parts[1] EXCEPT !.cost = parts[1].cost + left]
    BY <2>3
  <2>5. AbsorbResidual(parts, r) = [once EXCEPT ![1] = [once[1] EXCEPT !.quantity = once[1].quantity + over]]
    BY <2>2
  <2>6. [once EXCEPT ![1] = [once[1] EXCEPT !.quantity = once[1].quantity + over]]
          = [parts EXCEPT ![1] = [once[1] EXCEPT !.quantity = once[1].quantity + over]]
    OBVIOUS
  <2>7. [once[1] EXCEPT !.quantity = once[1].quantity + over]
          = [[parts[1] EXCEPT !.cost = parts[1].cost + left] EXCEPT !.quantity = parts[1].quantity + over]
    <3>1. [parts[1] EXCEPT !.cost = parts[1].cost + left].quantity = parts[1].quantity
      BY <1>5a
    <3> HIDE DEF once
    <3> QED BY <2>4, <3>1
  <2> HIDE DEF once
  <2> QED BY <2>5, <2>6, <2>7
<1> HIDE DEF costs, quantities, left, over
<1>6. /\ DOMAIN parts[1] = DOMAIN r /\ parts[1].cost \in Int /\ parts[1].quantity \in Int
      /\ \A f \in DOMAIN r \ {"actor", "cost", "quantity"} : parts[1][f] = r[f]
      /\ {"actor", "cost", "quantity"} \subseteq DOMAIN r
  BY <1>5a DEF IsShare, IsCharge, IsUnsplit
<1>7. IsShare(first, r) /\ first.actor = parts[1].actor /\ first.cost = parts[1].cost + left
  <2>1. /\ DOMAIN first = DOMAIN r /\ first = [f \in DOMAIN first |-> first[f]]
        /\ first.cost = parts[1].cost + left /\ first.quantity = parts[1].quantity + over
        /\ first.actor = parts[1].actor
    BY <1>6
  <2>2. \A f \in DOMAIN r \ {"actor", "cost", "quantity"} : first[f] = r[f]
    BY <1>6
  <2> HIDE DEF first
  <2>3. first.cost \in Int /\ first.quantity \in Int
    BY <1>2, <1>3, <1>6, <2>1
  <2> QED BY <2>1, <2>2, <2>3 DEF IsShare
<1> HIDE DEF first
<1>8. DOMAIN new = 1..n /\ new = [i \in 1..n |-> new[i]] /\ new[1] = first /\ \A i \in (1..n) \ {1} : new[i] = parts[i]
  <2>1. DOMAIN parts = 1..n
    BY <1>4
  <2> HIDE DEF n
  <2> QED BY <1>0, <2>1
<1> HIDE DEF new
<1>9. IsList(new) /\ Len(new) = n
  BY <1>1, <1>8, ListOf
<1>10. AreShares(new, r)
  BY <1>1, <1>7, <1>8, <1>9 DEF AreShares
<1>11. \A i \in 1..n : new[i].actor = parts[i].actor
  BY <1>7, <1>8
<1>12. Total(CostsOf(new), 1..n) = r.cost
  <2> DEFINE S == 1..n
             e == CostsOf(new)
  <2>1. IsFiniteSet(S) /\ 1 \in S
    BY <1>1, UpTo
  <2>2. \A i \in S : costs[i] = parts[i].cost /\ e[i] = new[i].cost
    BY <1>9 DEF CostsOf, costs
  <2>3. WholeOn(costs, S) /\ WholeOn(e, S)
    BY <1>1, <1>9, <1>10, <2>2 DEF WholeOn, AreShares, IsShare
  <2>4. DiffersAt(e, costs, S, 1, left)
    BY <1>7, <1>8, <2>1, <2>2 DEF DiffersAt
  <2>5. r.cost \in Int
    BY DEF IsCharge, IsRecord
  <2>6. Total(costs, S) = SumSeq(costs)
    BY <1>2
  <2> HIDE DEF S, e
  <2>7. Total(e, S) = left + Total(costs, S)
    BY <1>2, <2>1, <2>3, <2>4, TotalRaised
  <2>8. left = r.cost - SumSeq(costs)
    BY DEF left
  <2> QED BY <1>2, <2>5, <2>6, <2>7, <2>8 DEF S, e
<1> HIDE DEF n
<1> QED BY <1>5, <1>9, <1>10, <1>11, <1>12 DEF n

\* A row is split into shares of it, of the actors of its events or of nobody.
SplitsRow(parts, r, events) ==
  /\ AreShares(parts, r) /\ Total(CostsOf(parts), 1..Len(parts)) = r.cost
  /\ \A i \in 1..Len(parts) : parts[i].actor = Unattributed \/ \E e \in MatchingEvents(r, events) : Principal(e) = parts[i].actor

LEMMA RoundedByOne ==
  ASSUME NEW a \in Int
  PROVE  RoundDiv(a * 1, 1) = a
<1>1. a * 1 = a /\ a \div 1 = a /\ a % 1 = 0
  OBVIOUS
<1> QED BY <1>1 DEF RoundDiv

LEMMA RowSplit ==
  ASSUME NEW r, IsCharge(r), NEW events, AreEvents(events)
  PROVE  SplitsRow(AllocateRecord(r, events), r, events)
<1> DEFINE matching == MatchingEvents(r, events)
<1>1. AreEvents(matching)
  BY FS_Subset DEF AreEvents, MatchingEvents
<1>2. CASE matching = {}
  <2> DEFINE whole == ActorRecord(r, Unattributed, 1, 1)
             parts == <<whole>>
  <2>1. AllocateRecord(r, events) = parts
    BY <1>2 DEF AllocateRecord
  <2>2. IsShare(whole, r) /\ whole.actor = Unattributed /\ whole.cost = RoundDiv(r.cost * 1, 1)
    BY ActorShare
  <2>3. r.cost \in Int
    BY DEF IsCharge, IsRecord
  <2>4. whole.cost = r.cost
    BY <2>2, <2>3, RoundedByOne
  <2> HIDE DEF whole
  <2>5. IsList(parts) /\ Len(parts) = 1 /\ parts[1] = whole /\ 1..Len(parts) = {1}
    BY DEF IsList
  <2> HIDE DEF parts
  <2>6. AreShares(parts, r)
    BY <2>2, <2>5 DEF AreShares
  <2>7. Total(CostsOf(parts), {1}) = r.cost
    <3> DEFINE f == CostsOf(parts)
               S == {1}
    <3>1. f[1] = r.cost
      BY <2>4, <2>5 DEF CostsOf
    <3>2. IsFiniteSet(S) /\ 1 \in S /\ S \ {1} = {} /\ \A i \in S : f[i] \in Int
      BY <2>3, <3>1, FS_Singleton
    <3> HIDE DEF f, S
    <3>3. Total(f, S) = f[1] + Total(f, S \ {1})
      BY <3>2, TotalStep
    <3>4. Total(f, S) = f[1] + 0
      BY <3>2, <3>3, TotalNone
    <3> QED BY <2>3, <3>1, <3>4 DEF f, S
  <2> QED BY <2>1, <2>2, <2>5, <2>6, <2>7 DEF SplitsRow
<1>3. CASE matching # {}
  <2> DEFINE weights == ActorWeights(matching)
             names == RankedActors(weights)
             total == TotalWeight(weights)
             parts == Shares(r, weights, names, total)
             split == AbsorbResidual(parts, r)
  <2>1. AllocateRecord(r, events) = split
    BY <1>3 DEF AllocateRecord, SplitRecord
  <2> HIDE DEF matching
  <2>2. AreWeights(weights, matching)
    BY <1>1, <1>3, ActorsWeigh
  <2> HIDE DEF weights
  <2>3. /\ IsList(names) /\ Len(names) \in Nat \ {0} /\ total \in Nat \ {0}
        /\ \A i \in 1..Len(names) : names[i] \in DOMAIN weights
    BY <2>2, ActorsRanked
  <2> HIDE DEF names, total
  <2>4. DOMAIN parts = 1..Len(names) /\ parts = [i \in 1..Len(names) |-> parts[i]]
    BY DEF Shares
  <2>5. \A i \in 1..Len(names) : parts[i] = ActorRecord(r, names[i], weights[names[i]], total)
    BY DEF Shares
  <2> HIDE DEF parts
  <2>6. IsList(parts) /\ Len(parts) = Len(names)
    BY <2>3, <2>4, ListOf
  <2>7. \A i \in 1..Len(names) : IsShare(parts[i], r) /\ parts[i].actor = names[i]
    <3> TAKE i \in 1..Len(names)
    <3>1. weights[names[i]] \in Nat
      BY <2>2, <2>3 DEF AreWeights
    <3> QED BY <2>3, <2>5, <3>1, ActorShare
  <2>8. AreShares(parts, r)
    BY <2>3, <2>6, <2>7 DEF AreShares
  <2>9. /\ AreShares(split, r) /\ Len(split) = Len(parts)
        /\ \A i \in 1..Len(parts) : split[i].actor = parts[i].actor
        /\ Total(CostsOf(split), 1..Len(parts)) = r.cost
    BY <2>8, ResidualAbsorbed
  <2> HIDE DEF split
  <2>10. \A i \in 1..Len(split) : \E e \in matching : Principal(e) = split[i].actor
    BY <2>2, <2>3, <2>6, <2>7, <2>9 DEF AreWeights
  <2> QED BY <2>1, <2>9, <2>10 DEF SplitsRow, matching
<1> QED BY <1>2, <1>3

\* The class of a record: what a split leaves as it is.
ClassOf(x) == [x EXCEPT !.actor = None, !.cost = 0, !.quantity = 0]
CostIn(x, C) == IF ClassOf(x) \in C THEN x.cost ELSE 0
CostsIn(records, C) == [i \in 1..Len(records) |-> CostIn(records[i], C)]
ScopedIn(records, C, current, baseline) ==
  [i \in 1..Len(records) |-> IF InScope(records[i], current, baseline) THEN CostIn(records[i], C) ELSE 0]

LEMMA ShareIsCharge ==
  ASSUME NEW r, IsCharge(r), NEW part, IsShare(part, r)
  PROVE  /\ IsRecord(part) /\ ClassOf(part) = ClassOf(r)
         /\ ClassOf(r) = [r EXCEPT !.cost = 0, !.quantity = 0]
         /\ part.day = r.day /\ part.resource = r.resource /\ part.region = r.region
         /\ part.service = r.service /\ part.owner = r.owner
<1>1. /\ {"service", "region", "resource", "owner", "day", "actor", "cost", "quantity"} \subseteq DOMAIN r
      /\ r = [f \in DOMAIN r |-> r[f]] /\ r.actor = None /\ r.service # None /\ r.day \in Int
  BY DEF IsCharge, IsUnsplit, IsRecord
<1>2. /\ DOMAIN part = DOMAIN r /\ part.cost \in Int /\ part.quantity \in Int
      /\ \A f \in DOMAIN r \ {"actor", "cost", "quantity"} : part[f] = r[f]
  BY DEF IsShare
<1>3. /\ part.day = r.day /\ part.resource = r.resource /\ part.region = r.region
      /\ part.service = r.service /\ part.owner = r.owner
  BY <1>1, <1>2
<1>4. ClassOf(part) = ClassOf(r)
  <2>1. ASSUME NEW x, DOMAIN x = DOMAIN r
        PROVE  ClassOf(x) = [f \in DOMAIN r |-> IF f = "actor" THEN None
                               ELSE IF f \in {"cost", "quantity"} THEN 0 ELSE x[f]]
    BY <1>1, <2>1 DEF ClassOf
  <2>2. ClassOf(part) = [f \in DOMAIN r |-> IF f = "actor" THEN None
                               ELSE IF f \in {"cost", "quantity"} THEN 0 ELSE part[f]]
    BY <1>2, <2>1
  <2>3. ClassOf(r) = [f \in DOMAIN r |-> IF f = "actor" THEN None
                               ELSE IF f \in {"cost", "quantity"} THEN 0 ELSE r[f]]
    BY <2>1
  <2> QED BY <1>2, <2>2, <2>3
<1>5. ClassOf(r) = [r EXCEPT !.cost = 0, !.quantity = 0]
  <2>1. [r EXCEPT !.actor = None] = r
    BY <1>1
  <2> QED BY <2>1 DEF ClassOf
<1> QED BY <1>1, <1>2, <1>3, <1>4, <1>5 DEF IsRecord

\* The shares of all of the rows in scope, one row after the other.
Parts(records, events, current, baseline) == AllocateInPeriods(records, events, current, baseline).records
InPlay(events, current, baseline) == {e \in events : InScope(e, current, baseline)}
OfARow(part, records, events, current, baseline) ==
  \E i \in 1..Len(records) :
    /\ InScope(records[i], current, baseline) /\ IsShare(part, records[i])
    /\ \/ part.actor = Unattributed
       \/ \E e \in MatchingEvents(records[i], InPlay(events, current, baseline)) : Principal(e) = part.actor

LEMMA PartsMade ==
  ASSUME NEW records, IsBill(records), NEW events, AreEvents(events), NEW current, NEW baseline, NEW C,
         NEW parts, parts = Parts(records, events, current, baseline)
  PROVE  /\ IsList(parts)
         /\ \A k \in 1..Len(parts) : OfARow(parts[k], records, events, current, baseline)
         /\ Total(CostsIn(parts, C), 1..Len(parts))
              = Total(ScopedIn(records, C, current, baseline), 1..Len(records))
<1> DEFINE places == {i \in 1..Len(records) : InScope(records[i], current, baseline)}
           kept == ElementsAt(records, places)
           evs == InPlay(events, current, baseline)
           seqs == [i \in 1..Len(kept) |-> AllocateRecord(kept[i], evs)]
           all == UNION {{seqs[i][j] : j \in 1..Len(seqs[i])} : i \in 1..Len(kept)}
           v == [x \in all |-> CostIn(x, C)]
           h == [i \in 1..Len(kept) |-> CostIn(kept[i], C)]
<1>1. parts = FlattenSeq(seqs)
  BY DEF Parts, AllocateInPeriods, AllocateActorCosts, Allocation, InPlay
<1>2. AreEvents(evs)
  BY FS_Subset DEF AreEvents, InPlay
<1>3. IsList(records) /\ \A i \in 1..Len(records) : IsCharge(records[i])
  BY DEF IsBill, IsCharge
<1>4. IsList(kept) /\ \A m \in 1..Len(kept) : \E i \in places : kept[m] = records[i]
  <2>1. places \in SUBSET (1..Len(records))
    OBVIOUS
  <2> HIDE DEF places
  <2> QED BY <1>3, <2>1, KeptList
<1>5. \A m \in 1..Len(kept) : IsCharge(kept[m])
  <2> HIDE DEF kept
  <2> QED BY <1>3, <1>4
<1> HIDE DEF kept, evs
<1>6. ASSUME NEW i \in 1..Len(kept) PROVE SplitsRow(seqs[i], kept[i], evs)
  BY <1>2, <1>5, RowSplit
<1>7. /\ Len(seqs) = Len(kept) /\ IsList(seqs) /\ AreLists(seqs)
  <2>1. DOMAIN seqs = 1..Len(kept) /\ seqs = [i \in 1..Len(kept) |-> seqs[i]] /\ Len(kept) \in Nat
    BY <1>4 DEF IsList
  <2>2. \A i \in 1..Len(kept) : IsList(seqs[i])
    BY <1>6 DEF SplitsRow, AreShares
  <2> HIDE DEF seqs
  <2>3. IsList(seqs) /\ Len(seqs) = Len(kept)
    BY <2>1, ListOf
  <2> QED BY <2>2, <2>3 DEF AreLists
<1> HIDE DEF seqs
<1>8. \A i \in 1..Len(kept) : \A j \in 1..Len(seqs[i]) :
        /\ v[seqs[i][j]] = CostIn(seqs[i][j], C) /\ IsShare(seqs[i][j], kept[i])
        /\ ClassOf(seqs[i][j]) = ClassOf(kept[i]) /\ seqs[i][j].cost \in Int
        /\ v[seqs[i][j]] \in Int
  <2> TAKE i \in 1..Len(kept)
  <2> TAKE j \in 1..Len(seqs[i])
  <2>1. v[seqs[i][j]] = CostIn(seqs[i][j], C)
    OBVIOUS
  <2>2. IsShare(seqs[i][j], kept[i]) /\ IsCharge(kept[i])
    BY <1>5, <1>6 DEF SplitsRow, AreShares
  <2>3. ClassOf(seqs[i][j]) = ClassOf(kept[i]) /\ seqs[i][j].cost \in Int
    BY <2>2, ShareIsCharge DEF IsShare
  <2> HIDE DEF v
  <2> QED BY <2>1, <2>2, <2>3 DEF CostIn
<1> HIDE DEF v
<1>9. ASSUME NEW i \in 1..Len(kept) PROVE h[i] = Total(Worth(seqs[i], v), 1..Len(seqs[i]))
  <2> DEFINE s == seqs[i]
             S == 1..Len(s)
             f == Worth(s, v)
             e == CostsOf(s)
  <2>1. IsFiniteSet(S)
    <3>1. Len(s) \in Nat
      BY <1>6 DEF SplitsRow, AreShares, IsList
    <3> QED BY <3>1, UpTo
  <2>2. Total(e, S) = kept[i].cost
    BY <1>6 DEF SplitsRow
  <2>3. \A j \in S : f[j] = IF ClassOf(kept[i]) \in C THEN e[j] ELSE 0
    <3> TAKE j \in S
    <3>1. f[j] = v[s[j]] /\ e[j] = s[j].cost
      BY DEF Worth, CostsOf
    <3>2. v[s[j]] = CostIn(s[j], C) /\ ClassOf(s[j]) = ClassOf(kept[i])
      BY <1>8
    <3> QED BY <3>1, <3>2 DEF CostIn
  <2>4. h[i] = IF ClassOf(kept[i]) \in C THEN kept[i].cost ELSE 0
    BY DEF CostIn
  <2> HIDE DEF S, f, e, h
  <2>5. CASE ClassOf(kept[i]) \in C
    <3>1. \A j \in S : f[j] = e[j]
      BY <2>3, <2>5
    <3>2. Total(f, S) = Total(e, S)
      BY <2>1, <3>1, TotalSame
    <3> QED BY <2>2, <2>4, <2>5, <3>2 DEF S, f
  <2>6. CASE ClassOf(kept[i]) \notin C
    <3>1. \A j \in S : f[j] = 0
      BY <2>3, <2>6
    <3>2. Total(f, S) = 0
      BY <2>1, <3>1, TotalZero
    <3> QED BY <2>4, <2>6, <3>2 DEF S, f
  <2> QED BY <2>5, <2>6
<1> HIDE DEF h, all
<1>10. /\ Holds(parts, seqs, Len(seqs))
       /\ Total(Worth(parts, v), 1..Len(parts)) = Total(h, 1..Len(seqs))
  <2>1. \A i \in 1..Len(seqs) : \A j \in 1..Len(seqs[i]) : v[seqs[i][j]] \in Int
    BY <1>7, <1>8
  <2>2. \A i \in 1..Len(seqs) : h[i] = Total(Worth(seqs[i], v), 1..Len(seqs[i]))
    BY <1>7, <1>9
  <2>3. /\ Holds(FlattenSeq(seqs), seqs, Len(seqs))
        /\ Total(Worth(FlattenSeq(seqs), v), 1..Len(FlattenSeq(seqs))) = Total(h, 1..Len(seqs))
    BY ONLY <1>7, <2>1, <2>2, FlatTotal
  <2> QED BY <1>1, <2>3
<1>11. IsList(parts) /\ \A k \in 1..Len(parts) : \E i \in 1..Len(kept) : \E j \in 1..Len(seqs[i]) : parts[k] = seqs[i][j]
  BY <1>7, <1>10 DEF Holds
<1>12. \A k \in 1..Len(parts) : OfARow(parts[k], records, events, current, baseline)
  <2> TAKE k \in 1..Len(parts)
  <2>1. PICK i \in 1..Len(kept) : \E j \in 1..Len(seqs[i]) : parts[k] = seqs[i][j]
    BY <1>11
  <2>2. PICK j \in 1..Len(seqs[i]) : parts[k] = seqs[i][j]
    BY <2>1
  <2>3. PICK at \in places : kept[i] = records[at]
    BY <1>4
  <2>4. /\ IsShare(seqs[i][j], records[at])
        /\ \/ seqs[i][j].actor = Unattributed
           \/ \E e \in MatchingEvents(records[at], evs) : Principal(e) = seqs[i][j].actor
    BY <1>6, <2>3 DEF SplitsRow, AreShares
  <2> QED BY <2>2, <2>3, <2>4 DEF OfARow, evs
<1>13. Total(Worth(parts, v), 1..Len(parts)) = Total(CostsIn(parts, C), 1..Len(parts))
  <2> DEFINE S == 1..Len(parts)
             f == Worth(parts, v)
             e == CostsIn(parts, C)
  <2>1. IsFiniteSet(S)
    BY <1>11, UpTo DEF IsList
  <2>2. ASSUME NEW k \in S PROVE f[k] = e[k]
    <3>1. PICK i \in 1..Len(kept) : \E j \in 1..Len(seqs[i]) : parts[k] = seqs[i][j]
      BY <1>11
    <3>2. PICK j \in 1..Len(seqs[i]) : parts[k] = seqs[i][j]
      BY <3>1
    <3>3. v[parts[k]] = CostIn(parts[k], C)
      BY <1>8, <3>2
    <3> QED BY <3>3 DEF Worth, CostsIn
  <2> HIDE DEF S, f, e
  <2>3. Total(f, S) = Total(e, S)
    BY <2>1, <2>2, TotalSame
  <2> QED BY <2>3 DEF S, f, e
<1>14. Total(h, 1..Len(kept)) = Total(ScopedIn(records, C, current, baseline), 1..Len(records))
  <2> DEFINE w == [x \in {records[i] : i \in 1..Len(records)} |-> CostIn(x, C)]
             f == ScopedIn(records, C, current, baseline)
  <2>1. \A i \in 1..Len(records) : w[records[i]] = CostIn(records[i], C) /\ CostIn(records[i], C) \in Int
    BY <1>3 DEF CostIn, IsCharge, IsRecord
  <2>2. SomeAreWorth(f, records, places, w)
    BY <2>1 DEF SomeAreWorth, ScopedIn
  <2>3. AreWorth(h, kept, w)
    <3> SUFFICES ASSUME NEW m \in 1..Len(kept) PROVE w[kept[m]] \in Int /\ h[m] = w[kept[m]]
      BY DEF AreWorth
    <3>1. PICK i \in places : kept[m] = records[i]
      BY <1>4
    <3>2. h[m] = CostIn(kept[m], C)
      BY DEF h
    <3> HIDE DEF w
    <3> QED BY <2>1, <3>1, <3>2
  <2>4. places \in SUBSET (1..Len(records))
    OBVIOUS
  <2> HIDE DEF places, w, f
  <2>5. Total(h, 1..Len(ElementsAt(records, places))) = Total(f, 1..Len(records))
    BY <1>3, <2>2, <2>3, <2>4, KeptTotal DEF kept
  <2> QED BY <2>5 DEF kept, f
<1> QED BY <1>7, <1>10, <1>11, <1>12, <1>13, <1>14

-----------------------------------------------------------------------------
(* However the bill is cut. *)

\* Rows that are left out have no cost in the current period.
LEMMA RowsInScope ==
  ASSUME NEW records, IsList(records), \A i \in 1..Len(records) : IsRecord(records[i]),
         NEW current, NEW baseline, NEW T,
         T \in SUBSET (1..Len(records)),
         \A i \in 1..Len(records) : InScope(records[i], current, baseline) => i \in T
  PROVE  /\ Total(Spent(records, current), T) = Total(Spent(records, current), 1..Len(records))
         /\ \A i \in 1..Len(records) : Spent(records, current)[i] \in Int
<1> DEFINE S == 1..Len(records)
           f == Spent(records, current)
<1>1. \A i \in S : f[i] \in Int /\ (i \notin T => f[i] = 0)
  BY DEF Spent, IsRecord, InScope
<1>2. IsFiniteSet(S) /\ T \in SUBSET S
  BY UpTo DEF IsList
<1> HIDE DEF S, f
<1>3. Total(f, S) = Total(f, T)
  BY <1>1, <1>2, TotalMasked
<1> QED BY <1>1, <1>3 DEF S, f

\* When every row in scope has a key, the groups come to what all of the rows come to.
LEMMA CutAddsUp ==
  ASSUME NEW records, IsList(records), \A i \in 1..Len(records) : IsRecord(records[i]),
         NEW by, NEW current, NEW baseline, NEW config,
         \A i \in 1..Len(records) :
           InScope(records[i], current, baseline) => KeyOfRow(records[i], by, current, baseline) # None,
         NEW changes, changes = GroupChanges(records, by, current, baseline, config)
  PROVE  /\ IsList(changes) /\ \A j \in 1..Len(changes) : changes[j].current \in Int
         /\ Total(CurrentsOf(changes), 1..Len(changes)) = Total(Spent(records, current), 1..Len(records))
<1> DEFINE resources == ResourcesOf(records)
           n == Len(records)
           groups == Groups(records, by, current, baseline)
           sorted == ByRawChange(groups)
           K == KeysOf(records, by, current, baseline)
           spent == Spent(records, current)
           before == Earlier(records, current)
           m == Len(groups)
           made == [i \in 1..Len(sorted) |-> Candidate(sorted[i], current, baseline, config)]
           cs == CurrentsOf(groups)
           ds == CurrentsOf(changes)
<1>1. GroupsOK(groups, resources) /\ SharesOut(groups, K, spent, before, n)
  <2>1. \A i \in 1..Len(records) : IsRecord(records[i]) /\ records[i].resource \in resources \cup {None}
    BY DEF ResourcesOf
  <2> HIDE DEF resources
  <2> QED BY <2>1, GroupsMade, SharesMade
<1>2. n \in Nat /\ m \in Nat /\ IsFiniteSet(1..m)
  BY <1>1, UpTo DEF IsList, GroupsOK
<1>3. /\ \A i \in 1..n : spent[i] \in Int
      /\ \A i \in 1..n : before[i] \in Int
  BY DEF Spent, Earlier, IsRecord
<1>4. Total(spent, Kept(K, n)) = Total(spent, 1..n)
  <2>1. Kept(K, n) \in SUBSET (1..n) /\ \A i \in 1..n : InScope(records[i], current, baseline) => i \in Kept(K, n)
    BY DEF Kept, KeysOf
  <2> QED BY <2>1, RowsInScope
<1>5. \A j \in 1..m : groups[j].current \in Int
  BY <1>1 DEF GroupsOK, IsGroup
<1>6. changes = made
  BY DEF GroupChanges
<1> HIDE DEF resources, groups, K, spent, before, n
<1>7. PICK order, unused : Sorts(sorted, groups, order, unused)
  BY <1>1, ByChangeSorts
<1>8. SumSeq(cs) = Total(spent, Kept(K, n)) /\ SumSeq(cs) = Total(cs, 1..m)
  <2>1. SumSeq(cs) = Total(spent, Kept(K, n))
    BY <1>1, <1>2, <1>3, GroupsAddUp
  <2>2. DOMAIN cs = 1..m /\ cs = [j \in 1..m |-> cs[j]] /\ \A j \in 1..m : cs[j] \in Int
    BY <1>5 DEF CurrentsOf
  <2> HIDE DEF cs, m
  <2>3. IsList(cs) /\ Len(cs) = m
    BY <1>2, <2>2, ListOf
  <2>4. SumSeq(cs) = Total(cs, 1..m)
    BY <2>2, <2>3, SumOfList
  <2> QED BY <2>1, <2>4
<1> HIDE DEF sorted
<1>9. /\ Len(sorted) = m
      /\ \A j \in 1..m : order[j] \in 1..m /\ sorted[j] = groups[order[j]]
      /\ \A i, j \in 1..m : order[i] = order[j] => i = j
      /\ \A i \in 1..m : \E j \in 1..m : order[j] = i
  BY <1>7 DEF Sorts
<1>10. IsList(made) /\ Len(made) = m /\ \A j \in 1..m : made[j].current = groups[order[j]].current
  <2>1. DOMAIN made = 1..m /\ made = [j \in 1..m |-> made[j]] /\ \A j \in 1..m : made[j].current = sorted[j].current
    BY <1>9 DEF Candidate
  <2> HIDE DEF made, m
  <2> QED BY <1>2, <1>9, <2>1, ListOf
<1> HIDE DEF made
<1>11. \A j \in 1..m : ds[j] = cs[order[j]]
  BY <1>6, <1>9, <1>10 DEF CurrentsOf
<1>12. \A j \in 1..m : cs[j] = groups[j].current /\ cs[j] \in Int
  BY <1>5 DEF CurrentsOf
<1> HIDE DEF cs, ds, m
<1>13. Total(ds, 1..m) = Total(cs, 1..m)
  <2> DEFINE J == 1..m
  <2>1. IsFiniteSet(J) /\ WholeOn(cs, J) /\ Picks(order, J, J) /\ Follows(ds, J, cs, order)
    BY <1>2, <1>9, <1>11, <1>12 DEF WholeOn, Picks, Follows
  <2> HIDE DEF J
  <2>2. Total(ds, J) = Total(cs, J)
    BY <2>1, PickedTotal
  <2> QED BY <2>2 DEF J
<1>14. Len(changes) = m /\ \A j \in 1..m : changes[j].current \in Int
  <2>1. \A j \in 1..m : groups[order[j]].current \in Int
    BY <1>5, <1>9
  <2> QED BY <1>6, <1>10, <2>1
<1> QED BY <1>4, <1>6, <1>8, <1>10, <1>13, <1>14 DEF ds, spent, n

\* A list and its beginning and rest.
LEMMA ListCut ==
  ASSUME NEW s, IsList(s), NEW m \in Nat, m <= Len(s)
  PROVE  /\ IsList(SubSeq(s, 1, m)) /\ IsList(SubSeq(s, m + 1, Len(s)))
         /\ s = SubSeq(s, 1, m) \o SubSeq(s, m + 1, Len(s))
<1> DEFINE n == Len(s)
           V == {s[i] : i \in 1..n}
           a == SubSeq(s, 1, m)
           b == SubSeq(s, m + 1, n)
<1>1. n \in Nat /\ s = [i \in 1..n |-> s[i]] /\ m <= n
  BY DEF IsList
<1>2. s \in Seq(V)
  <2>1. \A i \in 1..n : s[i] \in V
    OBVIOUS
  <2> HIDE DEF V
  <2> QED BY <1>1, <2>1
<1> HIDE DEF V
<1>3. a \in Seq(V) /\ b \in Seq(V) /\ Len(a) = m /\ Len(b) = n - m
  BY <1>1, <1>2
<1>4. (\A i \in 1..m : a[i] = s[i]) /\ (\A i \in 1..(n - m) : b[i] = s[m + i])
  BY <1>1, <1>2
<1> HIDE DEF a, b, n
<1>5. IsList(a) /\ IsList(b)
  <2>1. \A t \in Seq(V) : IsList(t)
    <3> TAKE t \in Seq(V)
    <3>1. t \in [1..Len(t) -> V] /\ Len(t) \in Nat
      BY LenProperties
    <3> QED BY <3>1 DEF IsList
  <2> QED BY <1>3, <2>1
<1>6. s = a \o b
  <2>1. /\ IsList(a \o b) /\ Len(a \o b) = Len(a) + Len(b)
        /\ \A i \in 1..Len(a) : (a \o b)[i] = a[i]
        /\ \A i \in 1..Len(b) : (a \o b)[Len(a) + i] = b[i]
    BY <1>5, Joined
  <2>2. Len(a \o b) = n
    BY <1>1, <1>3, <2>1
  <2>3. \A i \in 1..n : (a \o b)[i] = s[i]
    <3> TAKE i \in 1..n
    <3>1. CASE i \in 1..m
      BY <1>3, <1>4, <2>1, <3>1
    <3>2. CASE i \notin 1..m
      <4>1. i - m \in 1..(n - m) /\ m + (i - m) = i
        BY <1>1, <3>2
      <4> QED BY <1>3, <1>4, <2>1, <4>1
    <3> QED BY <3>1, <3>2
  <2>4. a \o b = [i \in 1..n |-> (a \o b)[i]]
    BY <2>1, <2>2 DEF IsList
  <2> QED BY <1>1, <2>3, <2>4
<1> QED BY <1>5, <1>6 DEF a, b, n

\* A page and what it leaves out come to what all groups come to.
LEMMA PageAddsUp ==
  ASSUME NEW changes, IsList(changes), \A j \in 1..Len(changes) : changes[j].current \in Int
  PROVE  SumSeq(CurrentsOf(GroupPage(changes).groups)) + GroupPage(changes).omittedCurrent
           = Total(CurrentsOf(changes), 1..Len(changes))
<1> DEFINE n == Len(changes)
           m == Smaller(n, GroupLimit)
           shown == SubSeq(changes, 1, m)
           rest == SubSeq(changes, m + 1, n)
           all == {changes[i] : i \in 1..n}
           v == [x \in all |-> x.current]
<1>1. n \in Nat /\ m \in Nat /\ m <= n
  BY LimitAssumption DEF Smaller, IsList
<1>2. GroupPage(changes).groups = shown /\ GroupPage(changes).omittedCurrent = SumSeq(CurrentsOf(rest))
  BY DEF GroupPage, CurrentsOf
<1> HIDE DEF m
<1>3. IsList(shown) /\ IsList(rest) /\ changes = shown \o rest
  BY <1>1, ListCut
<1> HIDE DEF shown, rest
<1>4. /\ Len(changes) = Len(shown) + Len(rest)
      /\ \A i \in 1..Len(shown) : changes[i] = shown[i]
      /\ \A i \in 1..Len(rest) : changes[Len(shown) + i] = rest[i]
      /\ Len(shown) \in Nat /\ Len(rest) \in Nat
  BY <1>3, Joined DEF IsList
<1>5. \A i \in 1..n : v[changes[i]] = changes[i].current /\ v[changes[i]] \in Int
  OBVIOUS
<1> HIDE DEF v
<1>6. \A i \in 1..Len(shown) : v[shown[i]] = shown[i].current /\ v[shown[i]] \in Int
  <2> TAKE i \in 1..Len(shown)
  <2>1. i \in 1..n
    BY <1>4
  <2> QED BY <1>4, <1>5, <2>1
<1>7. \A i \in 1..Len(rest) : v[rest[i]] = rest[i].current /\ v[rest[i]] \in Int
  <2> TAKE i \in 1..Len(rest)
  <2>1. Len(shown) + i \in 1..n
    BY <1>4
  <2> QED BY <1>4, <1>5, <2>1
<1>8. ASSUME NEW s, IsList(s), \A i \in 1..Len(s) : v[s[i]] = s[i].current /\ v[s[i]] \in Int
      PROVE  /\ CurrentsOf(s) = Worth(s, v) /\ SumSeq(CurrentsOf(s)) = Total(Worth(s, v), 1..Len(s))
             /\ SumSeq(CurrentsOf(s)) \in Int
  <2> DEFINE t == Worth(s, v)
  <2>1. CurrentsOf(s) = t
    BY <1>8 DEF CurrentsOf, Worth
  <2>2. DOMAIN t = 1..Len(s) /\ t = [i \in 1..Len(s) |-> t[i]] /\ \A i \in 1..Len(s) : t[i] \in Int
    BY <1>8 DEF Worth
  <2> HIDE DEF t
  <2>3. IsList(t) /\ Len(t) = Len(s)
    BY <1>8, <2>2, ListOf DEF IsList
  <2>4. SumSeq(t) = Total(t, 1..Len(s)) /\ SumSeq(t) \in Int
    BY <2>2, <2>3, SumOfList
  <2> QED BY <2>1, <2>4 DEF t
<1>9. SumSeq(CurrentsOf(shown)) = Total(Worth(shown, v), 1..Len(shown)) /\ SumSeq(CurrentsOf(rest)) = Total(Worth(rest, v), 1..Len(rest))
  BY <1>3, <1>6, <1>7, <1>8
<1>10. CurrentsOf(changes) = Worth(changes, v)
  BY <1>5, <1>8
<1>11. Total(Worth(shown \o rest, v), 1..Len(shown \o rest))
         = Total(Worth(shown, v), 1..Len(shown)) + Total(Worth(rest, v), 1..Len(rest))
  BY <1>3, <1>6, <1>7, JoinedTotal
<1> HIDE DEF n, all
<1> QED BY <1>2, <1>3, <1>9, <1>10, <1>11

LEMMA KeyOfDimension ==
  ASSUME NEW r, IsRecord(r), NEW dimension \in Dimensions, NEW current, NEW baseline,
         InScope(r, current, baseline)
  PROVE  KeyOfRow(r, dimension, current, baseline) # None
<1>1. KeyOfRow(r, dimension, current, baseline) = DimensionKey(r, dimension)
  BY DEF KeyOfRow, Dimensions
<1>2. /\ DimensionKey(r, "service") = r.service
      /\ DimensionKey(r, "region") = FirstOf(r.region, "unknown-region")
      /\ DimensionKey(r, "tag_owner") = FirstOf(r.owner, "untagged")
      /\ DimensionKey(r, "actor") = FirstOf(r.actor, "unattributed")
  BY DEF DimensionKey
<1>3. r.service # None /\ \A x : /\ FirstOf(x, "unknown-region") # None /\ FirstOf(x, "untagged") # None
                                 /\ FirstOf(x, "unattributed") # None
  BY NoneAssumption DEF IsRecord, FirstOf
<1> QED BY <1>1, <1>2, <1>3 DEF Dimensions

LEMMA ClassHasDay ==
  ASSUME NEW r, IsCharge(r)
  PROVE  ClassOf(r).day = r.day
<1>1. {"day", "actor", "cost", "quantity"} \subseteq DOMAIN r
  BY DEF IsCharge, IsUnsplit
<1> QED BY <1>1 DEF ClassOf

\* What a part of a row in scope is.
LEMMA PartIs ==
  ASSUME NEW records, IsBill(records), NEW events, NEW current, NEW baseline,
         NEW part, OfARow(part, records, events, current, baseline)
  PROVE  \E i \in 1..Len(records) :
           /\ InScope(records[i], current, baseline) /\ IsCharge(records[i]) /\ IsRecord(part)
           /\ ClassOf(part) = ClassOf(records[i]) /\ ClassOf(records[i]).day = part.day
           /\ part.day = records[i].day
<1>1. PICK i \in 1..Len(records) : InScope(records[i], current, baseline) /\ IsShare(part, records[i])
  BY DEF OfARow
<1>2. IsCharge(records[i])
  BY DEF IsBill, IsCharge
<1> DEFINE r == records[i]
<1>3. IsCharge(r) /\ IsShare(part, r)
  BY <1>1, <1>2
<1> HIDE DEF r
<1>4. IsRecord(part) /\ ClassOf(part) = ClassOf(r) /\ part.day = r.day
  BY <1>3, ShareIsCharge
<1>5. ClassOf(r).day = r.day
  BY <1>3, ClassHasDay
<1> QED BY <1>1, <1>2, <1>4, <1>5 DEF r

LEMMA PartsAddUp ==
  ASSUME NEW records, IsBill(records), NEW events, AreEvents(events), NEW current, NEW baseline,
         NEW parts, parts = Parts(records, events, current, baseline)
  PROVE  /\ IsList(parts) /\ \A k \in 1..Len(parts) : IsRecord(parts[k])
         /\ Total(Spent(parts, current), 1..Len(parts)) = Total(Spent(records, current), 1..Len(records))
<1> DEFINE n == Len(records)
           m == Len(parts)
           C == {ClassOf(records[i]) : i \in {h \in 1..n : PeriodContains(current, records[h].day)}}
           f == CostsIn(parts, C)
           g == ScopedIn(records, C, current, baseline)
           spent == Spent(records, current)
           split == Spent(parts, current)
<1>1. /\ IsList(parts) /\ Total(f, 1..m) = Total(g, 1..n)
      /\ \A k \in 1..m : OfARow(parts[k], records, events, current, baseline)
  <2> HIDE DEF C
  <2> QED BY PartsMade
<1>2. IsList(records) /\ \A i \in 1..n : IsCharge(records[i]) /\ IsRecord(records[i])
  BY DEF IsBill, IsCharge
<1>3. \A i \in 1..n : ClassOf(records[i]) \in C <=> PeriodContains(current, records[i].day)
  <2> TAKE i \in 1..n
  <2>1. \A h \in 1..n : ClassOf(records[h]).day = records[h].day
    BY <1>2, ClassHasDay
  <2> QED BY <2>1
<1> HIDE DEF C
<1>4. ASSUME NEW k \in 1..m PROVE IsRecord(parts[k]) /\ f[k] = split[k]
  <2>1. PICK i \in 1..n : /\ IsRecord(parts[k]) /\ ClassOf(parts[k]) = ClassOf(records[i])
                          /\ parts[k].day = records[i].day
    BY <1>1, PartIs
  <2> QED BY <1>3, <2>1 DEF CostsIn, CostIn, Spent
<1>5. \A i \in 1..n : g[i] = spent[i]
  <2> TAKE i \in 1..n
  <2>1. g[i] = IF InScope(records[i], current, baseline) THEN CostIn(records[i], C) ELSE 0
    BY DEF ScopedIn
  <2>2. spent[i] = IF PeriodContains(current, records[i].day) THEN records[i].cost ELSE 0
    BY DEF Spent
  <2> QED BY <1>3, <2>1, <2>2 DEF CostIn, InScope
<1>6. IsFiniteSet(1..m) /\ IsFiniteSet(1..n)
  BY <1>1, <1>2, UpTo DEF IsList
<1> HIDE DEF m, n, f, g, spent, split
<1>7. Total(f, 1..m) = Total(split, 1..m)
  BY <1>4, <1>6, TotalSame
<1>8. Total(g, 1..n) = Total(spent, 1..n)
  BY <1>5, <1>6, TotalSame
<1> QED BY <1>1, <1>4, <1>7, <1>8 DEF m, n, spent, split

\* What somebody and what nobody is charged come to what was billed.
LEMMA ChargesAddUp ==
  ASSUME NEW records, IsBill(records), NEW events, AreEvents(events), NEW current, NEW baseline,
         NEW split, split = AllocateInPeriods(records, events, current, baseline),
         NEW rows, rows = {i \in 1..Len(records) : InScope(records[i], current, baseline)}
  PROVE  split.attributed + split.unattributed = Total(CostsOf(records), rows)
<1> DEFINE parts == split.records
           m == Len(parts)
           n == Len(records)
           known == [k \in 1..m |-> IF (parts[k].actor # Unattributed) = TRUE THEN parts[k].cost ELSE 0]
           lost == [k \in 1..m |-> IF (parts[k].actor # Unattributed) = FALSE THEN parts[k].cost ELSE 0]
           costs == CostsOf(parts)
           all == CostsOf(records)
           C == {ClassOf(records[i]) : i \in 1..n}
           f == CostsIn(parts, C)
           g == ScopedIn(records, C, current, baseline)
<1>1. /\ parts = Parts(records, events, current, baseline)
      /\ split.attributed = SumSeq(known) /\ split.unattributed = SumSeq(lost)
  BY DEF Parts, AllocateInPeriods, AllocateActorCosts, Allocation, SpentBy
<1> HIDE DEF parts
<1>2. /\ IsList(parts) /\ Total(f, 1..m) = Total(g, 1..n)
      /\ \A k \in 1..m : OfARow(parts[k], records, events, current, baseline)
  <2> HIDE DEF C
  <2> QED BY <1>1, PartsMade
<1>3. IsList(records) /\ \A i \in 1..n : IsCharge(records[i]) /\ IsRecord(records[i])
  BY DEF IsBill, IsCharge
<1>4. ASSUME NEW k \in 1..m PROVE parts[k].cost \in Int /\ f[k] = costs[k]
  <2>1. PICK i \in 1..n : IsRecord(parts[k]) /\ ClassOf(parts[k]) = ClassOf(records[i])
    BY <1>2, PartIs
  <2>2. ClassOf(records[i]) \in C
    OBVIOUS
  <2> HIDE DEF C
  <2> QED BY <2>1, <2>2 DEF CostsIn, CostIn, CostsOf, IsRecord
<1>5. \A i \in 1..n : all[i] \in Int /\ g[i] = IF i \in rows THEN all[i] ELSE 0
  <2> TAKE i \in 1..n
  <2>1. ClassOf(records[i]) \in C
    OBVIOUS
  <2> HIDE DEF C
  <2> QED BY <1>3, <2>1 DEF ScopedIn, CostIn, CostsOf, IsRecord
<1>6. IsFiniteSet(1..m) /\ IsFiniteSet(1..n) /\ m \in Nat /\ rows \in SUBSET (1..n) /\ IsFiniteSet(rows)
  <2>1. IsFiniteSet(1..m) /\ IsFiniteSet(1..n) /\ m \in Nat /\ rows \in SUBSET (1..n)
    BY <1>2, <1>3, UpTo DEF IsList
  <2> QED BY <2>1, FS_Subset
<1>6a. \A k \in 1..m : /\ known[k] = (IF parts[k].actor # Unattributed THEN parts[k].cost ELSE 0)
                       /\ lost[k] = (IF parts[k].actor # Unattributed THEN 0 ELSE parts[k].cost)
  <2>1. \A a : ((a # Unattributed) = TRUE <=> a # Unattributed) /\ ((a # Unattributed) = FALSE <=> a = Unattributed)
    OBVIOUS
  <2>2. \A k \in 1..m : /\ known[k] = (IF (parts[k].actor # Unattributed) = TRUE THEN parts[k].cost ELSE 0)
                        /\ lost[k] = (IF (parts[k].actor # Unattributed) = FALSE THEN parts[k].cost ELSE 0)
    OBVIOUS
  <2> HIDE DEF known, lost
  <2> QED BY <2>1, <2>2, Zenon
<1>6b. /\ DOMAIN known = 1..m /\ known = [k \in 1..m |-> known[k]]
       /\ DOMAIN lost = 1..m /\ lost = [k \in 1..m |-> lost[k]]
  BY Zenon
<1> HIDE DEF known, lost
<1>6c. \A k \in 1..m : /\ known[k] \in Int /\ lost[k] \in Int /\ parts[k].cost \in Int
                       /\ lost[k] = parts[k].cost - known[k]
  <2> TAKE k \in 1..m
  <2> DEFINE c == parts[k].cost
             a == parts[k].actor
             x == known[k]
             y == lost[k]
  <2>1. c \in Int /\ x = (IF a # Unattributed THEN c ELSE 0) /\ y = (IF a # Unattributed THEN 0 ELSE c)
    BY <1>4, <1>6a
  <2> HIDE DEF c, a, x, y
  <2>2. x \in Int /\ y \in Int /\ y = c - x
    BY <2>1
  <2> QED BY <2>1, <2>2 DEF c, x, y
<1>7. ASSUME NEW s, s = known \/ s = lost PROVE SumSeq(s) = Total(s, 1..m) /\ SumSeq(s) \in Int
  <2>1. DOMAIN s = 1..m /\ s = [k \in 1..m |-> s[k]] /\ \A k \in 1..m : s[k] \in Int
    <3>1. CASE s = known
      BY <1>6b, <1>6c, <3>1
    <3>2. CASE s = lost
      BY <1>6b, <1>6c, <3>2
    <3> QED BY <1>7, <3>1, <3>2
  <2> HIDE DEF known, lost, m
  <2>2. IsList(s) /\ Len(s) = m
    BY <1>6, <2>1, ListOf
  <2> QED BY <2>1, <2>2, SumOfList
<1>8. \A k \in 1..m : /\ costs[k] \in Int /\ known[k] \in Int /\ lost[k] = costs[k] - known[k]
  BY <1>6c DEF CostsOf
<1> HIDE DEF m, n, known, lost, costs, all, f, g
<1>9. Total(lost, 1..m) = Total(costs, 1..m) - Total(known, 1..m)
  BY <1>6, <1>8, TotalMinus
<1>10. Total(f, 1..m) = Total(costs, 1..m)
  BY <1>4, <1>6, TotalSame
<1>11. Total(g, 1..n) = Total(g, rows)
  <2>1. (\A i \in 1..n : g[i] \in Int) /\ \A i \in (1..n) \ rows : g[i] = 0
    BY <1>5
  <2> QED BY <1>6, <2>1, TotalMasked
<1>12. Total(g, rows) = Total(all, rows)
  <2>1. \A i \in rows : g[i] = all[i]
    BY <1>5, <1>6
  <2> QED BY <1>6, <2>1, TotalSame
<1>13. Total(costs, 1..m) \in Int
  BY <1>6, <1>8, TotalWhole
<1>14. Total(known, 1..m) \in Int /\ SumSeq(known) = Total(known, 1..m) /\ SumSeq(lost) = Total(lost, 1..m)
  BY <1>7
<1> QED BY <1>1, <1>2, <1>9, <1>10, <1>11, <1>12, <1>13, <1>14 DEF all

\* The events a trail is read for are those of its records.
LEMMA OneIsNamed ==
  ASSUME NEW names, DOMAIN names \subseteq Nat, NEW T, \A i \in DOMAIN names : names[i] \in T \cup {None}
  PROVE  FirstNamed(names) \in T \cup {None}
<1> DEFINE named == {i \in DOMAIN names : names[i] # None}
           first == CHOOSE i \in named : \A j \in named : i <= j
<1>1. CASE named = {}
  BY <1>1 DEF FirstNamed
<1>2. CASE named # {}
  <2>1. named \in SUBSET Nat
    OBVIOUS
  <2>2. \E i \in named : \A j \in named : i <= j
    <3> HIDE DEF named
    <3> QED BY <1>2, <2>1, LeastNatural
  <2>3. first \in named /\ first \in DOMAIN names
    BY <2>2
  <2>4. FirstNamed(names) = names[first]
    BY <1>2 DEF FirstNamed
  <2> HIDE DEF first
  <2> QED BY <2>3, <2>4
<1> QED BY <1>1, <1>2

LEMMA TrailNames ==
  ASSUME NEW row, IsTrail(row), row.day # None
  PROVE  IsEvent(CloudTrailEvent(row))
<1> DEFINE i == row.identity
           P == Principals
           e == CloudTrailEvent(row)
<1>1. /\ row.day \in Int /\ IsList(row.counts)
      /\ {i.issuer, i.arn, i.issuerName, i.invokedBy, i.user, i.principal, i.account} \subseteq P \cup {None}
      /\ \A j \in 1..Len(row.counts) :
           {row.counts[j].total, row.counts[j].input, row.counts[j].output} \subseteq Nat \cup {None}
  BY DEF IsTrail
<1> HIDE DEF P
<1>2. CloudTrailActor(i) \in P \cup {None}
  <2> DEFINE a == <<i.issuer, i.arn, i.issuerName>>
             b == <<i.arn, i.user, i.account>>
             c == <<i.arn, i.user, i.principal, i.account>>
  <2>1. /\ DOMAIN a \subseteq Nat /\ \A x \in DOMAIN a : a[x] \in P \cup {None}
        /\ DOMAIN b \subseteq Nat /\ \A x \in DOMAIN b : b[x] \in P \cup {None}
        /\ DOMAIN c \subseteq Nat /\ \A x \in DOMAIN c : c[x] \in P \cup {None}
    BY <1>1
  <2>2. i.invokedBy \in P \cup {None}
    BY <1>1
  <2>3. /\ CloudTrailActor(i) = FirstNamed(a) \/ CloudTrailActor(i) = i.invokedBy
           \/ CloudTrailActor(i) = FirstNamed(b) \/ CloudTrailActor(i) = FirstNamed(c)
    BY DEF CloudTrailActor
  <2> HIDE DEF a, b, c
  <2>4. FirstNamed(a) \in P \cup {None} /\ FirstNamed(b) \in P \cup {None} /\ FirstNamed(c) \in P \cup {None}
    BY <2>1, OneIsNamed
  <2> QED BY <2>2, <2>3, <2>4
<1>3. TokenCount(row.counts) \in Nat \cup {None}
  <2> DEFINE Read(field) == FirstNamed([j \in 1..Len(row.counts) |-> row.counts[j][field]])
  <2>1. ASSUME NEW field \in {"total", "input", "output"} PROVE Read(field) \in Nat \cup {None}
    <3> DEFINE s == [j \in 1..Len(row.counts) |-> row.counts[j][field]]
    <3>1. DOMAIN s \subseteq Nat
      OBVIOUS
    <3>2. \A j \in DOMAIN s : s[j] \in Nat \cup {None}
      <4> TAKE j \in DOMAIN s
      <4>1. j \in 1..Len(row.counts) /\ s[j] = row.counts[j][field]
        OBVIOUS
      <4>2. {row.counts[j].total, row.counts[j].input, row.counts[j].output} \subseteq Nat \cup {None}
        BY <1>1, <4>1
      <4> QED BY <2>1, <4>1, <4>2
    <3> HIDE DEF s
    <3>3. FirstNamed(s) \in Nat \cup {None}
      BY <3>1, <3>2, OneIsNamed
    <3> QED BY <3>3 DEF s
  <2>2. Read("total") \in Nat \cup {None} /\ Read("input") \in Nat \cup {None} /\ Read("output") \in Nat \cup {None}
    BY <2>1
  <2>3. TokenCount(row.counts)
          = IF Read("total") # None THEN Read("total")
            ELSE IF {Read("input"), Read("output")} \ {None} = {} THEN None
            ELSE Amount(Read("input")) + Amount(Read("output"))
    BY DEF TokenCount
  <2> HIDE DEF Read
  <2>4. Amount(Read("input")) \in Nat /\ Amount(Read("output")) \in Nat
    BY <2>2 DEF Amount, FirstOf
  <2> QED BY <2>2, <2>3, <2>4
<1>4. e.day = row.day /\ e.actor = CloudTrailActor(i) /\ e.tokens = TokenCount(row.counts)
  BY DEF CloudTrailEvent
<1> HIDE DEF e, i
<1> QED BY <1>1, <1>2, <1>3, <1>4 DEF IsEvent, P, e

IsTrailFile(file) ==
  /\ file.kind = "audit" /\ IsList(file.rows)
  /\ \A i \in 1..Len(file.rows) : /\ file.format = "cloudtrail" => IsTrail(file.rows[i])
                                  /\ file.format = "items" => IsEvent(file.rows[i])

LEMMA TrailRead ==
  ASSUME NEW file, IsTrailFile(file), ParseSource(file).accepted
  PROVE  /\ IsList(ParseSource(file).items)
         /\ \A i \in 1..Len(ParseSource(file).items) : IsEvent(ParseSource(file).items[i])
<1> DEFINE rows == file.rows
           places == {i \in 1..Len(rows) : HasRequired(rows[i])}
           sound == ElementsAt(rows, places)
           told == [i \in 1..Len(sound) |-> CloudTrailEvent(sound[i])]
           events == EvidenceItems(file)
<1>0. /\ file.kind = "audit" /\ IsList(rows)
      /\ \A i \in 1..Len(rows) : /\ file.format = "cloudtrail" => IsTrail(rows[i])
                                 /\ file.format = "items" => IsEvent(rows[i])
  BY DEF IsTrailFile
<1>1. \A code : ~Refused(code).accepted
  BY DEF Refused
<1>2. ParseSource(file) = ParseAuditSource(file)
  BY <1>0, <1>1 DEF ParseSource
<1>3. file.format \in {"cloudtrail", "items"} /\ ParseSource(file).items = events
  BY <1>1, <1>2 DEF ParseAuditSource
<1>4. CASE file.format = "items"
  <2>1. events = rows
    BY <1>4 DEF EvidenceItems
  <2> QED BY <1>0, <1>3, <1>4, <2>1
<1>5. CASE file.format = "cloudtrail"
  <2>1. events = told
    BY <1>5 DEF EvidenceItems
  <2>2. \A i \in places : IsTrail(rows[i]) /\ rows[i].day # None
    BY <1>0, <1>5 DEF HasRequired
  <2>3. IsList(sound) /\ \A m \in 1..Len(sound) : \E i \in places : sound[m] = rows[i]
    <3>1. places \in SUBSET (1..Len(rows))
      OBVIOUS
    <3> HIDE DEF places
    <3> QED BY <1>0, <3>1, KeptList
  <2> HIDE DEF sound
  <2>4. \A m \in 1..Len(sound) : IsEvent(CloudTrailEvent(sound[m]))
    <3> TAKE m \in 1..Len(sound)
    <3>1. PICK i \in places : sound[m] = rows[i]
      BY <2>3
    <3> QED BY <2>2, <3>1, TrailNames
  <2>5. IsList(told) /\ Len(told) = Len(sound) /\ \A m \in 1..Len(sound) : told[m] = CloudTrailEvent(sound[m])
    <3>1. Len(sound) \in Nat /\ DOMAIN told = 1..Len(sound) /\ told = [m \in 1..Len(sound) |-> told[m]]
      BY <2>3 DEF IsList
    <3>2. \A m \in 1..Len(sound) : told[m] = CloudTrailEvent(sound[m])
      OBVIOUS
    <3> HIDE DEF told
    <3> QED BY <3>1, <3>2, ListOf
  <2> HIDE DEF told, events
  <2> QED BY <1>3, <2>1, <2>4, <2>5
<1> QED BY <1>3, <1>4, <1>5

\* What the rows of an investigation are split with, and what a breakdown is made of.
BreakdownBy(dimension) ==
  IF dimension = "actor"
  THEN ActorPage(GroupChangesByActor(input.records, input.events, input.current, input.baseline, input.config))
  ELSE [page |-> GroupPage(GroupChanges(input.records, dimension, input.current, input.baseline, input.config)),
        allocation |-> None]
CutIInv ==
  /\ AreEvents(input.events)
  /\ breakdown # None =>
       stage = "grouped" /\ \E dimension \in Dimensions : breakdown = BreakdownBy(dimension)

LEMMA InitCutIInv == Init => CutIInv
<1> SUFFICES ASSUME Init PROVE CutIInv
  OBVIOUS
<1>1. breakdown = None /\ (input \in Inputs \/ input \in Requests("upload") \/ input \in Requests("live"))
  BY DEF Init
<1>2. AreEvents({})
  BY FS_EmptySet DEF AreEvents
<1> QED BY <1>1, <1>2, FixturesAssumption, RequestsAssumption DEF CutIInv

LEMMA EventsLoaded ==
  ASSUME DataIInv, SourcesParsed, origin = "upload", NEW events,
         events = (IF "audit" \in Stored THEN InPeriods(sources["audit"].items) ELSE <<>>)
  PROVE  AreEvents({events[i] : i \in 1..Len(events)})
<1>1. IsList(events) /\ \A i \in 1..Len(events) : IsEvent(events[i])
  <2>1. CASE "audit" \in Stored
    <3> DEFINE file == files["audit"]
               items == ParseSource(file).items
               places == {i \in 1..Len(items) : \E p \in Periods : PeriodContains(p, items[i].day)}
    <3>1. files \in Uploads /\ file # None /\ sources["audit"] = ParseSource(file) /\ ParseSource(file).accepted
      BY <2>1 DEF SourcesParsed, Stored, Kinds
    <3>2. IsTrailFile(file)
      BY <3>1, UploadsAssumption, FilesAssumption DEF IsTrailFile
    <3> HIDE DEF file
    <3>3. IsList(items) /\ \A i \in 1..Len(items) : IsEvent(items[i])
      BY <3>1, <3>2, TrailRead
    <3>4. events = ElementsAt(items, places) /\ places \in SUBSET (1..Len(items))
      BY <2>1, <3>1 DEF InPeriods
    <3> HIDE DEF items, places
    <3>5. IsList(ElementsAt(items, places))
          /\ \A m \in 1..Len(ElementsAt(items, places)) : \E i \in places : ElementsAt(items, places)[m] = items[i]
      BY <3>3, <3>4, KeptList
    <3> QED BY <3>3, <3>4, <3>5
  <2>2. CASE "audit" \notin Stored
    <3>1. events = <<>>
      BY <2>2
    <3>2. IsList(<<>>) /\ Len(<<>>) = 0
      BY DEF IsList
    <3> QED BY <3>1, <3>2
  <2> QED BY <2>1, <2>2
<1>2. IsFiniteSet({events[i] : i \in 1..Len(events)})
  <2> DEFINE S == 1..Len(events)
  <2>1. IsFiniteSet(S)
    BY <1>1, UpTo DEF IsList
  <2> HIDE DEF S
  <2>2. IsFiniteSet({events[i] : i \in S})
    BY <2>1, ImageIsFinite
  <2> QED BY <2>2 DEF S
<1> QED BY <1>1, <1>2 DEF AreEvents

LEMMA CutStep == CutIInv /\ DataIInv /\ KnownIInv /\ [Next]_pipelineVars => CutIInv'
<1> SUFFICES ASSUME CutIInv, DataIInv, KnownIInv, [Next]_pipelineVars PROVE CutIInv'
  OBVIOUS
<1>0. DOMAIN input = InputFields /\ AreEvents(input.events) /\ SourcesParsed
  BY DEF CutIInv, DataIInv, IsInput, KnownIInv
<1>1. ASSUME UNCHANGED <<input, breakdown>>, stage = "grouped" => stage' = "grouped" PROVE CutIInv'
  <2>1. \A dimension : BreakdownBy(dimension)' = BreakdownBy(dimension)
    BY <1>1 DEF BreakdownBy
  <2> QED BY <1>1, <2>1 DEF CutIInv
<1>2. ASSUME UNCHANGED breakdown, stage # "grouped", AreEvents(input'.events) PROVE CutIInv'
  BY <1>2 DEF CutIInv
<1>3. CASE UNCHANGED pipelineVars
  BY <1>1, <1>3 DEF pipelineVars, vars
<1>4. ASSUME NEW kind \in Kinds, PutSource(kind) PROVE CutIInv'
  BY <1>1, <1>4 DEF PutSource, vars
<1>5. CASE LoadDataset
  <2> DEFINE events == IF "audit" \in Stored THEN InPeriods(sources["audit"].items) ELSE <<>>
  <2>1. /\ origin = "upload" /\ stage = "sourcing" /\ UNCHANGED breakdown
        /\ input'.events = {events[i] : i \in 1..Len(events)}
    BY <1>0, <1>5 DEF LoadDataset, InputFields
  <2>2. AreEvents({events[i] : i \in 1..Len(events)})
    <3> HIDE DEF events
    <3>1. events = (IF "audit" \in Stored THEN InPeriods(sources["audit"].items) ELSE <<>>)
      BY DEF events
    <3> QED BY <1>0, <2>1, <3>1, EventsLoaded
  <2> HIDE DEF events
  <2> QED BY <1>2, <2>1, <2>2
<1>6. CASE LoadLive \/ LoadFails \/ LoadBundle \/ BundleFails
  <2>1. stage # "grouped" /\ UNCHANGED breakdown /\ input'.events = input.events
    BY <1>0, <1>6 DEF LoadLive, LoadFails, LoadBundle, BundleFails, InputFields
  <2> QED BY <1>0, <1>2, <2>1
<1>7. CASE AnalysisStep
  <2>1. CASE \E dimension \in Dimensions : GetCostBreakdown(dimension)
    <3>1. PICK dimension \in Dimensions : GetCostBreakdown(dimension)
      BY <2>1
    <3>2. stage' = "grouped" /\ UNCHANGED input /\ breakdown' = BreakdownBy(dimension)
      BY <3>1 DEF GetCostBreakdown, BreakdownBy
    <3>3. BreakdownBy(dimension)' = BreakdownBy(dimension)
      BY <3>2 DEF BreakdownBy
    <3> QED BY <1>0, <3>2, <3>3 DEF CutIInv
  <2>2. CASE Compare \/ Publish \/ InvestigateByRules \/ InvestigateByAgent
    <3>1. UNCHANGED <<input, breakdown>> /\ stage # "grouped"
      BY <2>2 DEF Compare, Publish, InvestigateByRules, InvestigateByAgent
    <3> QED BY <1>1, <3>1
  <2> QED BY <1>7, <2>1, <2>2 DEF AnalysisStep
<1>8. CASE LiveStep
  BY <1>1, <1>8 DEF LiveStep, vars
<1> QED BY <1>3, <1>4, <1>5, <1>6, <1>7, <1>8 DEF Next

LEMMA CutInvariance == Spec => []CutIInv
<1> QED BY InitCutIInv, CutStep, DataInvariance, KnownInvariance, PTL DEF Spec


\* A comparison counts what its charges cost in the current period.
LEMMA ComparedCounts ==
  ASSUME DataIInv, comparison # None
  PROVE  comparison.providers[1].current = Current(Selected, Rows(Selected))
<1> DEFINE records == Selected
           current == input.current
           baseline == input.baseline
           config == input.config
           resources == ResourcesOf(input.records)
           made == CompareProvider(records, current, baseline, config)
           n == Len(records)
           groups == Groups(records, "finest", current, baseline)
           K == KeysOf(records, "finest", current, baseline)
           spent == Spent(records, current)
           before == Earlier(records, current)
           left == Kept(K, n) \ Spoken(K, n, made.candidates)
<1>1. /\ IsList(records)
      /\ \A i \in 1..Len(records) : IsRecord(records[i]) /\ records[i].resource \in resources \cup {None}
      /\ IsPeriod(current) /\ IsPeriod(baseline) /\ config.maxCandidates \in Nat
  BY FilteredOK DEF DataIInv, IsInput, Selected
<1>2. comparison = ComparePeriods(<<made>>, config)
  BY DEF DataIInv, ComparedAre, Compared
<1>3. \A i \in 1..n : K[i] = (IF InScope(records[i], current, baseline)
                              THEN FirstOf(records[i].resource, records[i].service) ELSE None)
                      /\ FirstOf(records[i].resource, records[i].service) # None
  BY <1>1, KeyIs DEF KeysOf
<1>4. Rows(Selected) = Kept(K, n)
  BY <1>3 DEF Rows, Kept
<1>5. made.change \in Int /\ ChangeSum(made.candidates) \in Int
  <2> HIDE DEF records, current, baseline, config, resources
  <2> QED BY <1>1, LeftOver
<1>6. made.current = SumSeq(CurrentsOf(groups))
  BY DEF CompareProvider, CurrentsOf
<1>7. n \in Nat /\ IsFiniteSet(1..n) /\ (\A i \in 1..n : spent[i] \in Int) /\ \A i \in 1..n : before[i] \in Int
  BY <1>1, UpTo DEF IsList, Spent, Earlier, IsRecord
<1>8. GroupsOK(groups, resources) /\ SharesOut(groups, K, spent, before, n)
  <2> HIDE DEF records, current, baseline, config, resources
  <2> QED BY <1>1, GroupsMade, SharesMade
<1> HIDE DEF made, groups, spent, before, n, K, resources, config
<1>9. comparison.providers[1] = made
  BY <1>2, <1>5, ComparedTotals
<1>10. SumSeq(CurrentsOf(groups)) = Total(spent, Kept(K, n))
  BY <1>7, <1>8, GroupsAddUp
<1>11. Current(Selected, Kept(K, n)) = Total(spent, Kept(K, n))
  <2>1. Kept(K, n) \in SUBSET (1..Len(Selected)) /\ IsFiniteSet(Kept(K, n))
    <3>1. Kept(K, n) \in SUBSET (1..n)
      BY DEF Kept
    <3> QED BY <1>7, <3>1, FS_Subset DEF n
  <2> QED BY <2>1, SpentIs DEF spent
<1> QED BY <1>4, <1>6, <1>9, <1>10, <1>11

\* Its rows in scope are those that the current period has a cost of.
LEMMA CurrentIs ==
  ASSUME NEW records, IsBill(records)
  PROVE  Current(records, Rows(records)) = Total(Spent(records, input.current), 1..Len(records))
<1>1. IsList(records) /\ \A i \in 1..Len(records) : IsRecord(records[i])
  BY DEF IsBill
<1> DEFINE T == Rows(records)
<1>2. /\ T \in SUBSET (1..Len(records))
      /\ \A i \in 1..Len(records) : InScope(records[i], input.current, input.baseline) => i \in T
  BY DEF Rows
<1>3. IsFiniteSet(T)
  <2>1. IsFiniteSet(1..Len(records))
    BY <1>1, UpTo DEF IsList
  <2> QED BY <1>2, <2>1, FS_Subset
<1> HIDE DEF T
<1>4. Current(records, T) = Total(Spent(records, input.current), T)
  BY <1>2, <1>3, SpentIs
<1>5. Total(Spent(records, input.current), T) = Total(Spent(records, input.current), 1..Len(records))
  BY <1>1, <1>2, RowsInScope
<1> QED BY <1>4, <1>5 DEF T

\* What a page of groups comes to, by what the bill says and by who used it.
LEMMA CutByBill ==
  ASSUME NEW records, IsBill(records), NEW dimension \in Dimensions, NEW current, NEW baseline, NEW config,
         NEW page, page = GroupPage(GroupChanges(records, dimension, current, baseline, config))
  PROVE  SumSeq(CurrentsOf(page.groups)) + page.omittedCurrent = Total(Spent(records, current), 1..Len(records))
<1> DEFINE changes == GroupChanges(records, dimension, current, baseline, config)
<1>1. IsList(records) /\ \A i \in 1..Len(records) : IsRecord(records[i])
  BY DEF IsBill
<1>2. \A i \in 1..Len(records) :
        InScope(records[i], current, baseline) => KeyOfRow(records[i], dimension, current, baseline) # None
  BY <1>1, KeyOfDimension
<1>3. page = GroupPage(changes)
  OBVIOUS
<1>4. /\ IsList(changes) /\ \A j \in 1..Len(changes) : changes[j].current \in Int
      /\ Total(CurrentsOf(changes), 1..Len(changes)) = Total(Spent(records, current), 1..Len(records))
  BY <1>1, <1>2, CutAddsUp
<1> HIDE DEF changes
<1>5. SumSeq(CurrentsOf(GroupPage(changes).groups)) + GroupPage(changes).omittedCurrent
        = Total(CurrentsOf(changes), 1..Len(changes))
  BY <1>4, PageAddsUp
<1> QED BY <1>3, <1>4, <1>5

LEMMA CutByActor ==
  ASSUME NEW records, IsBill(records), NEW events, AreEvents(events), NEW current, NEW baseline, NEW config,
         NEW page, page = ActorPage(GroupChangesByActor(records, events, current, baseline, config)).page
  PROVE  SumSeq(CurrentsOf(page.groups)) + page.omittedCurrent = Total(Spent(records, current), 1..Len(records))
<1> DEFINE parts == Parts(records, events, current, baseline)
           changes == GroupChanges(parts, "actor", current, baseline, config)
<1>1. page = GroupPage(changes)
  BY DEF ActorPage, GroupChangesByActor, GroupsOfAllocation, Parts
<1> HIDE DEF parts
<1>2. /\ IsList(parts) /\ \A i \in 1..Len(parts) : IsRecord(parts[i])
      /\ Total(Spent(parts, current), 1..Len(parts)) = Total(Spent(records, current), 1..Len(records))
  BY PartsAddUp DEF parts
<1>3. \A i \in 1..Len(parts) :
        InScope(parts[i], current, baseline) => KeyOfRow(parts[i], "actor", current, baseline) # None
  <2>1. "actor" \in Dimensions
    BY DEF Dimensions
  <2> QED BY <1>2, <2>1, KeyOfDimension
<1>4. /\ IsList(changes) /\ \A j \in 1..Len(changes) : changes[j].current \in Int
      /\ Total(CurrentsOf(changes), 1..Len(changes)) = Total(Spent(parts, current), 1..Len(parts))
  BY <1>2, <1>3, CutAddsUp
<1> HIDE DEF changes
<1>5. SumSeq(CurrentsOf(GroupPage(changes).groups)) + GroupPage(changes).omittedCurrent
        = Total(CurrentsOf(changes), 1..Len(changes))
  BY <1>4, PageAddsUp
<1> QED BY <1>1, <1>2, <1>4, <1>5

\* However the bill is cut, by service, region, owner or principal, the groups on the page and
\* those it leaves out come to what the rows of the current period cost, what is charged to
\* somebody and to nobody is what was billed, and a comparison counts the same money.
THEOREM EveryCutAddsUp == Spec => []EveryDimensionCountsTheSameMoney
<1>1. DataIInv /\ CutIInv => EveryDimensionCountsTheSameMoney
  <2> SUFFICES ASSUME DataIInv, CutIInv PROVE EveryDimensionCountsTheSameMoney
    OBVIOUS
  <2> DEFINE records == input.records
             page == breakdown.page
             all == Rows(records)
             split == AllocateInPeriods(records, input.events, input.current, input.baseline)
  <2>1. IsBill(records) /\ AreEvents(input.events) /\ IsList(records)
    BY DEF DataIInv, IsInput, CutIInv, IsBill
  <2>2. Current(records, all) = Total(Spent(records, input.current), 1..Len(records))
    BY <2>1, CurrentIs
  <2>3. ASSUME breakdown # None
        PROVE  /\ SumSeq(CurrentsOf(page.groups)) + page.omittedCurrent = Current(records, all)
               /\ breakdown.allocation # None =>
                    breakdown.allocation.attributed + breakdown.allocation.unattributed
                      = MapThenSumSet(LAMBDA i : input.records[i].cost, all)
    <3>1. PICK dimension \in Dimensions : breakdown = BreakdownBy(dimension)
      BY <2>3 DEF CutIInv
    <3>2. CASE dimension = "actor"
      <4>1. /\ page = ActorPage(GroupChangesByActor(records, input.events, input.current, input.baseline, input.config)).page
            /\ breakdown.allocation = split
        BY <3>1, <3>2 DEF BreakdownBy, ActorPage, GroupChangesByActor, GroupsOfAllocation
      <4>2. all = {i \in 1..Len(records) : InScope(records[i], input.current, input.baseline)}
        BY DEF Rows
      <4>3. all \in SUBSET (1..Len(records)) /\ IsFiniteSet(all)
        <5>1. IsFiniteSet(1..Len(records)) /\ all \in SUBSET (1..Len(records))
          BY <2>1, <4>2, UpTo DEF IsList
        <5> QED BY <5>1, FS_Subset
      <4>4. MapThenSumSet(LAMBDA i : input.records[i].cost, all) = Total(CostsOf(records), all)
        BY <4>3, CostIs
      <4> HIDE DEF page, all, split, records
      <4>5. SumSeq(CurrentsOf(page.groups)) + page.omittedCurrent
              = Total(Spent(records, input.current), 1..Len(records))
        BY <2>1, <4>1, CutByActor
      <4>6. split.attributed + split.unattributed = Total(CostsOf(records), all)
        BY <2>1, <4>2, ChargesAddUp DEF split
      <4> QED BY <2>2, <4>1, <4>4, <4>5, <4>6
    <3>3. CASE dimension # "actor"
      <4>1. /\ page = GroupPage(GroupChanges(records, dimension, input.current, input.baseline, input.config))
            /\ breakdown.allocation = None
        BY <3>1, <3>3 DEF BreakdownBy
      <4> HIDE DEF page, all, split, records
      <4>2. SumSeq(CurrentsOf(page.groups)) + page.omittedCurrent
              = Total(Spent(records, input.current), 1..Len(records))
        BY <2>1, <4>1, CutByBill
      <4> QED BY <2>2, <4>1, <4>2
    <3> QED BY <3>2, <3>3
  <2>4. CurrentsOf(page.groups) = [i \in 1..Len(page.groups) |-> page.groups[i].current]
    BY DEF CurrentsOf
  <2>5. comparison # None => comparison.providers[1].current = Current(Selected, Rows(Selected))
    BY ComparedCounts
  <2> QED BY <2>3, <2>4, <2>5 DEF EveryDimensionCountsTheSameMoney
<1> QED BY <1>1, DataInvariance, CutInvariance, PTL

\* Somebody who is charged was seen.
LEMMA ShareHasWitness ==
  ASSUME NEW records, IsBill(records), NEW events, NEW current, NEW baseline,
         NEW part, OfARow(part, records, events, current, baseline), part.actor # Unattributed
  PROVE  \E e \in events :
           /\ e.actor = part.actor /\ e.day = part.day
           /\ \E id \in e.resources : ResourceAliases(id) \intersect ResourceAliases(part.resource) # {}
<1>1. PICK i \in 1..Len(records) :
        /\ IsShare(part, records[i])
        /\ \E e \in MatchingEvents(records[i], InPlay(events, current, baseline)) : Principal(e) = part.actor
  BY DEF OfARow
<1>2. IsCharge(records[i])
  BY DEF IsBill, IsCharge
<1> DEFINE r == records[i]
<1>3. PICK e \in MatchingEvents(r, InPlay(events, current, baseline)) : Principal(e) = part.actor
  BY <1>1
<1>4. IsCharge(r) /\ IsShare(part, r)
  BY <1>1, <1>2
<1> HIDE DEF r
<1>5. part.day = r.day /\ part.resource = r.resource
  BY <1>4, ShareIsCharge
<1>6. /\ e \in events /\ e.day = r.day
      /\ \E id \in e.resources : ResourceAliases(id) \intersect ResourceAliases(r.resource) # {}
  BY <1>3 DEF MatchingEvents, InPlay
<1>7. e.actor = part.actor
  BY <1>3 DEF Principal, FirstOf
<1> QED BY <1>5, <1>6, <1>7

\* The total of a part is that of the whole with nothing for the rest.
PartOf(h, S, c, T) == \A x \in S : c[x] \in Int /\ h[x] = IF x \in T THEN c[x] ELSE 0

LEMMA TotalOfPart ==
  ASSUME NEW S, IsFiniteSet(S), NEW T, T \in SUBSET S, IsFiniteSet(T), NEW h, NEW c, PartOf(h, S, c, T)
  PROVE  Total(h, S) = Total(c, T)
<1>1. (\A x \in S : h[x] \in Int) /\ (\A x \in S \ T : h[x] = 0) /\ \A x \in T : h[x] = c[x]
  BY DEF PartOf
<1>2. Total(h, S) = Total(h, T)
  BY <1>1, TotalMasked
<1>3. Total(h, T) = Total(c, T)
  BY <1>1, TotalSame
<1> QED BY <1>2, <1>3

InClass(parts, class) == {k \in 1..Len(parts) : ClassOf(parts[k]) = class}
ScopedInClass(records, class, current, baseline) ==
  {i \in 1..Len(records) : InScope(records[i], current, baseline) /\ ClassOf(records[i]) = class}

\* The shares of the rows of a class come to what these rows were billed.
LEMMA ClassAddsUp ==
  ASSUME NEW records, IsBill(records), NEW events, AreEvents(events), NEW current, NEW baseline,
         NEW parts, parts = Parts(records, events, current, baseline), NEW class,
         NEW same, same = InClass(parts, class),
         NEW whole, whole = ScopedInClass(records, class, current, baseline)
  PROVE  /\ IsFiniteSet(same) /\ IsFiniteSet(whole)
         /\ Total(CostsOf(parts), same) = Total(CostsOf(records), whole)
<1> DEFINE m == Len(parts)
           n == Len(records)
           C == {class}
           f == CostsIn(parts, C)
           g == ScopedIn(records, C, current, baseline)
           costs == CostsOf(parts)
           all == CostsOf(records)
<1>1. /\ IsList(parts) /\ Total(f, 1..m) = Total(g, 1..n)
      /\ \A k \in 1..m : OfARow(parts[k], records, events, current, baseline)
  <2> HIDE DEF C
  <2> QED BY PartsMade
<1>2. IsList(records) /\ \A i \in 1..n : IsRecord(records[i])
  BY DEF IsBill
<1>3. \A k \in 1..m : costs[k] \in Int /\ f[k] = IF k \in same THEN costs[k] ELSE 0
  <2> TAKE k \in 1..m
  <2>1. IsRecord(parts[k])
    BY <1>1, PartIs
  <2> QED BY <2>1 DEF CostsIn, CostIn, CostsOf, IsRecord, InClass
<1>4. \A i \in 1..n : all[i] \in Int /\ g[i] = IF i \in whole THEN all[i] ELSE 0
  BY <1>2 DEF ScopedIn, CostIn, CostsOf, IsRecord, ScopedInClass
<1>5. /\ IsFiniteSet(1..m) /\ same \in SUBSET (1..m) /\ IsFiniteSet(same)
      /\ IsFiniteSet(1..n) /\ whole \in SUBSET (1..n) /\ IsFiniteSet(whole)
  <2>1. IsFiniteSet(1..m) /\ IsFiniteSet(1..n) /\ same \in SUBSET (1..m) /\ whole \in SUBSET (1..n)
    BY <1>1, <1>2, UpTo DEF IsList, InClass, ScopedInClass
  <2> QED BY <2>1, FS_Subset
<1> HIDE DEF m, n, C, f, g, costs, all
<1>7. Total(f, 1..m) = Total(costs, same)
  <2> DEFINE J == 1..m
  <2>1. PartOf(f, J, costs, same) /\ IsFiniteSet(J) /\ IsFiniteSet(same) /\ same \in SUBSET J
    BY <1>3, <1>5 DEF PartOf
  <2> HIDE DEF J
  <2>2. Total(f, J) = Total(costs, same)
    BY ONLY <2>1, TotalOfPart
  <2> QED BY <2>2 DEF J
<1>8. Total(g, 1..n) = Total(all, whole)
  <2> DEFINE J == 1..n
  <2>1. PartOf(g, J, all, whole) /\ IsFiniteSet(J) /\ IsFiniteSet(whole) /\ whole \in SUBSET J
    BY <1>4, <1>5 DEF PartOf
  <2> HIDE DEF J
  <2>2. Total(g, J) = Total(all, whole)
    BY ONLY <2>1, TotalOfPart
  <2> QED BY <2>2 DEF J
<1> QED BY <1>1, <1>5, <1>7, <1>8 DEF costs, all

\* Before a split, the class of a row is the row without its figures.
LEMMA ClassOfRow ==
  ASSUME NEW r, IsCharge(r)
  PROVE  ClassOf(r) = [r EXCEPT !.cost = 0, !.quantity = 0]
<1>1. IsShare(r, r)
  BY DEF IsShare, IsCharge, IsUnsplit, IsRecord
<1> QED BY <1>1, ShareIsCharge

\* Whatever the trail says, nobody is charged for a row who was not seen on its day at its
\* resource or an alias of it, and the shares of a row come to what the row was billed.
THEOREM SharesAreWitnessed == Spec => []SharesHaveWitnesses
<1>1. DataIInv /\ CutIInv => SharesHaveWitnesses
  <2> SUFFICES ASSUME DataIInv, CutIInv, breakdown # None, breakdown.allocation # None
               PROVE  SharesHaveWitnesses
    BY DEF SharesHaveWitnesses
  <2> DEFINE records == input.records
             events == input.events
             parts == breakdown.allocation.records
             same(part) == {r \in 1..Len(parts) : ClassOf(parts[r]) = ClassOf(part)}
             whole(part) == {r \in Rows(records) : [records[r] EXCEPT !.cost = 0, !.quantity = 0] = ClassOf(part)}
  <2>1. IsBill(records) /\ AreEvents(events) /\ \A i \in 1..Len(records) : IsCharge(records[i])
    BY DEF DataIInv, IsInput, CutIInv, IsBill, IsCharge
  <2>2. parts = Parts(records, events, input.current, input.baseline)
    <3>1. PICK dimension \in Dimensions : breakdown = BreakdownBy(dimension)
      BY DEF CutIInv
    <3>2. dimension = "actor"
      BY <3>1 DEF BreakdownBy
    <3> QED BY <3>1, <3>2 DEF BreakdownBy, ActorPage, GroupChangesByActor, GroupsOfAllocation, Parts
  <2>3. ASSUME NEW i \in 1..Len(parts)
        PROVE  /\ parts[i].actor # Unattributed =>
                    \E e \in events :
                      /\ e.actor = parts[i].actor /\ e.day = parts[i].day
                      /\ \E id \in e.resources : ResourceAliases(id) \intersect ResourceAliases(parts[i].resource) # {}
               /\ MapThenSumSet(LAMBDA r : breakdown.allocation.records[r].cost, same(parts[i]))
                    = MapThenSumSet(LAMBDA r : input.records[r].cost, whole(parts[i]))
    <3> DEFINE part == parts[i]
               S == same(part)
               W == whole(part)
    <3>1. OfARow(part, records, events, input.current, input.baseline)
      <4> DEFINE C == {}
      <4> HIDE DEF parts, records, events
      <4>1. \A k \in 1..Len(parts) : OfARow(parts[k], records, events, input.current, input.baseline)
        BY <2>1, <2>2, PartsMade
      <4> QED BY <4>1
    <3>2. W = ScopedInClass(records, ClassOf(part), input.current, input.baseline)
      BY <2>1, ClassOfRow DEF Rows, ScopedInClass
    <3>3. S = InClass(parts, ClassOf(part))
      BY DEF InClass
    <3>4. IsFiniteSet(S) /\ IsFiniteSet(W) /\ Total(CostsOf(parts), S) = Total(CostsOf(records), W)
      <4> DEFINE class == ClassOf(part)
      <4>1. S = InClass(parts, class) /\ W = ScopedInClass(records, class, input.current, input.baseline)
        BY <3>2, <3>3
      <4> HIDE DEF class, S, W, parts, records, events
      <4>2. /\ IsBill(records) /\ AreEvents(events)
            /\ parts = Parts(records, events, input.current, input.baseline)
        BY <2>1, <2>2
      <4> QED BY ONLY <4>1, <4>2, ClassAddsUp
    <3>5. S \in SUBSET (1..Len(breakdown.allocation.records)) /\ W \in SUBSET (1..Len(input.records))
      BY <3>2, <3>3 DEF InClass, ScopedInClass
    <3> HIDE DEF S, W
    <3>6. MapThenSumSet(LAMBDA r : breakdown.allocation.records[r].cost, S) = Total(CostsOf(parts), S)
      BY <3>4, <3>5, CostIs
    <3>7. MapThenSumSet(LAMBDA r : input.records[r].cost, W) = Total(CostsOf(records), W)
      BY <3>4, <3>5, CostIs
    <3>8. part.actor # Unattributed =>
            \E e \in events :
              /\ e.actor = part.actor /\ e.day = part.day
              /\ \E id \in e.resources : ResourceAliases(id) \intersect ResourceAliases(part.resource) # {}
      <4> HIDE DEF part, records, events
      <4> QED BY <2>1, <3>1, ShareHasWitness
    <3> QED BY <3>4, <3>6, <3>7, <3>8 DEF S, W
  <2>4. \A part : same(part) = {r \in 1..Len(breakdown.allocation.records) :
                     [breakdown.allocation.records[r] EXCEPT !.actor = None, !.cost = 0, !.quantity = 0]
                       = [part EXCEPT !.actor = None, !.cost = 0, !.quantity = 0]}
    BY DEF ClassOf
  <2>5. ASSUME NEW i \in 1..Len(parts)
        PROVE  whole(parts[i]) = {r \in Rows(input.records) : [input.records[r] EXCEPT !.cost = 0, !.quantity = 0]
                                   = [parts[i] EXCEPT !.actor = None, !.cost = 0, !.quantity = 0]}
    BY DEF ClassOf
  <2> HIDE DEF same, whole
  <2> QED BY <2>3, <2>4, <2>5 DEF SharesHaveWitnesses
<1> QED BY <1>1, DataInvariance, CutInvariance, PTL

-----------------------------------------------------------------------------
(* Rows are collapsed without a loss. *)

\* What a key says of its rows, and what rows of some keys come to.
RowOf(key) == [day |-> key[2], service |-> key[3], region |-> key[5], resource |-> key[6], owner |-> key[9],
               actor |-> None]
KeysIn(s) == {AggregationKey(s[i]) : i \in 1..Len(s)}
Units == {"cost", "quantity"}
UnitsIn(s, unit, C) == [i \in 1..Len(s) |-> IF AggregationKey(s[i]) \in C THEN s[i][unit] ELSE 0]
Amounts(s, unit, C) == Total(UnitsIn(s, unit, C), 1..Len(s))
AreParsed(s) == IsList(s) /\ \A i \in 1..Len(s) : IsParsed(s[i])
Alike(s, t) ==
  /\ AreParsed(s) /\ AreParsed(t) /\ KeysIn(s) = KeysIn(t)
  /\ \A unit \in Units : \A C : Amounts(s, unit, C) = Amounts(t, unit, C)

LEMMA UnitsAre ==
  ASSUME NEW s, AreParsed(s), NEW unit \in Units, NEW C
  PROVE  /\ \A i \in 1..Len(s) : s[i][unit] \in Int
         /\ WholeOn(UnitsIn(s, unit, C), 1..Len(s))
         /\ \A i \in 1..Len(s) : UnitsIn(s, unit, C)[i] = IF AggregationKey(s[i]) \in C THEN s[i][unit] ELSE 0
         /\ Len(s) \in Nat /\ IsFiniteSet(1..Len(s))
<1>1. \A i \in 1..Len(s) : s[i].cost \in Int /\ s[i].quantity \in Int
  BY DEF AreParsed, IsParsed, IsRecord
<1>2. \A i \in 1..Len(s) : s[i][unit] \in Int
  BY <1>1 DEF Units
<1>3. \A i \in 1..Len(s) : UnitsIn(s, unit, C)[i] = IF AggregationKey(s[i]) \in C THEN s[i][unit] ELSE 0
  BY DEF UnitsIn
<1>4. Len(s) \in Nat /\ IsFiniteSet(1..Len(s))
  BY UpTo DEF AreParsed, IsList
<1>5. WholeOn(UnitsIn(s, unit, C), 1..Len(s))
  <2> SUFFICES ASSUME NEW i \in 1..Len(s) PROVE UnitsIn(s, unit, C)[i] \in Int
    BY DEF WholeOn
  <2>1. CASE AggregationKey(s[i]) \in C
    BY <1>2, <1>3, <2>1
  <2>2. CASE AggregationKey(s[i]) \notin C
    BY <1>3, <2>2
  <2> QED BY <2>1, <2>2
<1> QED BY <1>2, <1>3, <1>4, <1>5

\* A row is grouped by what its key says.
LEMMA KeySays ==
  ASSUME NEW r, IsParsed(r)
  PROVE  LET key == AggregationKey(r)
         IN  /\ r.account = key[1] /\ r.day = key[2] /\ r.service = key[3] /\ r.sku = key[4]
             /\ r.resource = key[6] /\ r.category = key[7]
             /\ \A by \in Dimensions \union {"finest"} : \A current, baseline :
                  KeyOfRow(r, by, current, baseline) = KeyOfRow(RowOf(key), by, current, baseline)
<1> DEFINE key == AggregationKey(r)
           x == RowOf(key)
<1>1. /\ key[1] = r.account /\ key[2] = r.day /\ key[3] = r.service /\ key[4] = r.sku
      /\ key[5] = r.region /\ key[6] = r.resource /\ key[7] = r.category /\ key[9] = r.owner
  BY DEF AggregationKey
<1> HIDE DEF key
<1>2. /\ x.day = r.day /\ x.service = r.service /\ x.region = r.region /\ x.resource = r.resource
      /\ x.owner = r.owner /\ x.actor = r.actor
  BY <1>1 DEF RowOf, IsParsed, IsUnsplit
<1> HIDE DEF x
<1>3. \A dimension \in Dimensions \union {"resource"} : DimensionKey(r, dimension) = DimensionKey(x, dimension)
  BY <1>2 DEF DimensionKey, Dimensions
<1>4. FinestDimension(r) = FinestDimension(x) /\ FinestDimension(r) \in Dimensions \union {"resource"}
  BY <1>2 DEF FinestDimension, Dimensions
<1>5. \A current, baseline : InScope(r, current, baseline) = InScope(x, current, baseline)
  BY <1>2 DEF InScope
<1>6. ASSUME NEW by \in Dimensions \union {"finest"}, NEW current, NEW baseline
      PROVE  KeyOfRow(r, by, current, baseline) = KeyOfRow(x, by, current, baseline)
  <2>1. (IF by = "finest" THEN FinestDimension(r) ELSE by) \in Dimensions \union {"resource"}
    BY <1>4, <1>6
  <2> QED BY <1>3, <1>4, <1>5, <2>1 DEF KeyOfRow
<1> QED BY <1>1, <1>6 DEF x, key

\* A bucket takes a row of its key.
MergedRow(b, r) == [b EXCEPT !.quantity = @ + r.quantity, !.billed = @ + r.billed, !.cost = @ + r.cost]

LEMMA RowTaken ==
  ASSUME NEW b, IsParsed(b), NEW r, IsParsed(r)
  PROVE  /\ IsParsed(MergedRow(b, r)) /\ AggregationKey(MergedRow(b, r)) = AggregationKey(b)
         /\ \A unit \in Units : MergedRow(b, r)[unit] = b[unit] + r[unit]
<1> DEFINE sum == MergedRow(b, r)
<1>1. /\ b.quantity \in Int /\ b.billed \in Int /\ b.cost \in Int
      /\ r.quantity \in Int /\ r.billed \in Int /\ r.cost \in Int
  BY DEF IsParsed, IsRecord
<1>2. DOMAIN b = RecordFields
  BY DEF IsParsed
<1>3. /\ DOMAIN sum = RecordFields
      /\ sum.quantity = b.quantity + r.quantity /\ sum.billed = b.billed + r.billed
      /\ sum.cost = b.cost + r.cost /\ sum.day = b.day /\ sum.account = b.account
      /\ sum.service = b.service /\ sum.sku = b.sku /\ sum.region = b.region /\ sum.resource = b.resource
      /\ sum.category = b.category /\ sum.currency = b.currency /\ sum.owner = b.owner
  BY <1>2 DEF RecordFields, MergedRow
<1>4. IsUnsplit(sum)
  BY <1>2 DEF IsParsed, IsUnsplit, RecordFields, MergedRow
<1> HIDE DEF sum
<1>5. IsParsed(sum)
  BY <1>1, <1>3, <1>4 DEF IsParsed, IsRecord
<1>6. AggregationKey(sum) = AggregationKey(b)
  BY <1>3 DEF AggregationKey
<1>7. \A unit \in Units : sum[unit] = b[unit] + r[unit]
  BY <1>3 DEF Units
<1> QED BY <1>5, <1>6, <1>7 DEF sum

\* The first n records are in the buckets, each of which has a key of its own.
Gathered(buckets, records, n) ==
  /\ AreParsed(buckets)
  /\ \A i, j \in 1..Len(buckets) : AggregationKey(buckets[i]) = AggregationKey(buckets[j]) => i = j
  /\ KeysIn(buckets) = {AggregationKey(records[i]) : i \in 1..n}
  /\ \A unit \in Units : \A C : Amounts(buckets, unit, C) = Total(UnitsIn(records, unit, C), 1..n)

LEMMA NewBucket ==
  ASSUME NEW buckets, AreParsed(buckets), NEW r, IsParsed(r)
  PROVE  LET more == Append(buckets, r)
         IN  /\ AreParsed(more) /\ Len(more) = Len(buckets) + 1 /\ more[Len(buckets) + 1] = r
             /\ \A i \in 1..Len(buckets) : more[i] = buckets[i]
             /\ KeysIn(more) = KeysIn(buckets) \union {AggregationKey(r)}
             /\ \A unit \in Units : \A C :
                  Amounts(more, unit, C) = Amounts(buckets, unit, C) + (IF AggregationKey(r) \in C THEN r[unit] ELSE 0)
<1> DEFINE more == Append(buckets, r)
           m == Len(buckets)
<1>1. IsList(buckets) /\ m \in Nat /\ \A i \in 1..m : IsParsed(buckets[i])
  BY DEF AreParsed, IsList
<1>2. /\ IsList(more) /\ Len(more) = m + 1 /\ more[m + 1] = r
      /\ \A i \in 1..m : more[i] = buckets[i]
  BY <1>1, Appended
<1>3. \A i \in 1..(m + 1) : i \in 1..m \/ i = m + 1
  BY <1>1
<1> HIDE DEF more
<1>4. AreParsed(more)
  BY <1>1, <1>2, <1>3 DEF AreParsed
<1>5. KeysIn(more) = KeysIn(buckets) \union {AggregationKey(r)}
  <2>1. \A i \in 1..m : i \in 1..(m + 1)
    BY <1>1
  <2>2. m + 1 \in 1..(m + 1)
    BY <1>1
  <2> QED BY <1>2, <1>3, <2>1, <2>2 DEF KeysIn
<1>6. ASSUME NEW unit \in Units, NEW C
      PROVE  Amounts(more, unit, C) = Amounts(buckets, unit, C) + (IF AggregationKey(r) \in C THEN r[unit] ELSE 0)
  <2> DEFINE f == UnitsIn(more, unit, C)
             e == UnitsIn(buckets, unit, C)
             S == 1..m
  <2>1. WholeOn(f, 1..(m + 1)) /\ f[m + 1] = IF AggregationKey(r) \in C THEN r[unit] ELSE 0
    <3>1. m + 1 \in 1..(m + 1)
      BY <1>1
    <3> QED BY <1>2, <1>4, <3>1, UnitsAre
  <2>2. IsFiniteSet(S) /\ \A i \in S : f[i] = e[i]
    <3>1. \A i \in S : e[i] = IF AggregationKey(buckets[i]) \in C THEN buckets[i][unit] ELSE 0
      BY UnitsAre
    <3>2. \A i \in S : f[i] = IF AggregationKey(more[i]) \in C THEN more[i][unit] ELSE 0
      BY <1>2, <1>3, <1>4, UnitsAre
    <3> QED BY <1>1, <1>2, <3>1, <3>2, UpTo
  <2> HIDE DEF f, e
  <2>3. Total(f, 1..(m + 1)) = f[m + 1] + Total(f, S) /\ Total(f, S) \in Int /\ f[m + 1] \in Int
    BY <1>1, <2>1, NextTotal
  <2> HIDE DEF S
  <2>4. Total(f, S) = Total(e, S)
    BY <2>2, TotalSame
  <2> QED BY <1>2, <2>1, <2>3, <2>4 DEF Amounts, f, e, S
<1> QED BY <1>2, <1>4, <1>5, <1>6 DEF more

WithRow(buckets, k, r) == [i \in 1..Len(buckets) |-> IF i = k THEN MergedRow(buckets[i], r) ELSE buckets[i]]

LEMMA FullerBucket ==
  ASSUME NEW buckets, AreParsed(buckets), NEW r, IsParsed(r), NEW k \in 1..Len(buckets),
         AggregationKey(buckets[k]) = AggregationKey(r),
         NEW more, more = WithRow(buckets, k, r)
  PROVE  /\ AreParsed(more) /\ Len(more) = Len(buckets)
         /\ \A i \in 1..Len(buckets) : AggregationKey(more[i]) = AggregationKey(buckets[i])
         /\ KeysIn(more) = KeysIn(buckets)
         /\ \A unit \in Units : \A C :
              Amounts(more, unit, C) = Amounts(buckets, unit, C) + (IF AggregationKey(r) \in C THEN r[unit] ELSE 0)
<1> DEFINE m == Len(buckets)
<1>0. more = [i \in 1..m |-> IF i = k THEN MergedRow(buckets[i], r) ELSE buckets[i]]
  BY DEF WithRow
<1>1. IsList(buckets) /\ m \in Nat /\ \A i \in 1..m : IsParsed(buckets[i])
  BY DEF AreParsed, IsList
<1>2. IsList(more) /\ Len(more) = m
  <2>1. DOMAIN more = 1..m /\ more = [i \in 1..m |-> more[i]]
    BY <1>0
  <2> HIDE DEF m
  <2> QED BY <1>1, <2>1, ListOf
<1>3. ASSUME NEW i \in 1..m
      PROVE  /\ IsParsed(more[i]) /\ AggregationKey(more[i]) = AggregationKey(buckets[i])
             /\ \A unit \in Units : more[i][unit] = IF i = k THEN buckets[i][unit] + r[unit] ELSE buckets[i][unit]
  <2>1. CASE i = k
    <3> DEFINE b == buckets[i]
    <3>1. more[i] = MergedRow(b, r) /\ IsParsed(b)
      BY <1>0, <1>1, <2>1
    <3> HIDE DEF b
    <3>2. /\ IsParsed(more[i]) /\ AggregationKey(more[i]) = AggregationKey(b)
          /\ \A unit \in Units : more[i][unit] = b[unit] + r[unit]
      BY <3>1, RowTaken
    <3> QED BY <2>1, <3>2 DEF b
  <2>2. CASE i # k
    BY <1>0, <1>1, <2>2
  <2> QED BY <2>1, <2>2
<1>4. AreParsed(more) /\ KeysIn(more) = KeysIn(buckets)
  BY <1>2, <1>3 DEF AreParsed, KeysIn
<1>5. ASSUME NEW unit \in Units, NEW C
      PROVE  Amounts(more, unit, C) = Amounts(buckets, unit, C) + (IF AggregationKey(r) \in C THEN r[unit] ELSE 0)
  <2> DEFINE f == UnitsIn(more, unit, C)
             e == UnitsIn(buckets, unit, C)
             S == 1..m
             d == IF AggregationKey(r) \in C THEN r[unit] ELSE 0
  <2>1. /\ WholeOn(f, S) /\ WholeOn(e, S) /\ IsFiniteSet(S)
        /\ \A i \in S : e[i] = IF AggregationKey(buckets[i]) \in C THEN buckets[i][unit] ELSE 0
        /\ \A i \in S : f[i] = IF AggregationKey(more[i]) \in C THEN more[i][unit] ELSE 0
    BY <1>2, <1>4, UnitsAre
  <2>2. r[unit] \in Int /\ buckets[k][unit] \in Int
    BY <1>1 DEF IsParsed, IsRecord, Units
  <2>3. d \in Int
    BY <2>2
  <2>4. f[k] = e[k] + d
    <3>1. more[k][unit] = buckets[k][unit] + r[unit] /\ AggregationKey(more[k]) = AggregationKey(r)
      BY <1>3
    <3> QED BY <2>1, <2>2, <3>1
  <2>5. \A i \in S \ {k} : f[i] = e[i]
    BY <1>3, <2>1
  <2> HIDE DEF f, e, d, S
  <2>6. k \in S
    BY DEF S
  <2>7. DiffersAt(f, e, S, k, d)
    BY <2>4, <2>5, <2>6 DEF DiffersAt
  <2>8. Total(f, S) = d + Total(e, S)
    BY <2>1, <2>3, <2>7, TotalRaised
  <2>9. Total(e, S) \in Int
    BY <2>1, TotalWhole DEF WholeOn
  <2> QED BY <1>2, <2>3, <2>8, <2>9 DEF Amounts, f, e, d, S
<1> QED BY <1>2, <1>3, <1>4, <1>5

LEMMA GatheredNext ==
  ASSUME NEW records, AreParsed(records), NEW n \in Nat, n + 1 <= Len(records),
         NEW buckets, Gathered(buckets, records, n)
  PROVE  Gathered(AddToBucket(buckets, records[n + 1]), records, n + 1)
<1> DEFINE r == records[n + 1]
           m == Len(buckets)
           at == {i \in 1..m : AggregationKey(buckets[i]) = AggregationKey(r)}
           more == AddToBucket(buckets, r)
           added == [i \in 1..m |-> IF i \notin at THEN buckets[i] ELSE MergedRow(buckets[i], r)]
<1>1. /\ AreParsed(buckets)
      /\ \A i, j \in 1..m : AggregationKey(buckets[i]) = AggregationKey(buckets[j]) => i = j
      /\ KeysIn(buckets) = {AggregationKey(records[i]) : i \in 1..n}
      /\ \A unit \in Units : \A C : Amounts(buckets, unit, C) = Total(UnitsIn(records, unit, C), 1..n)
  BY DEF Gathered
<1>2. IsParsed(r) /\ m \in Nat /\ n + 1 \in 1..Len(records)
  BY <1>1 DEF AreParsed, IsList
<1>3. more = IF at = {} THEN Append(buckets, r) ELSE added
  BY DEF AddToBucket, MergedRow
<1>4. {AggregationKey(records[i]) : i \in 1..(n + 1)}
        = {AggregationKey(records[i]) : i \in 1..n} \union {AggregationKey(r)}
  <2>1. \A i : i \in 1..(n + 1) <=> i \in 1..n \/ i = n + 1
    OBVIOUS
  <2> QED BY <2>1
<1>5. ASSUME NEW unit \in Units, NEW C
      PROVE  Total(UnitsIn(records, unit, C), 1..(n + 1))
               = Total(UnitsIn(records, unit, C), 1..n) + (IF AggregationKey(r) \in C THEN r[unit] ELSE 0)
  <2> DEFINE f == UnitsIn(records, unit, C)
  <2>1. WholeOn(f, 1..(n + 1)) /\ f[n + 1] = IF AggregationKey(r) \in C THEN r[unit] ELSE 0
    <3>1. WholeOn(f, 1..Len(records)) /\ f[n + 1] = IF AggregationKey(r) \in C THEN r[unit] ELSE 0
      BY <1>2, UnitsAre
    <3>2. \A i \in 1..(n + 1) : i \in 1..Len(records)
      BY <1>2 DEF AreParsed, IsList
    <3> QED BY <3>1, <3>2 DEF WholeOn
  <2> HIDE DEF f
  <2>2. Total(f, 1..(n + 1)) = f[n + 1] + Total(f, 1..n) /\ Total(f, 1..n) \in Int /\ f[n + 1] \in Int
    BY <2>1, NextTotal
  <2> QED BY <2>1, <2>2 DEF f
<1> HIDE DEF more, r
<1>6. CASE at = {}
  <2>1. more = Append(buckets, r)
    BY <1>3, <1>6
  <2>2. /\ AreParsed(more) /\ Len(more) = m + 1 /\ more[m + 1] = r
        /\ \A i \in 1..m : more[i] = buckets[i]
        /\ KeysIn(more) = KeysIn(buckets) \union {AggregationKey(r)}
        /\ \A unit \in Units : \A C :
             Amounts(more, unit, C) = Amounts(buckets, unit, C) + (IF AggregationKey(r) \in C THEN r[unit] ELSE 0)
    BY <1>1, <1>2, <2>1, NewBucket
  <2>3. \A i, j \in 1..Len(more) : AggregationKey(more[i]) = AggregationKey(more[j]) => i = j
    <3>1. \A i \in 1..(m + 1) : i \in 1..m \/ i = m + 1
      BY <1>2
    <3>2. \A i \in 1..m : AggregationKey(more[i]) = AggregationKey(buckets[i]) /\ AggregationKey(buckets[i]) # AggregationKey(r)
      BY <1>6, <2>2
    <3> QED BY <1>1, <2>2, <3>1, <3>2
  <2>4. KeysIn(more) = {AggregationKey(records[i]) : i \in 1..(n + 1)}
    BY <1>1, <1>4, <2>2
  <2>5. \A unit \in Units : \A C : Amounts(more, unit, C) = Total(UnitsIn(records, unit, C), 1..(n + 1))
    BY <1>1, <1>5, <2>2
  <2>6. Gathered(more, records, n + 1)
    BY <2>2, <2>3, <2>4, <2>5 DEF Gathered
  <2> QED BY <2>6 DEF more, r
<1>7. CASE at # {}
  <2>1. PICK k \in at : TRUE
    BY <1>7
  <2>2. k \in 1..m /\ AggregationKey(buckets[k]) = AggregationKey(r) /\ at = {k}
    BY <1>1
  <2>3. more = WithRow(buckets, k, r)
    <3>1. more = added
      BY <1>3, <1>7
    <3>2. \A i \in 1..m : i \notin at <=> i # k
      BY <2>2
    <3> HIDE DEF at
    <3> QED BY <3>1, <3>2 DEF WithRow
  <2>4. /\ AreParsed(more) /\ Len(more) = m
        /\ \A i \in 1..m : AggregationKey(more[i]) = AggregationKey(buckets[i])
        /\ KeysIn(more) = KeysIn(buckets)
        /\ \A unit \in Units : \A C :
             Amounts(more, unit, C) = Amounts(buckets, unit, C) + (IF AggregationKey(r) \in C THEN r[unit] ELSE 0)
    BY <1>1, <1>2, <2>2, <2>3, FullerBucket
  <2>5. AggregationKey(r) \in {AggregationKey(records[i]) : i \in 1..n}
    BY <1>1, <2>2 DEF KeysIn
  <2>6. \A i, j \in 1..Len(more) : AggregationKey(more[i]) = AggregationKey(more[j]) => i = j
    BY <1>1, <2>4
  <2>7. KeysIn(more) = {AggregationKey(records[i]) : i \in 1..(n + 1)}
    BY <1>1, <1>4, <2>4, <2>5
  <2>8. \A unit \in Units : \A C : Amounts(more, unit, C) = Total(UnitsIn(records, unit, C), 1..(n + 1))
    BY <1>1, <1>5, <2>4
  <2>9. Gathered(more, records, n + 1)
    BY <2>4, <2>6, <2>7, <2>8 DEF Gathered
  <2> QED BY <2>9 DEF more, r
<1> QED BY <1>6, <1>7 DEF more, r

LEMMA AllGathered ==
  ASSUME NEW records, AreParsed(records)
  PROVE  Alike(records, Buckets(records))
<1> DEFINE N == Len(records)
<1>0. N \in Nat
  BY DEF AreParsed, IsList
<1>1. PICK after : /\ Buckets(records) = after[N]
                   /\ after[0] = <<>>
                   /\ \A n \in 1..N : after[n] = AddToBucket(after[n - 1], records[n])
  BY <1>0, BucketsAfter
<1> HIDE DEF N
<1> DEFINE Q == {m \in Nat : m <= N => Gathered(after[m], records, m)}
<1>2. 0 \in Q
  <2>1. IsList(<<>>) /\ Len(<<>>) = 0 /\ 1..0 = {}
    BY DEF IsList
  <2>2. AreParsed(<<>>) /\ KeysIn(<<>>) = {}
    BY <2>1 DEF AreParsed, KeysIn
  <2>3. ASSUME NEW unit, NEW C
        PROVE  Amounts(<<>>, unit, C) = 0 /\ Total(UnitsIn(records, unit, C), 1..0) = 0
    BY <2>1, TotalNone DEF Amounts
  <2>4. Gathered(<<>>, records, 0)
    BY <2>1, <2>2, <2>3 DEF Gathered
  <2> QED BY <1>1, <2>4
<1>3. ASSUME NEW m \in Q PROVE m + 1 \in Q
  <2> SUFFICES ASSUME m + 1 <= N PROVE Gathered(after[m + 1], records, m + 1)
    OBVIOUS
  <2>1. m \in Nat /\ m + 1 \in 1..N /\ (m + 1) - 1 = m /\ Gathered(after[m], records, m)
    BY <1>0
  <2>2. after[m + 1] = AddToBucket(after[m], records[m + 1])
    BY <1>1, <2>1
  <2> HIDE DEF Q
  <2> QED BY <2>1, <2>2, GatheredNext DEF N
<1>4. Q = Nat
  <2> HIDE DEF Q
  <2>1. Q \in SUBSET Nat
    BY DEF Q
  <2> QED BY <1>2, <1>3, <2>1, EveryNatural
<1>5. Gathered(Buckets(records), records, N)
  BY <1>0, <1>1, <1>4
<1> QED BY <1>5 DEF Gathered, Alike, KeysIn, Amounts, N

LEMMA SortedAlike ==
  ASSUME NEW s, AreParsed(s), NEW list, NEW order, NEW before, Sorts(list, s, order, before)
  PROVE  Alike(s, list)
<1> DEFINE n == Len(s)
           S == 1..n
<1>1. /\ IsList(list) /\ Len(list) = n
      /\ \A m \in S : order[m] \in S /\ list[m] = s[order[m]]
      /\ \A l, m \in S : order[l] = order[m] => l = m
      /\ \A i \in S : \E m \in S : order[m] = i
  BY DEF Sorts
<1>2. AreParsed(list)
  BY <1>1 DEF AreParsed
<1>3. KeysIn(s) = KeysIn(list)
  <2>1. \A m \in S : AggregationKey(list[m]) = AggregationKey(s[order[m]])
    BY <1>1
  <2> HIDE DEF S
  <2>2. \A m \in S : \E i \in S : AggregationKey(list[m]) = AggregationKey(s[i])
    BY <1>1, <2>1
  <2>3. \A i \in S : \E m \in S : AggregationKey(list[m]) = AggregationKey(s[i])
    BY <1>1, <2>1
  <2>4. KeysIn(s) = {AggregationKey(s[i]) : i \in S} /\ KeysIn(list) = {AggregationKey(list[i]) : i \in S}
    BY <1>1 DEF KeysIn, S
  <2> QED BY <2>2, <2>3, <2>4
<1>4. ASSUME NEW unit \in Units, NEW C PROVE Amounts(s, unit, C) = Amounts(list, unit, C)
  <2> DEFINE f == UnitsIn(s, unit, C)
             g == UnitsIn(list, unit, C)
  <2>1. /\ WholeOn(f, S) /\ IsFiniteSet(S)
        /\ \A i \in S : f[i] = IF AggregationKey(s[i]) \in C THEN s[i][unit] ELSE 0
    BY UnitsAre
  <2>1a. \A i \in S : g[i] = IF AggregationKey(list[i]) \in C THEN list[i][unit] ELSE 0
    <3>1. \A i \in 1..Len(list) : g[i] = IF AggregationKey(list[i]) \in C THEN list[i][unit] ELSE 0
      BY <1>2, UnitsAre
    <3> QED BY <1>1, <3>1
  <2>2. Picks(order, S, S) /\ Follows(g, S, f, order)
    <3> HIDE DEF S, f, g
    <3>1. Picks(order, S, S)
      BY <1>1 DEF Picks
    <3>2. \A j \in S : g[j] = f[order[j]]
      <4> TAKE j \in S
      <4>1. order[j] \in S /\ list[j] = s[order[j]]
        BY <1>1
      <4> QED BY <2>1, <2>1a, <4>1
    <3> QED BY <3>1, <3>2 DEF Follows
  <2> HIDE DEF f, g, S
  <2>3. Total(g, S) = Total(f, S)
    BY <2>1, <2>2, PickedTotal
  <2> QED BY <1>1, <2>3 DEF Amounts, f, g, S
<1> QED BY <1>2, <1>3, <1>4 DEF Alike

LEMMA AggregatedAlike ==
  ASSUME NEW records, AreStored(records)
  PROVE  Alike(records, AggregateCostRecords(records))
<1> DEFINE buckets == Buckets(records)
           before == {p \in (1..Len(buckets)) \X (1..Len(buckets)) :
                        \/ SortsBefore(SortKey(buckets[p[1]]), SortKey(buckets[p[2]]))
                        \/ SortKey(buckets[p[1]]) = SortKey(buckets[p[2]]) /\ p[1] < p[2]}
           order == Ordering(1..Len(buckets), before)
           sorted == Rearranged(buckets, order)
<1>1. AggregateCostRecords(records) = sorted
  BY DEF AggregateCostRecords, Buckets, Rearranged
<1>2. AreStored(buckets) /\ AreParsed(records) /\ Alike(records, buckets)
  <2>1. AreParsed(records)
    BY DEF AreParsed, AreStored, IsStored
  <2> QED BY <2>1, BucketsMade, AllGathered
<1> HIDE DEF buckets
<1>3. Orders(before, 1..Len(buckets))
  BY <1>2, SortOrders
<1> HIDE DEF before
<1>4. Sorts(sorted, buckets, order, before)
  BY <1>2, <1>3, Sorted DEF AreStored
<1> HIDE DEF sorted, order
<1>5. Alike(buckets, sorted)
  BY <1>2, <1>4, SortedAlike DEF Alike
<1> QED BY <1>1, <1>2, <1>5 DEF Alike

\* What is kept of alike lists by the keys of the rows is alike.
OfKeys(s, D) == {i \in 1..Len(s) : AggregationKey(s[i]) \in D}

LEMMA KeptOfKeys ==
  ASSUME NEW s, AreParsed(s), NEW D, NEW kept, kept = ElementsAt(s, OfKeys(s, D))
  PROVE  /\ AreParsed(kept) /\ KeysIn(kept) = KeysIn(s) \cap D
         /\ \A unit \in Units : \A C : Amounts(kept, unit, C) = Amounts(s, unit, C \cap D)
<1> DEFINE places == OfKeys(s, D)
<1>1. IsList(s) /\ Len(s) \in Nat /\ \A i \in 1..Len(s) : IsParsed(s[i])
  BY DEF AreParsed, IsList
<1>2. places \in SUBSET (1..Len(s)) /\ \A i \in 1..Len(s) : i \in places <=> AggregationKey(s[i]) \in D
  BY DEF OfKeys
<1>s. kept = ElementsAt(s, places)
  OBVIOUS
<1> HIDE DEF places
<1>3. Keeps(kept, s, places)
  BY ONLY <1>1, <1>2, <1>s, Filtered
<1>4. IsList(kept) /\ DOMAIN kept = 1..Len(kept)
  BY <1>3, KeptIsList DEF Keeps
<1>5. /\ \A m \in 1..Len(kept) : \E i \in places : kept[m] = s[i]
      /\ \A i \in places : \E m \in 1..Len(kept) : kept[m] = s[i]
  <2>1. /\ \A m \in DOMAIN kept : \E i \in places : kept[m] = s[i]
        /\ \A i \in places : \E m \in DOMAIN kept : kept[m] = s[i]
    BY ONLY <1>3, KeptPlace
  <2> QED BY <1>4, <2>1
<1>6. AreParsed(kept)
  BY <1>1, <1>2, <1>4, <1>5 DEF AreParsed
<1>7. KeysIn(kept) = KeysIn(s) \cap D
  BY <1>2, <1>5 DEF KeysIn
<1>8. ASSUME NEW unit \in Units, NEW C PROVE Amounts(kept, unit, C) = Amounts(s, unit, C \cap D)
  <2> DEFINE v == [x \in {s[i] : i \in 1..Len(s)} |-> IF AggregationKey(x) \in C THEN x[unit] ELSE 0]
             f == UnitsIn(s, unit, C \cap D)
             e == UnitsIn(s, unit, C)
             g == UnitsIn(kept, unit, C)
  <2>1. /\ \A i \in 1..Len(s) : f[i] = IF AggregationKey(s[i]) \in C \cap D THEN s[i][unit] ELSE 0
        /\ \A i \in 1..Len(s) : e[i] \in Int /\ e[i] = IF AggregationKey(s[i]) \in C THEN s[i][unit] ELSE 0
    BY UnitsAre DEF WholeOn
  <2>2. \A i \in 1..Len(kept) : g[i] = IF AggregationKey(kept[i]) \in C THEN kept[i][unit] ELSE 0
    BY <1>6, UnitsAre
  <2>3. \A i \in 1..Len(s) : v[s[i]] = IF AggregationKey(s[i]) \in C THEN s[i][unit] ELSE 0
    OBVIOUS
  <2> HIDE DEF v, f, g, e
  <2>4. SomeAreWorth(f, s, places, v)
    BY <1>2, <2>1, <2>3 DEF SomeAreWorth
  <2>5. AreWorth(g, kept, v)
    <3> SUFFICES ASSUME NEW m \in 1..Len(kept) PROVE v[kept[m]] \in Int /\ g[m] = v[kept[m]]
      BY DEF AreWorth
    <3>1. PICK i \in 1..Len(s) : kept[m] = s[i]
      BY <1>2, <1>5
    <3> QED BY <2>1, <2>2, <2>3, <3>1
  <2>6. kept = ElementsAt(s, places)
    BY DEF places
  <2>7. Total(g, 1..Len(ElementsAt(s, places))) = Total(f, 1..Len(s))
    BY <1>1, <1>2, <2>4, <2>5, <2>6, KeptTotal
  <2> QED BY <2>6, <2>7 DEF Amounts, f, g
<1> QED BY <1>6, <1>7, <1>8

LEMMA KeptAlike ==
  ASSUME NEW s, NEW t, Alike(s, t), NEW D
  PROVE  Alike(ElementsAt(s, OfKeys(s, D)), ElementsAt(t, OfKeys(t, D)))
<1> DEFINE a == ElementsAt(s, OfKeys(s, D))
           b == ElementsAt(t, OfKeys(t, D))
<1>1. /\ AreParsed(s) /\ AreParsed(t) /\ KeysIn(s) = KeysIn(t)
      /\ \A unit \in Units : \A C : Amounts(s, unit, C) = Amounts(t, unit, C)
  BY DEF Alike
<1>2. /\ AreParsed(a) /\ KeysIn(a) = KeysIn(s) \cap D
      /\ \A unit \in Units : \A C : Amounts(a, unit, C) = Amounts(s, unit, C \cap D)
  BY <1>1, KeptOfKeys
<1>3. /\ AreParsed(b) /\ KeysIn(b) = KeysIn(t) \cap D
      /\ \A unit \in Units : \A C : Amounts(b, unit, C) = Amounts(t, unit, C \cap D)
  BY <1>1, KeptOfKeys
<1> HIDE DEF a, b
<1>4. Alike(a, b)
  <2>1. \A unit \in Units : \A C : Amounts(a, unit, C) = Amounts(b, unit, C)
    <3> TAKE unit \in Units
    <3> TAKE C
    <3>1. Amounts(a, unit, C) = Amounts(s, unit, C \cap D)
      BY <1>2
    <3>2. Amounts(b, unit, C) = Amounts(t, unit, C \cap D)
      BY <1>3
    <3>3. Amounts(s, unit, C \cap D) = Amounts(t, unit, C \cap D)
      BY <1>1
    <3> QED BY <3>1, <3>2, <3>3
  <2>2. KeysIn(a) = KeysIn(b)
    BY <1>1, <1>2, <1>3
  <2> QED BY <1>2, <1>3, <2>1, <2>2 DEF Alike
<1> QED BY <1>4 DEF a, b

-----------------------------------------------------------------------------
(* What a group tells of its rows is what their keys say. *)

\* What a group has on a day, of the current period.
OnDay(daily, day) == [i \in 1..Len(daily) |-> IF daily[i].name = day THEN daily[i].cost ELSE 0]
DailyOf(daily, day) == Total(OnDay(daily, day), 1..Len(daily))
IsDaily(daily) ==
  /\ IsList(daily)
  /\ \A i \in 1..Len(daily) : DOMAIN daily[i] = {"name", "cost"} /\ daily[i].cost \in Int
  /\ \A i, j \in 1..Len(daily) : daily[i].name = daily[j].name => i = j

LEMMA DailyCosts ==
  ASSUME NEW daily, IsDaily(daily), NEW day
  PROVE  /\ WholeOn(OnDay(daily, day), 1..Len(daily)) /\ Len(daily) \in Nat /\ IsFiniteSet(1..Len(daily))
         /\ \A i \in 1..Len(daily) : OnDay(daily, day)[i] = IF daily[i].name = day THEN daily[i].cost ELSE 0
         /\ SumSeq(OnDay(daily, day)) = DailyOf(daily, day) /\ DailyOf(daily, day) \in Int
<1> DEFINE f == OnDay(daily, day)
           m == Len(daily)
<1>1. m \in Nat /\ IsFiniteSet(1..m) /\ \A i \in 1..m : daily[i].cost \in Int
  BY UpTo DEF IsDaily, IsList
<1>2. f = [i \in 1..m |-> IF daily[i].name = day THEN daily[i].cost ELSE 0]
  BY DEF OnDay
<1> HIDE DEF m, f
<1>3. \A i \in 1..m : f[i] = IF daily[i].name = day THEN daily[i].cost ELSE 0
  BY <1>2
<1>4. \A i \in 1..m : f[i] \in Int
  BY <1>1, <1>3
<1>5. DOMAIN f = 1..m /\ f = [i \in 1..m |-> f[i]]
  BY <1>2
<1>6. IsList(f) /\ Len(f) = m
  BY <1>1, <1>5, ListOf
<1>7. SumSeq(f) = Total(f, 1..m) /\ SumSeq(f) \in Int
  BY <1>4, <1>6, SumOfList
<1> QED BY <1>1, <1>3, <1>4, <1>7 DEF WholeOn, DailyOf, f, m

LEMMA DailyAdded ==
  ASSUME NEW daily, IsDaily(daily), NEW name, NEW cost \in Int
  PROVE  /\ IsDaily(AddTo(daily, name, cost))
         /\ \A day : DailyOf(AddTo(daily, name, cost), day)
                       = DailyOf(daily, day) + (IF name = day THEN cost ELSE 0)
<1> DEFINE m == Len(daily)
           more == AddTo(daily, name, cost)
           entry == [name |-> name, cost |-> cost]
           raised == [i \in 1..m |-> IF daily[i].name = name THEN [daily[i] EXCEPT !.cost = @ + cost] ELSE daily[i]]
<1>1. /\ IsList(daily) /\ m \in Nat
      /\ \A i \in 1..m : DOMAIN daily[i] = {"name", "cost"} /\ daily[i].cost \in Int
      /\ \A i, j \in 1..m : daily[i].name = daily[j].name => i = j
  BY DEF IsDaily, IsList
<1>2. CASE \A i \in 1..m : daily[i].name # name
  <2>1. more = Append(daily, entry)
    BY <1>2 DEF AddTo
  <2>2. /\ IsList(more) /\ Len(more) = m + 1 /\ more[m + 1] = entry
        /\ \A i \in 1..m : more[i] = daily[i]
    BY <1>1, <2>1, Appended
  <2>3. entry.name = name /\ entry.cost = cost /\ DOMAIN entry = {"name", "cost"}
    OBVIOUS
  <2> HIDE DEF more, entry, raised
  <2>4. \A i \in 1..(m + 1) : i \in 1..m \/ i = m + 1
    BY <1>1
  <2>5. IsDaily(more)
    <3>1. \A i \in 1..(m + 1) : DOMAIN more[i] = {"name", "cost"} /\ more[i].cost \in Int
      BY <1>1, <2>2, <2>3, <2>4
    <3>2. \A i, j \in 1..(m + 1) : more[i].name = more[j].name => i = j
      BY <1>1, <1>2, <2>2, <2>3, <2>4
    <3> QED BY <2>2, <3>1, <3>2 DEF IsDaily
  <2>6. ASSUME NEW day PROVE DailyOf(more, day) = DailyOf(daily, day) + (IF name = day THEN cost ELSE 0)
    <3> DEFINE f == OnDay(more, day)
               e == OnDay(daily, day)
               S == 1..m
    <3>1. /\ WholeOn(f, 1..(m + 1)) /\ f[m + 1] = IF name = day THEN cost ELSE 0
          /\ \A i \in S : f[i] = IF daily[i].name = day THEN daily[i].cost ELSE 0
      <4>1. /\ WholeOn(f, 1..(m + 1))
            /\ \A i \in 1..(m + 1) : f[i] = IF more[i].name = day THEN more[i].cost ELSE 0
        BY <2>2, <2>5, DailyCosts
      <4>2. m + 1 \in 1..(m + 1) /\ \A i \in S : i \in 1..(m + 1)
        BY <1>1
      <4> QED BY <2>2, <2>3, <4>1, <4>2
    <3>2. IsFiniteSet(S) /\ \A i \in S : e[i] = IF daily[i].name = day THEN daily[i].cost ELSE 0
      BY DailyCosts
    <3>3. IsFiniteSet(S) /\ \A i \in S : f[i] = e[i]
      BY <3>1, <3>2
    <3> HIDE DEF f, e
    <3>4. Total(f, 1..(m + 1)) = f[m + 1] + Total(f, S) /\ Total(f, S) \in Int /\ f[m + 1] \in Int
      BY <1>1, <3>1, NextTotal
    <3> HIDE DEF S
    <3>5. Total(f, S) = Total(e, S)
      BY <3>3, TotalSame
    <3> QED BY <2>2, <3>1, <3>4, <3>5 DEF DailyOf, f, e, S
  <2> QED BY <2>5, <2>6 DEF more
<1>3. CASE \E i \in 1..m : daily[i].name = name
  <2>1. PICK k \in 1..m : daily[k].name = name
    BY <1>3
  <2>2. more = raised
    BY <1>3 DEF AddTo
  <2>3. DOMAIN more = 1..m /\ more = [i \in 1..m |-> more[i]]
    BY <2>2
  <2>4. ASSUME NEW i \in 1..m
        PROVE  /\ DOMAIN more[i] = {"name", "cost"} /\ more[i].name = daily[i].name
               /\ more[i].cost = daily[i].cost + (IF i = k THEN cost ELSE 0)
    <3>1. CASE i = k
      BY <1>1, <2>1, <2>2, <3>1
    <3>2. CASE i # k
      <4>1. daily[i].name # name
        BY <1>1, <2>1, <3>2
      <4> QED BY <1>1, <2>2, <3>2, <4>1
    <3> QED BY <3>1, <3>2
  <2> HIDE DEF more, raised, m
  <2>5. IsList(more) /\ Len(more) = m
    BY <1>1, <2>3, ListOf
  <2>6. IsDaily(more)
    <3>1. \A i \in 1..m : more[i].cost \in Int
      BY <1>1, <2>4
    <3> QED BY <1>1, <2>4, <2>5, <3>1 DEF IsDaily
  <2>7. ASSUME NEW day PROVE DailyOf(more, day) = DailyOf(daily, day) + (IF name = day THEN cost ELSE 0)
    <3> DEFINE f == OnDay(more, day)
               e == OnDay(daily, day)
               S == 1..m
               d == IF name = day THEN cost ELSE 0
    <3>1. /\ WholeOn(f, S) /\ WholeOn(e, S) /\ IsFiniteSet(S)
          /\ \A i \in S : f[i] = IF more[i].name = day THEN more[i].cost ELSE 0
          /\ \A i \in S : e[i] = IF daily[i].name = day THEN daily[i].cost ELSE 0
      <4>1. WholeOn(f, S) /\ \A i \in S : f[i] = IF more[i].name = day THEN more[i].cost ELSE 0
        BY <2>5, <2>6, DailyCosts
      <4>2. WholeOn(e, S) /\ IsFiniteSet(S) /\ \A i \in S : e[i] = IF daily[i].name = day THEN daily[i].cost ELSE 0
        BY DailyCosts DEF m
      <4> QED BY <4>1, <4>2
    <3>2. d \in Int
      OBVIOUS
    <3>3. f[k] = e[k] + d
      BY <1>1, <2>1, <2>4, <3>1
    <3>4. \A i \in S \ {k} : f[i] = e[i]
      BY <1>1, <2>4, <3>1
    <3>5. k \in S
      BY <2>1
    <3>6. Total(e, S) \in Int
      BY <3>1, TotalWhole DEF WholeOn
    <3> HIDE DEF f, e, d, S
    <3>7. DiffersAt(f, e, S, k, d)
      BY <3>3, <3>4, <3>5 DEF DiffersAt
    <3>8. Total(f, S) = d + Total(e, S)
      BY <3>1, <3>2, <3>7, TotalRaised
    <3> QED BY <2>5, <3>2, <3>6, <3>8 DEF DailyOf, f, e, d, S, m
  <2> QED BY <2>6, <2>7 DEF more
<1> QED BY <1>2, <1>3

\* What the first n rows of some keys come to.
Upto(s, unit, C, n) == Total(UnitsIn(s, unit, C), 1..n)

LEMMA UptoNext ==
  ASSUME NEW s, AreParsed(s), NEW n \in Nat, n + 1 <= Len(s), NEW unit \in Units, NEW C
  PROVE  /\ Upto(s, unit, C, n) \in Int
         /\ Upto(s, unit, C, n + 1)
              = Upto(s, unit, C, n) + (IF AggregationKey(s[n + 1]) \in C THEN s[n + 1][unit] ELSE 0)
<1> DEFINE f == UnitsIn(s, unit, C)
<1>1. /\ WholeOn(f, 1..Len(s)) /\ Len(s) \in Nat
      /\ \A i \in 1..Len(s) : f[i] = IF AggregationKey(s[i]) \in C THEN s[i][unit] ELSE 0
  BY UnitsAre
<1>2. n + 1 \in 1..Len(s) /\ \A i \in 1..(n + 1) : i \in 1..Len(s)
  BY <1>1
<1>3. WholeOn(f, 1..(n + 1)) /\ f[n + 1] = IF AggregationKey(s[n + 1]) \in C THEN s[n + 1][unit] ELSE 0
  BY <1>1, <1>2 DEF WholeOn
<1> HIDE DEF f
<1>4. Total(f, 1..(n + 1)) = f[n + 1] + Total(f, 1..n) /\ Total(f, 1..n) \in Int /\ f[n + 1] \in Int
  BY <1>3, NextTotal
<1>5. Upto(s, unit, C, n) \in Int /\ Upto(s, unit, C, n + 1) = Upto(s, unit, C, n) + f[n + 1]
  BY <1>4 DEF Upto, f
<1> QED BY <1>3, <1>5

LEMMA UptoNone ==
  ASSUME NEW s, AreParsed(s), NEW n \in Nat, n <= Len(s), NEW unit \in Units, NEW C,
         \A i \in 1..n : AggregationKey(s[i]) \notin C
  PROVE  Upto(s, unit, C, n) = 0
<1> DEFINE f == UnitsIn(s, unit, C)
           S == 1..n
<1>1. Len(s) \in Nat /\ \A i \in 1..Len(s) : f[i] = IF AggregationKey(s[i]) \in C THEN s[i][unit] ELSE 0
  BY UnitsAre
<1>2. \A i \in S : i \in 1..Len(s)
  BY <1>1
<1>3. IsFiniteSet(S) /\ \A i \in S : f[i] = 0
  BY <1>1, <1>2, UpTo
<1> HIDE DEF f, S
<1>4. Total(f, S) = 0
  BY <1>3, TotalZero
<1> QED BY <1>4 DEF Upto, f, S

\* K is the group of a key of a row, N the keys of the current period.
Later(K, N, group) == {k \in N : K[k] = group}
Sooner(K, N, group) == {k \in DOMAIN K : k \notin N /\ K[k] = group}
At(K, N, group, day) == {k \in N : K[k] = group /\ k[2] = day}
Skus(s, K, group, n) == {AggregationKey(s[i])[4] : i \in {j \in 1..n : K[AggregationKey(s[j])] = group}} \ {None}

\* What a group tells of the first n rows.
Tells(g, s, n, K, N) ==
  /\ g.skus = Skus(s, K, g.key, n)
  /\ g.current = Upto(s, "cost", Later(K, N, g.key), n)
  /\ g.baseline = Upto(s, "cost", Sooner(K, N, g.key), n)
  /\ g.currentQuantity = Upto(s, "quantity", Later(K, N, g.key), n)
  /\ g.baselineQuantity = Upto(s, "quantity", Sooner(K, N, g.key), n)
  /\ IsDaily(g.daily)
  /\ \A day : DailyOf(g.daily, day) = Upto(s, "cost", At(K, N, g.key, day), n)

LEMMA RecordTold ==
  ASSUME NEW resources, NEW g, IsGroup(g, resources), IsDaily(g.daily), NEW r, IsParsed(r), NEW inCurrent \in BOOLEAN,
         NEW h, h = AddRecord(g, r, inCurrent)
  PROVE  /\ h.key = g.key /\ h.skus = g.skus \union ({r.sku} \ {None})
         /\ h.current = g.current + (IF inCurrent THEN r.cost ELSE 0)
         /\ h.baseline = g.baseline + (IF inCurrent THEN 0 ELSE r.cost)
         /\ h.currentQuantity = g.currentQuantity + (IF inCurrent THEN r.quantity ELSE 0)
         /\ h.baselineQuantity = g.baselineQuantity + (IF inCurrent THEN 0 ELSE r.quantity)
         /\ IsDaily(h.daily)
         /\ \A day : DailyOf(h.daily, day) = DailyOf(g.daily, day) + (IF inCurrent /\ r.day = day THEN r.cost ELSE 0)
<1> DEFINE spent == IF inCurrent THEN r.cost ELSE 0
           used == IF inCurrent THEN r.quantity ELSE 0
           services == AddTo(g.services, r.service, spent)
           daily == IF inCurrent THEN AddTo(g.daily, r.day, spent) ELSE g.daily
           naming == NamingService(g.service, services)
           skus == g.skus \union ({r.sku} \ {None})
           c == [g EXCEPT !.services = services, !.service = naming,
                   !.region = FirstOf(@, r.region), !.resource = FirstOf(@, r.resource),
                   !.owner = FirstOf(@, r.owner), !.skus = skus, !.current = @ + spent,
                   !.baseline = @ + r.cost - spent, !.currentQuantity = @ + used,
                   !.baselineQuantity = @ + r.quantity - used, !.daily = daily]
<1>1. h = c
  BY DEF AddRecord
<1>2. r.cost \in Int /\ r.quantity \in Int
  BY DEF IsParsed, IsRecord
<1>3. /\ DOMAIN g = GroupFields /\ g.current \in Int /\ g.baseline \in Int
      /\ g.currentQuantity \in Int /\ g.baselineQuantity \in Int
  BY DEF IsGroup
<1> HIDE DEF spent, used, services, daily, naming, skus
<1>4. /\ c.key = g.key /\ c.skus = skus
      /\ c.current = g.current + spent /\ c.baseline = g.baseline + r.cost - spent
      /\ c.currentQuantity = g.currentQuantity + used
      /\ c.baselineQuantity = g.baselineQuantity + r.quantity - used
      /\ c.daily = daily
  BY <1>3 DEF GroupFields
<1>5. IsDaily(daily) /\ \A day : DailyOf(daily, day) = DailyOf(g.daily, day) + (IF inCurrent /\ r.day = day THEN r.cost ELSE 0)
  <2>1. CASE inCurrent
    <3>1. daily = AddTo(g.daily, r.day, r.cost)
      BY <2>1 DEF daily, spent
    <3> DEFINE old == g.daily
               today_ == r.day
               cost == r.cost
    <3>2. IsDaily(old) /\ cost \in Int
      BY <1>2
    <3> HIDE DEF old, today_, cost
    <3>3. /\ IsDaily(AddTo(old, today_, cost))
          /\ \A day : DailyOf(AddTo(old, today_, cost), day)
                        = DailyOf(old, day) + (IF today_ = day THEN cost ELSE 0)
      BY <3>2, DailyAdded
    <3> QED BY <2>1, <3>1, <3>3 DEF old, today_, cost
  <2>2. CASE ~inCurrent
    <3>1. daily = g.daily
      BY <2>2 DEF daily
    <3>2. \A day : DailyOf(g.daily, day) \in Int
      BY DailyCosts
    <3> QED BY <2>2, <3>1, <3>2
  <2> QED BY <2>1, <2>2
<1> HIDE DEF c
<1>6. CASE inCurrent
  <2>1. spent = r.cost /\ used = r.quantity
    BY <1>6 DEF spent, used
  <2>2. /\ g.baseline + r.cost - spent = g.baseline + 0
        /\ g.baselineQuantity + r.quantity - used = g.baselineQuantity + 0
    BY <1>2, <1>3, <2>1
  <2> QED BY <1>1, <1>4, <1>5, <1>6, <2>1, <2>2 DEF skus
<1>7. CASE ~inCurrent
  <2>1. spent = 0 /\ used = 0
    BY <1>7 DEF spent, used
  <2>2. /\ g.baseline + r.cost - spent = g.baseline + r.cost
        /\ g.baselineQuantity + r.quantity - used = g.baselineQuantity + r.quantity
    BY <1>2, <1>3, <2>1
  <2> QED BY <1>1, <1>4, <1>5, <1>7, <2>1, <2>2 DEF skus
<1> QED BY <1>6, <1>7

\* A row changes what is told of the group of its key, and only of that.
LEMMA SkusNext ==
  ASSUME NEW s, NEW n \in Nat, NEW K, NEW group
  PROVE  Skus(s, K, group, n + 1)
           = Skus(s, K, group, n)
               \union (IF K[AggregationKey(s[n + 1])] = group THEN {AggregationKey(s[n + 1])[4]} \ {None} ELSE {})
<1>1. \A i : i \in 1..(n + 1) <=> i \in 1..n \/ i = n + 1
  OBVIOUS
<1> QED BY <1>1 DEF Skus

Own(K, k, group, x) == IF K[k] = group THEN x ELSE 0

CountsIt(s, n, r, k, K, N, group) ==
  /\ Upto(s, "cost", Later(K, N, group), n + 1)
       = Upto(s, "cost", Later(K, N, group), n) + Own(K, k, group, IF k \in N THEN r.cost ELSE 0)
  /\ Upto(s, "cost", Sooner(K, N, group), n + 1)
       = Upto(s, "cost", Sooner(K, N, group), n) + Own(K, k, group, IF k \in N THEN 0 ELSE r.cost)
  /\ Upto(s, "quantity", Later(K, N, group), n + 1)
       = Upto(s, "quantity", Later(K, N, group), n) + Own(K, k, group, IF k \in N THEN r.quantity ELSE 0)
  /\ Upto(s, "quantity", Sooner(K, N, group), n + 1)
       = Upto(s, "quantity", Sooner(K, N, group), n) + Own(K, k, group, IF k \in N THEN 0 ELSE r.quantity)
  /\ \A day : Upto(s, "cost", At(K, N, group, day), n + 1)
       = Upto(s, "cost", At(K, N, group, day), n)
           + Own(K, k, group, IF k \in N /\ r.day = day THEN r.cost ELSE 0)

LEMMA RowTells ==
  ASSUME NEW s, AreParsed(s), NEW n \in Nat, n + 1 <= Len(s), NEW r, r = s[n + 1], NEW k, k = AggregationKey(r),
         NEW K, NEW N, N \in SUBSET (DOMAIN K), k \in DOMAIN K, NEW group
  PROVE  CountsIt(s, n, r, k, K, N, group)
<1> DEFINE a == Later(K, N, group)
           b == Sooner(K, N, group)
<1>1. IsParsed(r)
  BY DEF AreParsed, IsList
<1>2. k[2] = r.day
  <2> QED BY <1>1, KeySays
<1>3. k \in a <=> K[k] = group /\ k \in N
  BY DEF Later
<1>4. k \in b <=> K[k] = group /\ k \notin N
  BY DEF Sooner
<1>5. \A day : k \in At(K, N, group, day) <=> K[k] = group /\ k \in N /\ r.day = day
  BY <1>2 DEF At
<1>6. \A unit \in Units : \A C : Upto(s, unit, C, n + 1) = Upto(s, unit, C, n) + (IF k \in C THEN r[unit] ELSE 0)
  BY UptoNext
<1>7. "cost" \in Units /\ "quantity" \in Units
  BY DEF Units
<1> HIDE DEF a, b
<1>8. /\ Upto(s, "cost", a, n + 1) = Upto(s, "cost", a, n) + (IF k \in a THEN r.cost ELSE 0)
      /\ Upto(s, "cost", b, n + 1) = Upto(s, "cost", b, n) + (IF k \in b THEN r.cost ELSE 0)
      /\ Upto(s, "quantity", a, n + 1) = Upto(s, "quantity", a, n) + (IF k \in a THEN r.quantity ELSE 0)
      /\ Upto(s, "quantity", b, n + 1) = Upto(s, "quantity", b, n) + (IF k \in b THEN r.quantity ELSE 0)
      /\ \A day : Upto(s, "cost", At(K, N, group, day), n + 1)
                    = Upto(s, "cost", At(K, N, group, day), n) + (IF k \in At(K, N, group, day) THEN r.cost ELSE 0)
  BY <1>6, <1>7
<1>9. CASE K[k] = group
  BY <1>3, <1>4, <1>5, <1>8, <1>9 DEF a, b, Own, CountsIt
<1>10. CASE K[k] # group
  BY <1>3, <1>4, <1>5, <1>8, <1>10 DEF a, b, Own, CountsIt
<1> QED BY <1>9, <1>10

LEMMA GroupGrows ==
  ASSUME NEW s, AreParsed(s), NEW n \in Nat, n + 1 <= Len(s), NEW r, r = s[n + 1],
         NEW K, NEW N, N \in SUBSET (DOMAIN K), AggregationKey(r) \in DOMAIN K,
         NEW resources, NEW g, IsGroup(g, resources), Tells(g, s, n, K, N), K[AggregationKey(r)] = g.key,
         NEW inCurrent \in BOOLEAN, inCurrent <=> AggregationKey(r) \in N
  PROVE  Tells(AddRecord(g, r, inCurrent), s, n + 1, K, N) /\ AddRecord(g, r, inCurrent).key = g.key
<1> DEFINE h == AddRecord(g, r, inCurrent)
           k == AggregationKey(r)
           group == g.key
<1>1. IsParsed(r) /\ IsGroup(g, resources) /\ inCurrent \in BOOLEAN
  BY DEF AreParsed, IsList
<1>2. /\ g.skus = Skus(s, K, group, n)
      /\ g.current = Upto(s, "cost", Later(K, N, group), n)
      /\ g.baseline = Upto(s, "cost", Sooner(K, N, group), n)
      /\ g.currentQuantity = Upto(s, "quantity", Later(K, N, group), n)
      /\ g.baselineQuantity = Upto(s, "quantity", Sooner(K, N, group), n)
      /\ IsDaily(g.daily)
      /\ \A day : DailyOf(g.daily, day) = Upto(s, "cost", At(K, N, group, day), n)
  BY DEF Tells
<1>3. k[4] = r.sku
  BY <1>1, KeySays
<1>8. h = AddRecord(g, r, inCurrent) /\ IsDaily(g.daily)
  BY <1>2
<1> HIDE DEF h
<1>4. /\ h.key = g.key /\ h.skus = g.skus \union ({r.sku} \ {None})
      /\ h.current = g.current + (IF inCurrent THEN r.cost ELSE 0)
      /\ h.baseline = g.baseline + (IF inCurrent THEN 0 ELSE r.cost)
      /\ h.currentQuantity = g.currentQuantity + (IF inCurrent THEN r.quantity ELSE 0)
      /\ h.baselineQuantity = g.baselineQuantity + (IF inCurrent THEN 0 ELSE r.quantity)
      /\ IsDaily(h.daily)
      /\ \A day : DailyOf(h.daily, day) = DailyOf(g.daily, day) + (IF inCurrent /\ r.day = day THEN r.cost ELSE 0)
  BY ONLY <1>1, <1>8, RecordTold
<1> HIDE DEF group
<1>5. /\ Upto(s, "cost", Later(K, N, group), n + 1)
           = Upto(s, "cost", Later(K, N, group), n) + (IF inCurrent THEN r.cost ELSE 0)
      /\ Upto(s, "cost", Sooner(K, N, group), n + 1)
           = Upto(s, "cost", Sooner(K, N, group), n) + (IF inCurrent THEN 0 ELSE r.cost)
      /\ Upto(s, "quantity", Later(K, N, group), n + 1)
           = Upto(s, "quantity", Later(K, N, group), n) + (IF inCurrent THEN r.quantity ELSE 0)
      /\ Upto(s, "quantity", Sooner(K, N, group), n + 1)
           = Upto(s, "quantity", Sooner(K, N, group), n) + (IF inCurrent THEN 0 ELSE r.quantity)
      /\ \A day : Upto(s, "cost", At(K, N, group, day), n + 1)
           = Upto(s, "cost", At(K, N, group, day), n) + (IF inCurrent /\ r.day = day THEN r.cost ELSE 0)
  <2>1. K[k] = group
    BY DEF group
  <2>2. CountsIt(s, n, r, k, K, N, group)
    <3>1. k = AggregationKey(r) /\ k \in DOMAIN K
      OBVIOUS
    <3> HIDE DEF k
    <3> QED BY <3>1, RowTells
  <2>3. K[k] = group /\ inCurrent = (k \in N)
    BY <2>1
  <2> HIDE DEF k
  <2> QED BY <2>2, <2>3 DEF Own, CountsIt
<1>6. Skus(s, K, group, n + 1) = Skus(s, K, group, n) \union ({r.sku} \ {None})
  BY <1>3, SkusNext DEF group
<1> HIDE DEF k
<1>7. Tells(h, s, n + 1, K, N)
  BY <1>2, <1>4, <1>5, <1>6 DEF Tells, group
<1> QED BY <1>4, <1>7 DEF h, group

LEMMA GroupStays ==
  ASSUME NEW s, AreParsed(s), NEW n \in Nat, n + 1 <= Len(s),
         NEW K, NEW N, N \in SUBSET (DOMAIN K), AggregationKey(s[n + 1]) \in DOMAIN K,
         NEW g, Tells(g, s, n, K, N), K[AggregationKey(s[n + 1])] # g.key
  PROVE  Tells(g, s, n + 1, K, N)
<1> DEFINE group == g.key
<1>1. \A unit \in Units : \A C : Upto(s, unit, C, n) \in Int
  BY UptoNext
<1>2. "cost" \in Units /\ "quantity" \in Units
  BY DEF Units
<1>3. K[AggregationKey(s[n + 1])] # group
  OBVIOUS
<1> HIDE DEF group
<1>4. /\ Upto(s, "cost", Later(K, N, group), n + 1) = Upto(s, "cost", Later(K, N, group), n)
      /\ Upto(s, "cost", Sooner(K, N, group), n + 1) = Upto(s, "cost", Sooner(K, N, group), n)
      /\ Upto(s, "quantity", Later(K, N, group), n + 1) = Upto(s, "quantity", Later(K, N, group), n)
      /\ Upto(s, "quantity", Sooner(K, N, group), n + 1) = Upto(s, "quantity", Sooner(K, N, group), n)
      /\ \A day : Upto(s, "cost", At(K, N, group, day), n + 1) = Upto(s, "cost", At(K, N, group, day), n)
  <2>1. /\ Upto(s, "cost", Later(K, N, group), n + 1) = Upto(s, "cost", Later(K, N, group), n) + 0
        /\ Upto(s, "cost", Sooner(K, N, group), n + 1) = Upto(s, "cost", Sooner(K, N, group), n) + 0
        /\ Upto(s, "quantity", Later(K, N, group), n + 1) = Upto(s, "quantity", Later(K, N, group), n) + 0
        /\ Upto(s, "quantity", Sooner(K, N, group), n + 1) = Upto(s, "quantity", Sooner(K, N, group), n) + 0
        /\ \A day : Upto(s, "cost", At(K, N, group, day), n + 1) = Upto(s, "cost", At(K, N, group, day), n) + 0
    <3> DEFINE r == s[n + 1]
               k == AggregationKey(r)
    <3>1. r = s[n + 1] /\ k = AggregationKey(r) /\ k \in DOMAIN K /\ K[k] # group
      BY <1>3
    <3> HIDE DEF r, k
    <3>2. \A x : Own(K, k, group, x) = 0
      BY <3>1 DEF Own
    <3>3. CountsIt(s, n, r, k, K, N, group)
      BY <3>1, RowTells
    <3> QED BY <3>2, <3>3 DEF CountsIt
  <2> QED BY <1>1, <1>2, <2>1
<1>5. Skus(s, K, group, n + 1) = Skus(s, K, group, n)
  <2>1. Skus(s, K, group, n + 1) = Skus(s, K, group, n) \union {}
    BY <1>3, SkusNext
  <2> QED BY <2>1
<1> QED BY <1>4, <1>5 DEF Tells, group

LEMMA GroupStarts ==
  ASSUME NEW s, AreParsed(s), NEW n \in Nat, n <= Len(s), NEW K, NEW N, N \in SUBSET (DOMAIN K),
         NEW key, NEW dimension, \A i \in 1..n : K[AggregationKey(s[i])] # key
  PROVE  Tells(NewAggregate(key, dimension), s, n, K, N)
<1> DEFINE g == NewAggregate(key, dimension)
<1>1. /\ g.key = key /\ g.skus = {} /\ g.current = 0 /\ g.baseline = 0
      /\ g.currentQuantity = 0 /\ g.baselineQuantity = 0 /\ g.daily = <<>>
  BY DEF NewAggregate
<1> HIDE DEF g
<1>2. /\ \A i \in 1..n : AggregationKey(s[i]) \notin Later(K, N, key)
      /\ \A i \in 1..n : AggregationKey(s[i]) \notin Sooner(K, N, key)
      /\ \A day : \A i \in 1..n : AggregationKey(s[i]) \notin At(K, N, key, day)
  BY DEF Later, Sooner, At
<1>3. "cost" \in Units /\ "quantity" \in Units
  BY DEF Units
<1>4. /\ Upto(s, "cost", Later(K, N, key), n) = 0 /\ Upto(s, "cost", Sooner(K, N, key), n) = 0
      /\ Upto(s, "quantity", Later(K, N, key), n) = 0 /\ Upto(s, "quantity", Sooner(K, N, key), n) = 0
  <2> DEFINE a == Later(K, N, key)
             b == Sooner(K, N, key)
  <2>1. (\A i \in 1..n : AggregationKey(s[i]) \notin a) /\ \A i \in 1..n : AggregationKey(s[i]) \notin b
    BY <1>2
  <2> HIDE DEF a, b
  <2>2. \A unit \in Units : Upto(s, unit, a, n) = 0 /\ Upto(s, unit, b, n) = 0
    BY <2>1, UptoNone
  <2> QED BY <1>3, <2>2 DEF a, b
<1>5. ASSUME NEW day PROVE Upto(s, "cost", At(K, N, key, day), n) = 0
  <2> DEFINE a == At(K, N, key, day)
  <2>1. \A i \in 1..n : AggregationKey(s[i]) \notin a
    BY <1>2
  <2> HIDE DEF a
  <2>2. Upto(s, "cost", a, n) = 0
    BY <1>3, <2>1, UptoNone
  <2> QED BY <2>2 DEF a
<1>6. Skus(s, K, key, n) = {}
  BY DEF Skus
<1>7. IsDaily(<<>>) /\ \A day : DailyOf(<<>>, day) = 0
  <2>1. IsList(<<>>) /\ Len(<<>>) = 0 /\ 1..0 = {}
    BY DEF IsList
  <2> QED BY <2>1, TotalNone DEF IsDaily, DailyOf
<1>8. Tells(g, s, n, K, N)
  BY <1>1, <1>4, <1>5, <1>6, <1>7 DEF Tells
<1> QED BY <1>8 DEF g

\* All groups tell of their rows, and each row of a group has one.
AllTell(groups, s, n, K, N) ==
  /\ \A g \in 1..Len(groups) :
       /\ Tells(groups[g], s, n, K, N)
       /\ groups[g].key # None /\ \E i \in 1..n : K[AggregationKey(s[i])] = groups[g].key
  /\ \A i \in 1..n : K[AggregationKey(s[i])] # None =>
       \E g \in 1..Len(groups) : groups[g].key = K[AggregationKey(s[i])]

LEMMA GroupedTell ==
  ASSUME NEW resources, NEW groups, GroupsOK(groups, resources),
         NEW s, AreParsed(s), NEW n \in Nat, n + 1 <= Len(s), NEW r, r = s[n + 1], NEW k, k = AggregationKey(r),
         NEW K, NEW N, N \in SUBSET (DOMAIN K), k \in DOMAIN K, NEW by, NEW current, NEW baseline,
         K[k] = KeyOfRow(r, by, current, baseline), PeriodContains(current, r.day) <=> k \in N,
         AllTell(groups, s, n, K, N)
  PROVE  AllTell(Grouped(groups, r, by, current, baseline), s, n + 1, K, N)
<1> DEFINE dimension == IF by = "finest" THEN FinestDimension(r) ELSE by
           key == DimensionKey(r, dimension)
           m == Len(groups)
           at == {i \in 1..m : groups[i].key = key}
           inCurrent == PeriodContains(current, r.day)
           fresh == NewAggregate(key, dimension)
           new == AddRecord(fresh, r, inCurrent)
           added == [i \in 1..m |-> IF i \in at THEN AddRecord(groups[i], r, inCurrent) ELSE groups[i]]
<1>1. /\ m \in Nat /\ IsList(groups) /\ inCurrent \in BOOLEAN /\ (inCurrent <=> k \in N)
      /\ \A g \in 1..m : IsGroup(groups[g], resources)
  BY DEF GroupsOK, IsList, PeriodContains
<1>2. /\ \A i \in 1..n : i \in 1..(n + 1)
      /\ \A i \in 1..(n + 1) : i \in 1..n \/ i = n + 1
      /\ n + 1 \in 1..(n + 1) /\ n <= Len(s)
  BY DEF AreParsed, IsList
<1>3. /\ \A g \in 1..m : /\ Tells(groups[g], s, n, K, N)
                         /\ groups[g].key # None /\ \E i \in 1..n : K[AggregationKey(s[i])] = groups[g].key
      /\ \A i \in 1..n : K[AggregationKey(s[i])] # None =>
           \E g \in 1..m : groups[g].key = K[AggregationKey(s[i])]
  BY DEF AllTell
<1>4. k = AggregationKey(s[n + 1])
  OBVIOUS
<1>5. ASSUME NEW g, Tells(g, s, n, K, N), K[k] # g.key PROVE Tells(g, s, n + 1, K, N)
  BY <1>4, <1>5, GroupStays
<1>6. ASSUME NEW g, IsGroup(g, resources), Tells(g, s, n, K, N), K[k] = g.key
      PROVE  Tells(AddRecord(g, r, inCurrent), s, n + 1, K, N) /\ AddRecord(g, r, inCurrent).key = g.key
  <2> DEFINE c == inCurrent
  <2>1. c \in BOOLEAN /\ (c <=> AggregationKey(r) \in N) /\ K[AggregationKey(r)] = g.key /\ AggregationKey(r) \in DOMAIN K
    BY <1>1, <1>6
  <2> HIDE DEF c
  <2>2. Tells(AddRecord(g, r, c), s, n + 1, K, N) /\ AddRecord(g, r, c).key = g.key
    BY <1>6, <2>1, GroupGrows
  <2> QED BY <2>2 DEF c
<1>7. CASE K[k] = None
  <2>1. Grouped(groups, r, by, current, baseline) = groups
    BY <1>7 DEF Grouped, KeyOfRow
  <2>2. \A g \in 1..m : Tells(groups[g], s, n + 1, K, N)
    BY <1>3, <1>5, <1>7
  <2>3. AllTell(groups, s, n + 1, K, N)
    BY <1>2, <1>3, <1>4, <1>7, <2>2 DEF AllTell
  <2> QED BY <2>1, <2>3
<1>8. CASE K[k] # None /\ at = {}
  <2>1. K[k] = key /\ Grouped(groups, r, by, current, baseline) = Append(groups, new)
    BY <1>8 DEF Grouped, KeyOfRow
  <2>2. IsGroup(fresh, resources) /\ fresh.key = key
    BY DEF NewAggregate, IsGroup, GroupFields
  <2>3. \A g \in 1..m : groups[g].key # key
    BY <1>8
  <2>4. \A i \in 1..n : K[AggregationKey(s[i])] # key
    <3> SUFFICES ASSUME NEW i \in 1..n, K[AggregationKey(s[i])] = key PROVE FALSE
      OBVIOUS
    <3>1. K[AggregationKey(s[i])] # None
      BY <1>8, <2>1
    <3>2. PICK g \in 1..m : groups[g].key = K[AggregationKey(s[i])]
      BY <1>3, <3>1
    <3> QED BY <2>3, <3>2
  <2>5. Tells(fresh, s, n, K, N)
    <3> HIDE DEF key, dimension
    <3> QED BY <1>2, <2>4, GroupStarts
  <2> HIDE DEF fresh
  <2>6. Tells(new, s, n + 1, K, N) /\ new.key = key
    <3>1. K[k] = fresh.key
      BY <2>1, <2>2
    <3>2. Tells(AddRecord(fresh, r, inCurrent), s, n + 1, K, N) /\ AddRecord(fresh, r, inCurrent).key = fresh.key
      BY ONLY <1>6, <2>2, <2>5, <3>1
    <3> QED BY <2>2, <3>2
  <2> HIDE DEF new, key
  <2> DEFINE more == Append(groups, new)
  <2>7. /\ Len(more) = m + 1 /\ more[m + 1] = new
        /\ \A i \in 1..m : more[i] = groups[i]
    BY <1>1, Appended
  <2> HIDE DEF more
  <2>8. /\ \A i \in 1..(m + 1) : i \in 1..m \/ i = m + 1
        /\ \A i \in 1..m : i \in 1..(m + 1)
        /\ m + 1 \in 1..(m + 1)
    BY <1>1
  <2> HIDE DEF m
  <2>9. \A g \in 1..m : Tells(groups[g], s, n + 1, K, N)
    BY <1>3, <1>5, <2>1, <2>3
  <2>10. AllTell(more, s, n + 1, K, N)
    <3>1. ASSUME NEW g \in 1..Len(more)
          PROVE  /\ Tells(more[g], s, n + 1, K, N)
                 /\ more[g].key # None /\ \E i \in 1..(n + 1) : K[AggregationKey(s[i])] = more[g].key
      <4>1. CASE g \in 1..m
        BY <1>2, <1>3, <2>7, <2>9, <4>1
      <4>2. CASE g = m + 1
        BY <1>2, <1>4, <1>8, <2>1, <2>6, <2>7, <4>2
      <4> QED BY <2>7, <2>8, <4>1, <4>2
    <3>2. ASSUME NEW i \in 1..(n + 1), K[AggregationKey(s[i])] # None
          PROVE  \E g \in 1..Len(more) : more[g].key = K[AggregationKey(s[i])]
      <4>1. CASE i \in 1..n
        <5>1. PICK g \in 1..m : groups[g].key = K[AggregationKey(s[i])]
          BY <1>3, <3>2, <4>1
        <5> QED BY <2>7, <2>8, <5>1
      <4>2. CASE i = n + 1
        BY <1>4, <2>1, <2>6, <2>7, <2>8, <4>2
      <4> QED BY <1>2, <4>1, <4>2
    <3> QED BY <3>1, <3>2 DEF AllTell
  <2> QED BY <2>1, <2>10 DEF more
<1>9. CASE K[k] # None /\ at # {}
  <2>1. K[k] = key /\ Grouped(groups, r, by, current, baseline) = added
    BY <1>9 DEF Grouped, KeyOfRow
  <2>2. Len(added) = m
    <3> HIDE DEF at, inCurrent, m
    <3> QED BY <1>1, ListOf
  <2>3. ASSUME NEW g \in 1..m
        PROVE  Tells(added[g], s, n + 1, K, N) /\ added[g].key = groups[g].key
    <3> DEFINE old == groups[g]
    <3>1. IsGroup(old, resources) /\ Tells(old, s, n, K, N)
      BY <1>1, <1>3
    <3>2. CASE old.key = key
      <4>1. added[g] = AddRecord(old, r, inCurrent)
        BY <3>2
      <4>2. K[k] = old.key
        BY <2>1, <3>2
      <4> HIDE DEF added, old
      <4>3. Tells(AddRecord(old, r, inCurrent), s, n + 1, K, N) /\ AddRecord(old, r, inCurrent).key = old.key
        BY ONLY <1>6, <3>1, <4>2
      <4> QED BY <4>1, <4>3 DEF old
    <3>3. CASE old.key # key
      <4>1. added[g] = old
        BY <3>3
      <4>2. K[k] # old.key
        BY <2>1, <3>3
      <4> HIDE DEF added, old
      <4> QED BY <1>5, <3>1, <4>1, <4>2 DEF old
    <3> QED BY <3>2, <3>3
  <2>4. \E g \in 1..m : groups[g].key = key
    BY <1>9
  <2> HIDE DEF added, key, m
  <2>5. AllTell(added, s, n + 1, K, N)
    <3>1. \A g \in 1..Len(added) :
            /\ Tells(added[g], s, n + 1, K, N)
            /\ added[g].key # None /\ \E i \in 1..(n + 1) : K[AggregationKey(s[i])] = added[g].key
      BY <1>2, <1>3, <2>2, <2>3
    <3>2. ASSUME NEW i \in 1..(n + 1), K[AggregationKey(s[i])] # None
          PROVE  \E g \in 1..Len(added) : added[g].key = K[AggregationKey(s[i])]
      BY <1>2, <1>3, <1>4, <2>1, <2>2, <2>3, <2>4, <3>2
    <3> QED BY <3>1, <3>2 DEF AllTell
  <2> QED BY <2>1, <2>5
<1> QED BY <1>7, <1>8, <1>9

CutKeys(U, by, current, baseline) == [k \in U |-> KeyOfRow(RowOf(k), by, current, baseline)]
CurrentKeys(U, current) == {k \in U : PeriodContains(current, k[2])}

LEMMA GroupsTell ==
  ASSUME NEW s, AreParsed(s), NEW by \in Dimensions \union {"finest"}, NEW current, NEW baseline,
         NEW K, K = CutKeys(KeysIn(s), by, current, baseline), NEW N, N = CurrentKeys(KeysIn(s), current),
         NEW resources, resources = {s[i].resource : i \in 1..Len(s)}
  PROVE  /\ GroupsOK(Groups(s, by, current, baseline), resources)
         /\ AllTell(Groups(s, by, current, baseline), s, Len(s), K, N)
<1> DEFINE n == Len(s)
<1>0. IsList(s) /\ n \in Nat
  BY DEF AreParsed, IsList
<1>1. PICK after : /\ Groups(s, by, current, baseline) = after[n]
                   /\ after[0] = <<>>
                   /\ \A m \in 1..n : after[m] = Grouped(after[m - 1], s[m], by, current, baseline)
  BY <1>0, GroupsAfter
<1>2. ASSUME NEW i \in 1..n
      PROVE  /\ IsRecord(s[i]) /\ s[i].resource \in resources \cup {None}
             /\ AggregationKey(s[i]) \in DOMAIN K
             /\ K[AggregationKey(s[i])] = KeyOfRow(s[i], by, current, baseline)
             /\ PeriodContains(current, s[i].day) <=> AggregationKey(s[i]) \in N
  <2> DEFINE r == s[i]
             k == AggregationKey(r)
  <2>1. IsParsed(r) /\ r.resource \in resources /\ k \in KeysIn(s)
    BY DEF AreParsed, KeysIn
  <2> HIDE DEF r
  <2>2. r.day = k[2] /\ KeyOfRow(r, by, current, baseline) = KeyOfRow(RowOf(k), by, current, baseline)
    BY <2>1, KeySays
  <2> HIDE DEF k
  <2>3. k \in DOMAIN K /\ K[k] = KeyOfRow(RowOf(k), by, current, baseline)
    BY <2>1 DEF CutKeys
  <2>4. PeriodContains(current, r.day) <=> k \in N
    BY <2>1, <2>2 DEF CurrentKeys
  <2>5. IsRecord(r)
    BY <2>1 DEF IsParsed
  <2> QED BY <2>1, <2>2, <2>3, <2>4, <2>5 DEF r, k
<1>3. N \in SUBSET (DOMAIN K)
  BY DEF CurrentKeys, CutKeys
<1> HIDE DEF n
<1> DEFINE Q == {m \in Nat : m <= n => GroupsOK(after[m], resources) /\ AllTell(after[m], s, m, K, N)}
<1>4. 0 \in Q
  <2>1. IsList(<<>>) /\ Len(<<>>) = 0
    BY DEF IsList
  <2>2. GroupsOK(<<>>, resources) /\ AllTell(<<>>, s, 0, K, N)
    BY <2>1 DEF GroupsOK, AllTell
  <2> QED BY <1>1, <2>2
<1>5. ASSUME NEW m \in Q PROVE m + 1 \in Q
  <2> SUFFICES ASSUME m + 1 <= n
               PROVE  GroupsOK(after[m + 1], resources) /\ AllTell(after[m + 1], s, m + 1, K, N)
    OBVIOUS
  <2>1. /\ m \in Nat /\ m + 1 \in 1..n /\ (m + 1) - 1 = m /\ m + 1 <= Len(s)
        /\ GroupsOK(after[m], resources) /\ AllTell(after[m], s, m, K, N)
    BY <1>0 DEF n
  <2>2. after[m + 1] = Grouped(after[m], s[m + 1], by, current, baseline)
    BY <1>1, <2>1
  <2> DEFINE r == s[m + 1]
             k == AggregationKey(r)
             groups == after[m]
  <2>3. /\ IsRecord(r) /\ r.resource \in resources \cup {None} /\ r = s[m + 1] /\ k = AggregationKey(r)
        /\ k \in DOMAIN K /\ K[k] = KeyOfRow(r, by, current, baseline)
        /\ PeriodContains(current, r.day) <=> k \in N
        /\ GroupsOK(groups, resources) /\ AllTell(groups, s, m, K, N)
    BY <1>2, <2>1
  <2> HIDE DEF Q, r, k, groups
  <2>4. GroupsOK(Grouped(groups, r, by, current, baseline), resources)
    BY ONLY <2>3, GroupedOK
  <2>5. AllTell(Grouped(groups, r, by, current, baseline), s, m + 1, K, N)
    <3>1. AreParsed(s)
      OBVIOUS
    <3> QED BY ONLY <1>3, <2>1, <2>3, <3>1, GroupedTell
  <2> QED BY <2>2, <2>4, <2>5 DEF r, groups
<1>6. Q = Nat
  <2> HIDE DEF Q
  <2>1. Q \in SUBSET Nat
    BY DEF Q
  <2> QED BY <1>4, <1>5, <2>1, EveryNatural
<1>7. n \in Q
  BY <1>0, <1>6
<1> QED BY <1>0, <1>1, <1>7 DEF n

\* A group as it is told of, whatever its first row was called.
FigureOf(c) ==
  [c EXCEPT !.dimension = None, !.service = None, !.region = None, !.resource = None, !.owner = None]
AsTold(g, h) ==
  /\ g.key = h.key /\ g.skus = h.skus /\ g.current = h.current /\ g.baseline = h.baseline
  /\ g.currentQuantity = h.currentQuantity /\ g.baselineQuantity = h.baselineQuantity
  /\ \A day : SumSeq(OnDay(g.daily, day)) = SumSeq(OnDay(h.daily, day))

LEMMA SameFigure ==
  ASSUME NEW g, NEW h, AsTold(g, h), NEW current, NEW baseline, NEW config
  PROVE  FigureOf(Candidate(g, current, baseline, config)) = FigureOf(Candidate(h, current, baseline, config))
<1> DEFINE spikes(x) == {day \in current.start..current.end :
                           /\ SumSeq(OnDay(x.daily, day)) > config.spikeFloor
                           /\ 2 * Days(baseline) * SumSeq(OnDay(x.daily, day)) > 3 * x.baseline}
<1>1. \A x : FirstSpike(x, current, baseline, config.spikeFloor)
               = IF spikes(x) = {} THEN None ELSE CHOOSE day \in spikes(x) : \A other \in spikes(x) : day <= other
  BY DEF FirstSpike, OnDay
<1>2. spikes(g) = spikes(h)
  <2> DEFINE a(day) == SumSeq(OnDay(g.daily, day))
             b(day) == SumSeq(OnDay(h.daily, day))
  <2>1. \A day : a(day) = b(day)
    BY DEF AsTold
  <2>2. g.baseline = h.baseline
    BY DEF AsTold
  <2>3. /\ spikes(g) = {day \in current.start..current.end :
                          a(day) > config.spikeFloor /\ 2 * Days(baseline) * a(day) > 3 * h.baseline}
        /\ spikes(h) = {day \in current.start..current.end :
                          b(day) > config.spikeFloor /\ 2 * Days(baseline) * b(day) > 3 * h.baseline}
    BY <2>2
  <2> HIDE DEF spikes, a, b
  <2> QED BY <2>1, <2>3
<1> HIDE DEF spikes
<1>3. FirstSpike(g, current, baseline, config.spikeFloor) = FirstSpike(h, current, baseline, config.spikeFloor)
  BY <1>1, <1>2
<1> DEFINE c == Candidate(g, current, baseline, config)
           d == Candidate(h, current, baseline, config)
           Fields == {"key", "dimension", "service", "region", "resource", "owner", "skus", "current", "expected",
                      "change", "percent", "quantityPercent", "used", "unitBefore", "unitNow", "spike", "isNew"}
<1>4. DOMAIN c = Fields /\ DOMAIN d = Fields
  BY DEF Candidate
<1>5. /\ c.key = d.key /\ c.skus = d.skus /\ c.current = d.current /\ c.expected = d.expected
      /\ c.change = d.change /\ c.percent = d.percent /\ c.quantityPercent = d.quantityPercent
      /\ c.used = d.used /\ c.unitBefore = d.unitBefore /\ c.unitNow = d.unitNow
      /\ c.spike = d.spike /\ c.isNew = d.isNew
  <2>1. /\ g.key = h.key /\ g.skus = h.skus /\ g.current = h.current /\ g.baseline = h.baseline
        /\ g.currentQuantity = h.currentQuantity /\ g.baselineQuantity = h.baselineQuantity
    BY DEF AsTold
  <2>2. /\ Expected(g.baseline, current, baseline) = Expected(h.baseline, current, baseline)
        /\ UnitCost(g.baseline, g.baselineQuantity) = UnitCost(h.baseline, h.baselineQuantity)
        /\ UnitCost(g.current, g.currentQuantity) = UnitCost(h.current, h.currentQuantity)
    BY <2>1
  <2>3. Percent(g.current, Expected(g.baseline, current, baseline))
          = Percent(h.current, Expected(h.baseline, current, baseline))
    BY <2>1, <2>2
  <2> QED BY <1>3, <2>1, <2>2, <2>3 DEF Candidate
<1> HIDE DEF c, d
<1>6. FigureOf(c) = FigureOf(d)
  BY <1>4, <1>5 DEF FigureOf
<1> QED BY <1>6 DEF c, d

LEMMA ToldAlike ==
  ASSUME NEW s, NEW t, Alike(s, t), NEW K, NEW N, NEW g, Tells(g, s, Len(s), K, N),
         NEW h, Tells(h, t, Len(t), K, N), g.key = h.key
  PROVE  AsTold(g, h)
<1> DEFINE group == g.key
<1>1. \A unit \in Units : \A C : Upto(s, unit, C, Len(s)) = Upto(t, unit, C, Len(t))
  BY DEF Alike, Amounts, Upto
<1>2. "cost" \in Units /\ "quantity" \in Units
  BY DEF Units
<1>3. /\ Skus(s, K, group, Len(s)) = {k[4] : k \in {x \in KeysIn(s) : K[x] = group}} \ {None}
      /\ Skus(t, K, group, Len(t)) = {k[4] : k \in {x \in KeysIn(t) : K[x] = group}} \ {None}
  BY DEF Skus, KeysIn
<1>4. Skus(s, K, group, Len(s)) = Skus(t, K, group, Len(t))
  BY <1>3 DEF Alike
<1> HIDE DEF group
<1>5. /\ g.skus = Skus(s, K, group, Len(s)) /\ h.skus = Skus(t, K, group, Len(t))
      /\ g.current = Upto(s, "cost", Later(K, N, group), Len(s))
      /\ h.current = Upto(t, "cost", Later(K, N, group), Len(t))
      /\ g.baseline = Upto(s, "cost", Sooner(K, N, group), Len(s))
      /\ h.baseline = Upto(t, "cost", Sooner(K, N, group), Len(t))
      /\ g.currentQuantity = Upto(s, "quantity", Later(K, N, group), Len(s))
      /\ h.currentQuantity = Upto(t, "quantity", Later(K, N, group), Len(t))
      /\ g.baselineQuantity = Upto(s, "quantity", Sooner(K, N, group), Len(s))
      /\ h.baselineQuantity = Upto(t, "quantity", Sooner(K, N, group), Len(t))
      /\ IsDaily(g.daily) /\ IsDaily(h.daily)
      /\ \A day : DailyOf(g.daily, day) = Upto(s, "cost", At(K, N, group, day), Len(s))
      /\ \A day : DailyOf(h.daily, day) = Upto(t, "cost", At(K, N, group, day), Len(t))
  BY DEF Tells, group
<1>6. \A day : SumSeq(OnDay(g.daily, day)) = DailyOf(g.daily, day) /\ SumSeq(OnDay(h.daily, day)) = DailyOf(h.daily, day)
  BY <1>5, DailyCosts
<1>7. \A day : SumSeq(OnDay(g.daily, day)) = SumSeq(OnDay(h.daily, day))
  BY <1>1, <1>2, <1>5, <1>6
<1> QED BY <1>1, <1>2, <1>4, <1>5, <1>7 DEF AsTold

-----------------------------------------------------------------------------
(* Whatever is asked of the rows has the answer it would have had. *)

FiguresOf(groups, current, baseline, config) ==
  {FigureOf(Candidate(groups[i], current, baseline, config)) : i \in 1..Len(groups)}

LEMMA GroupToldAgain ==
  ASSUME NEW s, NEW t, Alike(s, t), NEW by \in Dimensions \union {"finest"}, NEW current, NEW baseline,
         NEW i \in 1..Len(Groups(s, by, current, baseline))
  PROVE  \E j \in 1..Len(Groups(t, by, current, baseline)) :
           AsTold(Groups(s, by, current, baseline)[i], Groups(t, by, current, baseline)[j])
<1> DEFINE G == Groups(s, by, current, baseline)
           H == Groups(t, by, current, baseline)
           K == CutKeys(KeysIn(s), by, current, baseline)
           N == CurrentKeys(KeysIn(s), current)
<1>1. AreParsed(s) /\ AreParsed(t) /\ KeysIn(s) = KeysIn(t)
  BY DEF Alike
<1>2. K = CutKeys(KeysIn(t), by, current, baseline) /\ N = CurrentKeys(KeysIn(t), current)
  BY <1>1
<1>3. AllTell(G, s, Len(s), K, N)
  BY <1>1, GroupsTell
<1> HIDE DEF K, N
<1>4. AllTell(H, t, Len(t), K, N)
  BY <1>1, <1>2, GroupsTell
<1> HIDE DEF G, H
<1>5. i \in 1..Len(G)
  BY DEF G
<1>6. Tells(G[i], s, Len(s), K, N) /\ G[i].key # None
  BY <1>3, <1>5 DEF AllTell
<1>7. PICK l \in 1..Len(s) : K[AggregationKey(s[l])] = G[i].key
  BY <1>3, <1>5 DEF AllTell
<1>8. PICK m \in 1..Len(t) : AggregationKey(t[m]) = AggregationKey(s[l])
  BY <1>1 DEF KeysIn
<1>9. PICK j \in 1..Len(H) : H[j].key = G[i].key
  <2>1. K[AggregationKey(t[m])] = G[i].key /\ K[AggregationKey(t[m])] # None
    BY <1>6, <1>7, <1>8
  <2> QED BY <1>4, <2>1 DEF AllTell
<1>10. Tells(H[j], t, Len(t), K, N)
  BY <1>4 DEF AllTell
<1>11. AsTold(G[i], H[j])
  <2> DEFINE g == G[i]
             h == H[j]
  <2>1. Tells(g, s, Len(s), K, N) /\ Tells(h, t, Len(t), K, N) /\ g.key = h.key
    BY <1>6, <1>9, <1>10
  <2> HIDE DEF g, h
  <2>2. AsTold(g, h)
    BY <2>1, ToldAlike
  <2> QED BY <2>2 DEF g, h
<1> QED BY <1>11 DEF G, H

LEMMA AlikeSymmetric ==
  ASSUME NEW s, NEW t, Alike(s, t)
  PROVE  Alike(t, s)
BY DEF Alike

LEMMA FiguresAmong ==
  ASSUME NEW s, NEW t, Alike(s, t), NEW by \in Dimensions \union {"finest"}, NEW current, NEW baseline, NEW config
  PROVE  FiguresOf(Groups(s, by, current, baseline), current, baseline, config)
           \subseteq FiguresOf(Groups(t, by, current, baseline), current, baseline, config)
<1> DEFINE G == Groups(s, by, current, baseline)
           H == Groups(t, by, current, baseline)
<1> SUFFICES ASSUME NEW i \in 1..Len(G)
             PROVE  \E j \in 1..Len(H) : FigureOf(Candidate(G[i], current, baseline, config))
                                           = FigureOf(Candidate(H[j], current, baseline, config))
  BY DEF FiguresOf
<1>1. PICK j \in 1..Len(H) : AsTold(G[i], H[j])
  BY GroupToldAgain
<1> DEFINE g == G[i]
           h == H[j]
<1>2. AsTold(g, h)
  BY <1>1
<1> HIDE DEF g, h
<1>3. FigureOf(Candidate(g, current, baseline, config)) = FigureOf(Candidate(h, current, baseline, config))
  BY <1>2, SameFigure
<1> QED BY <1>3 DEF g, h

\* A sort changes the order of the groups only.
LEMMA SortedFigures ==
  ASSUME NEW s, AreParsed(s), NEW by \in Dimensions \union {"finest"}, NEW current, NEW baseline, NEW config
  PROVE  LET groups == Groups(s, by, current, baseline)
         IN  /\ Len(ByRawChange(groups)) \in Nat
             /\ FiguresOf(ByRawChange(groups), current, baseline, config) = FiguresOf(groups, current, baseline, config)
<1> DEFINE G == Groups(s, by, current, baseline)
           sorted == ByRawChange(G)
           resources == {s[i].resource : i \in 1..Len(s)}
           K == CutKeys(KeysIn(s), by, current, baseline)
           N == CurrentKeys(KeysIn(s), current)
<1>1. GroupsOK(G, resources)
  <2> HIDE DEF K, N
  <2> QED BY GroupsTell
<1> HIDE DEF G, resources
<1>2. PICK order, before : Sorts(sorted, G, order, before)
  BY <1>1, ByChangeSorts
<1> HIDE DEF sorted
<1>3. /\ Len(sorted) = Len(G) /\ Len(G) \in Nat
      /\ \A m \in 1..Len(G) : order[m] \in 1..Len(G) /\ sorted[m] = G[order[m]]
      /\ \A i \in 1..Len(G) : \E m \in 1..Len(G) : order[m] = i
  BY <1>1, <1>2 DEF Sorts, GroupsOK, IsList
<1>4. ASSUME NEW x PROVE x \in FiguresOf(sorted, current, baseline, config) <=> x \in FiguresOf(G, current, baseline, config)
  <2> DEFINE F(g) == FigureOf(Candidate(g, current, baseline, config))
  <2>1. /\ x \in FiguresOf(sorted, current, baseline, config) <=> \E m \in 1..Len(G) : x = F(sorted[m])
        /\ x \in FiguresOf(G, current, baseline, config) <=> \E i \in 1..Len(G) : x = F(G[i])
    BY <1>3 DEF FiguresOf
  <2> HIDE DEF F
  <2>2. ASSUME NEW m \in 1..Len(G) PROVE order[m] \in 1..Len(G) /\ F(sorted[m]) = F(G[order[m]])
    <3>1. sorted[m] = G[order[m]] /\ order[m] \in 1..Len(G)
      BY <1>3
    <3> QED BY <3>1
  <2>3. ASSUME NEW i \in 1..Len(G) PROVE \E m \in 1..Len(G) : F(sorted[m]) = F(G[i])
    <3>1. PICK m \in 1..Len(G) : order[m] = i
      BY <1>3
    <3> QED BY <2>2, <3>1
  <2> QED BY <2>1, <2>2, <2>3
<1>5. FiguresOf(sorted, current, baseline, config) = FiguresOf(G, current, baseline, config)
  BY <1>4 DEF FiguresOf
<1> QED BY <1>3, <1>5 DEF sorted, G

\* What the property looks at, of a cut or a comparison.
FiguresIn(changes) ==
  {[changes[i] EXCEPT !.dimension = None, !.service = None, !.region = None,
                      !.resource = None, !.owner = None] : i \in 1..Len(changes)}
CutBy(s, by, current, baseline, config) ==
  IF by = "finest" THEN AllCandidates(s, current, baseline, config)
  ELSE GroupChanges(s, by, current, baseline, config)

LEMMA FiguresCut ==
  ASSUME NEW s, AreParsed(s), NEW by \in Dimensions \union {"finest"}, NEW current, NEW baseline, NEW config
  PROVE  FiguresIn(CutBy(s, by, current, baseline, config))
           = FiguresOf(Groups(s, by, current, baseline), current, baseline, config)
<1> DEFINE sorted == ByRawChange(Groups(s, by, current, baseline))
           changes == [i \in 1..Len(sorted) |-> Candidate(sorted[i], current, baseline, config)]
<1>1. /\ Len(sorted) \in Nat
      /\ FiguresOf(sorted, current, baseline, config)
           = FiguresOf(Groups(s, by, current, baseline), current, baseline, config)
  BY SortedFigures
<1>2. CutBy(s, by, current, baseline, config) = changes
  BY DEF CutBy, AllCandidates, GroupChanges
<1> HIDE DEF sorted
<1>3. Len(changes) = Len(sorted) /\ \A i \in 1..Len(sorted) : changes[i] = Candidate(sorted[i], current, baseline, config)
  BY <1>1, ListOf
<1> HIDE DEF changes
<1>4. FiguresIn(changes) = {FigureOf(changes[i]) : i \in 1..Len(sorted)}
  BY <1>3 DEF FiguresIn, FigureOf
<1>5. {FigureOf(changes[i]) : i \in 1..Len(sorted)} = FiguresOf(sorted, current, baseline, config)
  BY <1>3 DEF FiguresOf
<1> QED BY <1>1, <1>2, <1>4, <1>5

LEMMA AnsweredAlike ==
  ASSUME NEW s, NEW t, Alike(s, t), NEW by \in Dimensions \union {"finest"}, NEW current, NEW baseline, NEW config
  PROVE  FiguresIn(CutBy(s, by, current, baseline, config)) = FiguresIn(CutBy(t, by, current, baseline, config))
<1>1. AreParsed(s) /\ AreParsed(t) /\ Alike(t, s)
  BY AlikeSymmetric DEF Alike
<1> DEFINE A == FiguresOf(Groups(s, by, current, baseline), current, baseline, config)
           B == FiguresOf(Groups(t, by, current, baseline), current, baseline, config)
<1>2. A \subseteq B
  BY FiguresAmong
<1>3. B \subseteq A
  BY <1>1, FiguresAmong
<1>4. FiguresIn(CutBy(s, by, current, baseline, config)) = A
  BY <1>1, FiguresCut
<1>5. FiguresIn(CutBy(t, by, current, baseline, config)) = B
  BY <1>1, FiguresCut
<1> HIDE DEF A, B
<1> QED BY <1>2, <1>3, <1>4, <1>5

\* A filter looks at what is in the key.
LEMMA FilteredAlike ==
  ASSUME NEW s, NEW t, Alike(s, t), NEW accounts
  PROVE  Alike(FilterRecords(s, accounts), FilterRecords(t, accounts))
<1> DEFINE D == {k \in KeysIn(s) : /\ accounts # {} => k[1] \in accounts
                                   /\ k[7] \in {"usage", "purchase", "adjustment"}}
<1>1. AreParsed(s) /\ AreParsed(t) /\ KeysIn(s) = KeysIn(t)
  BY DEF Alike
<1>2. ASSUME NEW x, AreParsed(x), KeysIn(x) = KeysIn(s) PROVE FilterRecords(x, accounts) = ElementsAt(x, OfKeys(x, D))
  <2>1. ASSUME NEW i \in 1..Len(x)
        PROVE  AggregationKey(x[i]) \in D <=> /\ accounts # {} => x[i].account \in accounts
                                              /\ x[i].category \in {"usage", "purchase", "adjustment"}
    <3> DEFINE r == x[i]
               k == AggregationKey(r)
    <3>1. IsParsed(r) /\ k \in KeysIn(s)
      BY <1>2 DEF AreParsed, KeysIn
    <3> HIDE DEF r
    <3>2. r.account = k[1] /\ r.category = k[7]
      BY <3>1, KeySays
    <3> HIDE DEF k
    <3> QED BY <3>1, <3>2 DEF r, k
  <2> HIDE DEF D
  <2>2. {i \in 1..Len(x) : /\ accounts # {} => x[i].account \in accounts
                           /\ x[i].category \in {"usage", "purchase", "adjustment"}} = OfKeys(x, D)
    BY <2>1 DEF OfKeys
  <2> QED BY <2>2 DEF FilterRecords
<1> HIDE DEF D
<1>3. Alike(ElementsAt(s, OfKeys(s, D)), ElementsAt(t, OfKeys(t, D)))
  BY KeptAlike
<1> QED BY <1>1, <1>2, <1>3

LEMMA InPeriodsAlike ==
  ASSUME NEW s, NEW t, Alike(s, t)
  PROVE  Alike(InPeriods(s), InPeriods(t))
<1> DEFINE D == {k \in KeysIn(s) : \E p \in Periods : PeriodContains(p, k[2])}
<1>1. AreParsed(s) /\ AreParsed(t) /\ KeysIn(s) = KeysIn(t)
  BY DEF Alike
<1>2. ASSUME NEW x, AreParsed(x), KeysIn(x) = KeysIn(s) PROVE InPeriods(x) = ElementsAt(x, OfKeys(x, D))
  <2>1. ASSUME NEW i \in 1..Len(x)
        PROVE  AggregationKey(x[i]) \in D <=> \E p \in Periods : PeriodContains(p, x[i].day)
    <3> DEFINE r == x[i]
               k == AggregationKey(r)
    <3>1. IsParsed(r) /\ k \in KeysIn(s)
      BY <1>2 DEF AreParsed, KeysIn
    <3> HIDE DEF r
    <3>2. r.day = k[2]
      BY <3>1, KeySays
    <3> HIDE DEF k
    <3> QED BY <3>1, <3>2 DEF r, k
  <2> HIDE DEF D
  <2>2. {i \in 1..Len(x) : \E p \in Periods : PeriodContains(p, x[i].day)} = OfKeys(x, D)
    BY <2>1 DEF OfKeys
  <2> QED BY <2>2 DEF InPeriods
<1> HIDE DEF D
<1>3. Alike(ElementsAt(s, OfKeys(s, D)), ElementsAt(t, OfKeys(t, D)))
  BY KeptAlike
<1> QED BY <1>1, <1>2, <1>3

\* Before anything is compared, the bill is what was stored of the file.
RowsLoaded ==
  origin = "upload" /\ stage = "loaded" =>
    "cost" \in Stored /\ input.records = InPeriods(sources["cost"].items)

LEMMA RowsLoadedStep == RowsLoaded /\ DataIInv /\ [Next]_pipelineVars => RowsLoaded'
<1> SUFFICES ASSUME RowsLoaded, DataIInv, [Next]_pipelineVars PROVE RowsLoaded'
  OBVIOUS
<1>1. DOMAIN input = InputFields
  BY DEF DataIInv, IsInput
<1>2. ASSUME stage' # "loaded" \/ origin' # "upload" PROVE RowsLoaded'
  BY <1>2 DEF RowsLoaded
<1>3. CASE UNCHANGED pipelineVars
  BY <1>3 DEF pipelineVars, vars, RowsLoaded, Stored, InPeriods, Periods
<1>4. CASE LoadDataset
  <2>1. /\ "cost" \in Stored /\ UNCHANGED sources /\ input'.records = InPeriods(sources["cost"].items)
        /\ input'.current = input.current /\ input'.baseline = input.baseline
    BY <1>1, <1>4 DEF LoadDataset, InputFields
  <2>2. Stored' = Stored
    BY <2>1 DEF Stored
  <2>3. InPeriods(sources["cost"].items)' = InPeriods(sources["cost"].items)
    BY <2>1 DEF InPeriods, Periods
  <2> QED BY <2>1, <2>2, <2>3 DEF RowsLoaded
<1>5. CASE \E kind \in Kinds : PutSource(kind)
  BY <1>2, <1>5 DEF PutSource, vars
<1>6. CASE LoadLive \/ LoadFails \/ LoadBundle \/ BundleFails \/ LiveStep
  BY <1>2, <1>6 DEF LoadLive, LoadFails, LoadBundle, BundleFails, LiveStep
<1>7. CASE AnalysisStep
  BY <1>2, <1>7 DEF AnalysisStep, Compare, Publish, InvestigateByRules, InvestigateByAgent, GetCostBreakdown
<1> QED BY <1>3, <1>4, <1>5, <1>6, <1>7 DEF Next

\* Putting the rows of a file together by their keys changes no answer.
THEOREM AggregationIsLossless == Spec => []AggregationChangesNoAnswer
<1>1. RowsLoaded /\ KnownIInv => AggregationChangesNoAnswer
  <2> SUFFICES ASSUME RowsLoaded, KnownIInv, origin = "upload", stage = "loaded"
               PROVE  AggregationChangesNoAnswer
    BY DEF AggregationChangesNoAnswer
  <2> DEFINE file == files["cost"]
             usable == UsableOf(file)
             stored == AggregateCostRecords(usable)
  <2>1. /\ file # None /\ sources["cost"] = ParseSource(file) /\ ParseSource(file).accepted
        /\ input.records = InPeriods(sources["cost"].items) /\ files \in Uploads
    BY DEF RowsLoaded, KnownIInv, SourcesParsed, Stored, Kinds
  <2>2. /\ file.kind = "cost" /\ IsLedger(file.rows)
        /\ \A i \in 1..Len(file.rows) : NamesListed(file.rows[i])
    BY <2>1, UploadsAssumption
  <2>3. AreStored(usable) /\ sources["cost"].items = stored
    <3> HIDE DEF file
    <3> QED BY <2>1, <2>2, UsableStored
  <2>4. InPeriods(usable) = InPeriods(ElementsAt(Parse(files.cost.format, files.cost.rows),
             {i \in 1..Len(Parse(files.cost.format, files.cost.rows)) :
                Usable(Parse(files.cost.format, files.cost.rows)[i])}))
    BY DEF UsableOf
  <2> HIDE DEF usable
  <2>5. Alike(usable, stored)
    BY <2>3, AggregatedAlike
  <2> HIDE DEF stored
  <2> DEFINE all == InPeriods(usable)
             records == input.records
  <2>6. Alike(all, records)
    BY <2>1, <2>3, <2>5, InPeriodsAlike
  <2>7. Alike(FilterRecords(all, input.accounts), FilterRecords(records, input.accounts))
    <3> HIDE DEF all, records
    <3> QED BY <2>6, FilteredAlike
  <2>8. ASSUME NEW dimension \in Dimensions
        PROVE  FiguresIn(GroupChanges(all, dimension, input.current, input.baseline, input.config))
                 = FiguresIn(GroupChanges(records, dimension, input.current, input.baseline, input.config))
    <3>1. dimension \in Dimensions \union {"finest"} /\ dimension # "finest"
      BY DEF Dimensions
    <3> HIDE DEF all, records
    <3>2. FiguresIn(CutBy(all, dimension, input.current, input.baseline, input.config))
            = FiguresIn(CutBy(records, dimension, input.current, input.baseline, input.config))
      BY <2>6, <3>1, AnsweredAlike
    <3> QED BY <3>1, <3>2 DEF CutBy
  <2>9. FiguresIn(AllCandidates(FilterRecords(all, input.accounts), input.current, input.baseline, input.config))
          = FiguresIn(AllCandidates(FilterRecords(records, input.accounts), input.current, input.baseline, input.config))
    <3> DEFINE a == FilterRecords(all, input.accounts)
               b == FilterRecords(records, input.accounts)
    <3>1. Alike(a, b)
      BY <2>7
    <3> HIDE DEF a, b
    <3>2. "finest" \in Dimensions \union {"finest"}
      OBVIOUS
    <3>3. FiguresIn(CutBy(a, "finest", input.current, input.baseline, input.config))
            = FiguresIn(CutBy(b, "finest", input.current, input.baseline, input.config))
      BY <3>1, <3>2, AnsweredAlike
    <3> QED BY <3>3 DEF CutBy, a, b
  <2> DEFINE parsed == Parse(files.cost.format, files.cost.rows)
             whole == InPeriods(ElementsAt(parsed, {i \in 1..Len(parsed) : Usable(parsed[i])}))
  <2>10. all = whole
    BY <2>4
  <2> HIDE DEF all
  <2> DEFINE Figures(changes) ==
               {[changes[i] EXCEPT !.dimension = None, !.service = None, !.region = None,
                                   !.resource = None, !.owner = None] : i \in 1..Len(changes)}
             Cut(rows, dimension) ==
               Figures(GroupChanges(rows, dimension, input.current, input.baseline, input.config))
             Finest(rows) ==
               Figures(AllCandidates(FilterRecords(rows, input.accounts), input.current,
                                     input.baseline, input.config))
  <2>11. ASSUME NEW dimension \in Dimensions
         PROVE  Cut(all, dimension) = Cut(records, dimension)
    <3> DEFINE x == GroupChanges(all, dimension, input.current, input.baseline, input.config)
               y == GroupChanges(records, dimension, input.current, input.baseline, input.config)
    <3>1. FiguresIn(x) = FiguresIn(y)
      BY <2>8
    <3> HIDE DEF x, y
    <3>2. Figures(x) = Figures(y)
      BY <3>1 DEF FiguresIn
    <3> QED BY <3>2 DEF x, y
  <2>12. Finest(all) = Finest(records)
    <3> DEFINE x == AllCandidates(FilterRecords(all, input.accounts), input.current, input.baseline, input.config)
               y == AllCandidates(FilterRecords(records, input.accounts), input.current, input.baseline, input.config)
    <3>1. FiguresIn(x) = FiguresIn(y)
      BY <2>9
    <3> HIDE DEF x, y
    <3>2. Figures(x) = Figures(y)
      BY <3>1 DEF FiguresIn
    <3> QED BY <3>2 DEF x, y
  <2> HIDE DEF Cut, Finest, whole
  <2>13. /\ \A dimension \in Dimensions : Cut(whole, dimension) = Cut(input.records, dimension)
         /\ Finest(whole) = Finest(input.records)
    BY <2>10, <2>11, <2>12
  <2> QED BY <2>13 DEF AggregationChangesNoAnswer, Cut, Finest, whole
<1>2. Init => RowsLoaded
  BY DEF Init, RowsLoaded
<1>3. Spec => []RowsLoaded
  BY <1>2, RowsLoadedStep, DataInvariance, PTL DEF Spec
<1> QED BY <1>1, <1>3, KnownInvariance, PTL

=============================================================================
