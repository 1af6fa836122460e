----------------------------- MODULE StoreProofs -----------------------------
(***************************************************************************)
(* What the two stores behind the gateway keep, which share no state: the  *)
(* history of investigations (JobHistory) and the uploaded datasets        *)
(* (DatasetStore), for any values of their constants.                      *)
(*                                                                         *)
(* The history, with any number of investigations, events, crashes and     *)
(* failures.  The chain keeps, for each investigation, every event after   *)
(* the ones before it and the outcome after them all (Orderly); what has   *)
(* been emitted is stored or in the chain (Queued); a run that flushes at  *)
(* its end still awaits the write of its outcome, or it is stored          *)
(* (Finishing).                                                            *)
(*                                                                         *)
(* The datasets, with any number of requests, slots and files.  The lock   *)
(* of a dataset names the one request inside mutate (LockFollowsRequest),  *)
(* so what that request read is still what the store has, unless the       *)
(* dataset was deleted: its copy holds all that was accepted               *)
(* (UploadCopies, SealCopies), and a sealed dataset has nobody left who    *)
(* could write it (SealedIsQuiet).                                         *)
(***************************************************************************)
EXTENDS JobHistory, DatasetStore, FiniteSetTheorems, SequenceTheorems, TLAPS

\* The points between the creation of an investigation and its run.
Before == {"flush_create", "prune_query", "prune_events", "prune_row", "flush_start", "found"}

\* The points at which a run has its outcome.
Ended == {"flush_end", "returned", "dead"}

Born == {j \in Jobs : born[j] > 0}

\* The investigations that anything is known of were created, at different times.
BornFirst ==
  /\ \A j \in Jobs : at[j] = "idle" <=> born[j] = 0
  /\ \A j \in Jobs : at[j] = "idle" => seq[j] = 0
  /\ \A j \in Jobs : at[j] # "idle" => status[j] # "none"
  /\ \A j \in Jobs : row[j] # "none" => born[j] > 0
  /\ \A j \in Jobs : \A k \in todo[j] : born[k] > 0
  /\ \A j \in Jobs : born[j] <= Cardinality(Born)
  /\ \A j, k \in Born : born[j] = born[k] => j = k

\* A prune that deletes a row has begun to drop that investigation.
RowAfterEvents ==
  \A j, k \in Jobs : at[j] = "prune_row" /\ NextDoomed(j, k) => k \in dropped

\* The event a write is about exists, and a write that has saved its state has one.
EventsExist ==
  /\ \A j \in Jobs : events[j] \subseteq 1..seq[j]
  /\ \A i \in 1..Len(chain) : chain[i].event <= seq[chain[i].job]
  /\ saved => chain # <<>> /\ chain[1].event # 0

\* Outcomes come last: in the job object, in the chain and in the table.
OutcomesComeLast ==
  /\ \A j \in Jobs : status[j] \in Outcomes => at[j] \in Ended
  /\ \A j \in Jobs : row[j] \in Outcomes => at[j] \in Ended
  /\ \A i \in 1..Len(chain) :
       /\ at[chain[i].job] # "idle"
       /\ chain[i].status # "none"
       /\ chain[i].status \in Outcomes =>
            at[chain[i].job] \in Ended /\ chain[i].event = 0

\* Event e of j is stored, or a write of s before position n will store it.
Safe(s, stored, j, e, n) ==
  e \in stored \/ \E h \in 1..(n - 1) : h <= Len(s) /\ s[h].job = j /\ s[h].event = e

Orderly(s, stored, j, last) ==
  \A n \in 1..Len(s) : s[n].job = j =>
    /\ \A e \in 1..(s[n].event - 1) : Safe(s, stored, j, e, n)
    /\ s[n].status \in Outcomes => \A e \in 1..last : Safe(s, stored, j, e, n)

Queued(s, stored, j, last) == \A e \in 1..last : Safe(s, stored, j, e, Len(s) + 1)

\* Position n of s is the last write of j, with outcome o.
LastWrite(s, j, o, n) ==
  /\ s[n].job = j /\ s[n].status = o /\ s[n].event = 0
  /\ \A h \in (n + 1)..Len(s) : s[h].job # j

Finishing(j) ==
  \/ row[j] = status[j] /\ \A h \in 1..Len(chain) : chain[h].job # j
  \/ /\ at[j] = "flush_end"
     /\ \E n \in 1..Len(chain) : n <= ahead[j] /\ LastWrite(chain, j, status[j], n)

IsLog(stored) == \E n \in Nat : stored = 1..n

Faithful(j) ==
  Intact(j) =>
    /\ IsLog(events[j])
    /\ Orderly(chain, events[j], j, seq[j])
    /\ ~deaf[j] /\ at[j] \notin {"returned", "lost", "dead"} =>
         Queued(chain, events[j], j, seq[j])
    /\ ~deaf[j] /\ at[j] \in {"flush_end", "returned"} => Finishing(j)
    /\ row[j] \in Outcomes => events[j] = 1..seq[j]

IInv ==
  /\ TypeOK
  /\ BornFirst
  /\ RowAfterEvents
  /\ EventsExist
  /\ OutcomesComeLast
  /\ \A j \in Jobs : Faithful(j)

USE BoundsNatural
-----------------------------------------------------------------------------
(* Sequences of writes. *)

LEMMA OneAppended ==
  ASSUME NEW s \in Seq(Writes), NEW w \in Writes
  PROVE  /\ s \o <<w>> \in Seq(Writes)
         /\ Len(s) \in Nat /\ Len(s \o <<w>>) = Len(s) + 1
         /\ \A i \in 1..Len(s) : (s \o <<w>>)[i] = s[i]
         /\ (s \o <<w>>)[Len(s) + 1] = w
<1>1. <<w>> \in Seq(Writes) /\ Len(<<w>>) = 1 /\ <<w>>[1] = w
  OBVIOUS
<1>2. Len(s) \in Nat
  OBVIOUS
<1> QED BY <1>1, <1>2, ConcatProperties

LEMMA TwoAppended ==
  ASSUME NEW s \in Seq(Writes), NEW a \in Writes, NEW b \in Writes
  PROVE  s \o <<a, b>> = (s \o <<a>>) \o <<b>>
<1>1. /\ <<a>> \in Seq(Writes) /\ Len(<<a>>) = 1 /\ <<a>>[1] = a
      /\ <<b>> \in Seq(Writes) /\ Len(<<b>>) = 1 /\ <<b>>[1] = b
      /\ <<a, b>> \in Seq(Writes) /\ Len(<<a, b>>) = 2
      /\ <<a, b>>[1] = a /\ <<a, b>>[2] = b
  OBVIOUS
<1>2. /\ <<a>> \o <<b>> \in Seq(Writes) /\ Len(<<a>> \o <<b>>) = 2
      /\ (<<a>> \o <<b>>)[1] = a /\ (<<a>> \o <<b>>)[2] = b
  BY <1>1, ConcatProperties
<1>3. <<a>> \o <<b>> = <<a, b>>
  <2> DEFINE u == <<a>> \o <<b>>
             v == <<a, b>>
  <2>1. u \in Seq(Writes) /\ v \in Seq(Writes) /\ Len(u) = 2 /\ Len(v) = 2
        /\ u[1] = v[1] /\ u[2] = v[2]
    BY <1>1, <1>2
  <2> HIDE DEF u, v
  <2>2. \A i \in 1..Len(u) : u[i] = v[i]
    BY <2>1
  <2>3. u = v
    BY <2>1, <2>2, SeqEqual
  <2> QED BY <2>3 DEF u, v
<1>4. (s \o <<a>>) \o <<b>> = s \o (<<a>> \o <<b>>)
  BY <1>1, ConcatAssociative
<1> QED BY <1>3, <1>4

LEMMA FirstTaken ==
  ASSUME NEW s \in Seq(Writes), s # <<>>
  PROVE  /\ Head(s) = s[1] /\ s[1] \in Writes /\ Tail(s) \in Seq(Writes)
         /\ Len(s) \in Nat \ {0} /\ Len(Tail(s)) = Len(s) - 1
         /\ \A i \in 1..(Len(s) - 1) : Tail(s)[i] = s[i + 1]
<1>1. Len(s) \in Nat \ {0} /\ Head(s) = s[1]
  OBVIOUS
<1> QED BY <1>1, HeadTailProperties

\* t is s with more writes behind it, all of them in W.
Grown(s, t, W) ==
  /\ t \in Seq(Writes) /\ Len(s) \in Nat /\ Len(t) \in Nat /\ Len(s) <= Len(t)
  /\ \A i \in 1..Len(s) : t[i] = s[i]
  /\ \A i \in 1..Len(t) : i > Len(s) => t[i] \in W
  /\ s # <<>> => t # <<>> /\ t[1] = s[1]

LEMMA GrownByNone ==
  ASSUME NEW s \in Seq(Writes), NEW W
  PROVE  Grown(s, s, W)
<1>1. Len(s) \in Nat
  OBVIOUS
<1> QED BY <1>1 DEF Grown

LEMMA GrownByOne ==
  ASSUME NEW s \in Seq(Writes), NEW w \in Writes
  PROVE  Grown(s, s \o <<w>>, {w})
<1> DEFINE t == s \o <<w>>
<1>1. /\ t \in Seq(Writes) /\ Len(s) \in Nat /\ Len(t) = Len(s) + 1
      /\ \A i \in 1..Len(s) : t[i] = s[i]
      /\ t[Len(s) + 1] = w
  BY OneAppended
<1> HIDE DEF t
<1>2. s # <<>> => t # <<>> /\ t[1] = s[1]
  <2>1. ASSUME s # <<>> PROVE t # <<>> /\ t[1] = s[1]
    <3>1. Len(s) # 0
      BY <2>1
    <3>2. 1 \in 1..Len(s) /\ Len(t) # 0
      BY <1>1, <3>1
    <3> QED BY <1>1, <3>2
  <2> QED BY <2>1
<1>3. \A i \in 1..Len(t) : i > Len(s) => t[i] \in {w}
  BY <1>1
<1>4. Grown(s, t, {w})
  BY <1>1, <1>2, <1>3 DEF Grown
<1> QED BY <1>4 DEF t

LEMMA GrownByTwo ==
  ASSUME NEW s \in Seq(Writes), NEW a \in Writes, NEW b \in Writes
  PROVE  /\ Grown(s, s \o <<a, b>>, {a, b})
         /\ Len(s \o <<a, b>>) = Len(s) + 2
         /\ (s \o <<a, b>>)[Len(s) + 2] = b
<1> DEFINE t == s \o <<a>>
           u == t \o <<b>>
<1>1. Grown(s, t, {a}) /\ t \in Seq(Writes) /\ Len(t) = Len(s) + 1
  BY GrownByOne, OneAppended
<1>2. Grown(t, u, {b}) /\ Len(u) = Len(t) + 1 /\ u[Len(t) + 1] = b
  BY <1>1, GrownByOne, OneAppended
<1>3. u = s \o <<a, b>>
  BY TwoAppended
<1> HIDE DEF t, u
<1>4. Grown(s, u, {a, b})
  BY <1>1, <1>2 DEF Grown
<1>5. Len(u) = Len(s) + 2 /\ u[Len(s) + 2] = b
  BY <1>1, <1>2 DEF Grown
<1> QED BY <1>3, <1>4, <1>5

LEMMA SafeWhenGrown ==
  ASSUME NEW s \in Seq(Writes), NEW t, NEW W, Grown(s, t, W), NEW stored, NEW j, NEW e,
         NEW n \in 1..(Len(s) + 1), NEW m \in Nat, n <= m, Safe(s, stored, j, e, n)
  PROVE  Safe(t, stored, j, e, m)
<1>1. CASE e \in stored
  BY <1>1 DEF Safe
<1>2. CASE e \notin stored
  <2>1. PICK h \in 1..(n - 1) : h <= Len(s) /\ s[h].job = j /\ s[h].event = e
    BY <1>2 DEF Safe
  <2>2. h \in 1..(m - 1) /\ h <= Len(t) /\ t[h] = s[h]
    BY <2>1 DEF Grown
  <2> QED BY <2>1, <2>2 DEF Safe
<1> QED BY <1>1, <1>2

\* s has no outcome of j yet.
Open(s, j) == \A n \in 1..Len(s) : s[n].job = j => s[n].status \notin Outcomes

\* Writes of other investigations change nothing for j.
LEMMA GrownByOthers ==
  ASSUME NEW s \in Seq(Writes), NEW t, NEW W, Grown(s, t, W), NEW j, \A w \in W : w.job # j,
         NEW stored, NEW last \in Nat, Orderly(s, stored, j, last)
  PROVE  /\ Orderly(t, stored, j, last)
         /\ Queued(s, stored, j, last) => Queued(t, stored, j, last)
<1>1. ASSUME NEW n \in 1..Len(t), t[n].job = j
      PROVE  /\ \A e \in 1..(t[n].event - 1) : Safe(t, stored, j, e, n)
             /\ t[n].status \in Outcomes => \A e \in 1..last : Safe(t, stored, j, e, n)
  <2>1. n \in 1..Len(s) /\ t[n] = s[n]
    BY <1>1 DEF Grown
  <2>2. n \in 1..(Len(s) + 1) /\ n \in Nat
    BY <2>1 DEF Grown
  <2>3. \A e : Safe(s, stored, j, e, n) => Safe(t, stored, j, e, n)
    BY <2>2, SafeWhenGrown
  <2> QED BY <1>1, <2>1, <2>3 DEF Orderly
<1>2. ASSUME Queued(s, stored, j, last) PROVE Queued(t, stored, j, last)
  <2>1. Len(s) + 1 \in 1..(Len(s) + 1) /\ Len(t) + 1 \in Nat /\ Len(s) + 1 <= Len(t) + 1
    BY DEF Grown
  <2>2. \A e : Safe(s, stored, j, e, Len(s) + 1) => Safe(t, stored, j, e, Len(t) + 1)
    BY <2>1, SafeWhenGrown
  <2> QED BY <1>2, <2>2 DEF Queued
<1>3. Orderly(t, stored, j, last)
  BY <1>1 DEF Orderly
<1> QED BY <1>2, <1>3

\* A write of j keeps its order when everything before its event is stored or queued.
LEMMA AppendOwn ==
  ASSUME NEW s \in Seq(Writes), NEW w \in Writes, NEW stored, NEW j, w.job = j,
         NEW last \in Nat, NEW next \in Nat,
         Orderly(s, stored, j, last), Queued(s, stored, j, last), Open(s, j),
         \/ w.event = 0 /\ next = last
         \/ w.event = last + 1 /\ next = last + 1 /\ w.status \notin Outcomes
  PROVE  /\ Orderly(s \o <<w>>, stored, j, next)
         /\ Queued(s \o <<w>>, stored, j, next)
         /\ w.status \notin Outcomes => Open(s \o <<w>>, j)
<1> DEFINE t == s \o <<w>>
<1>1. /\ Len(s) \in Nat /\ Len(t) = Len(s) + 1 /\ t[Len(s) + 1] = w
      /\ \A i \in 1..Len(s) : t[i] = s[i]
  BY OneAppended
<1>g. Grown(s, t, {w})
  BY GrownByOne
<1>2. ASSUME NEW m \in {Len(t), Len(t) + 1}, NEW e \in 1..last
      PROVE  Safe(t, stored, j, e, m)
  <2>1. Safe(s, stored, j, e, Len(s) + 1)
    BY <1>2 DEF Queued
  <2> QED BY <1>1, <1>g, <2>1, SafeWhenGrown
<1>3. ASSUME NEW n \in 1..Len(t), t[n].job = j
      PROVE  /\ \A e \in 1..(t[n].event - 1) : Safe(t, stored, j, e, n)
             /\ t[n].status \in Outcomes => \A e \in 1..next : Safe(t, stored, j, e, n)
  <2>1. CASE n = Len(t)
    <3>1. t[n] = w
      BY <1>1, <2>1
    <3>2. w.event - 1 <= last /\ (w.status \in Outcomes => next = last)
      OBVIOUS
    <3>3. \A e \in 1..last : Safe(t, stored, j, e, n)
      BY <1>2, <2>1
    <3>4. w.event \in Nat
      BY DEF Writes
    <3> HIDE DEF t
    <3> QED BY <3>1, <3>2, <3>3, <3>4
  <2>2. CASE n # Len(t)
    <3>1. n \in 1..Len(s) /\ t[n] = s[n]
      BY <1>1, <1>3, <2>2
    <3>2. \A e : Safe(s, stored, j, e, n) => Safe(t, stored, j, e, n)
      BY <1>1, <1>g, <3>1, SafeWhenGrown
    <3> HIDE DEF t
    <3> QED BY <1>3, <3>1, <3>2 DEF Orderly, Open
  <2> QED BY <2>1, <2>2
<1>4. ASSUME NEW e \in 1..next PROVE Safe(t, stored, j, e, Len(t) + 1)
  <2>1. CASE e \in 1..last
    BY <1>2, <2>1
  <2>2. CASE e \notin 1..last
    <3>1. e = w.event
      BY <1>4, <2>2
    <3>2. Len(t) \in 1..((Len(t) + 1) - 1) /\ t[Len(t)] = w
      BY <1>1
    <3> HIDE DEF t
    <3> QED BY <3>1, <3>2, <1>1 DEF Safe
  <2> QED BY <2>1, <2>2
<1>5. w.status \notin Outcomes => Open(t, j)
  <2> HIDE DEF t
  <2> QED BY <1>1 DEF Open
<1> HIDE DEF t
<1>6. Orderly(t, stored, j, next)
  BY <1>3 DEF Orderly
<1>7. Queued(t, stored, j, next)
  BY <1>4 DEF Queued
<1> QED BY <1>5, <1>6, <1>7 DEF t

\* Without an outcome in s the order does not depend on the events emitted.
LEMMA OpenOrder ==
  ASSUME NEW s, NEW stored, NEW j, NEW last, NEW next, Orderly(s, stored, j, last), Open(s, j)
  PROVE  Orderly(s, stored, j, next)
BY DEF Orderly, Open

\* The first write leaves the chain once its event, if it has one, is stored.
LEMMA SafeAfterFirst ==
  ASSUME NEW s \in Seq(Writes), s # <<>>, NEW stored, NEW stored2, NEW j, NEW e,
         stored \subseteq stored2, s[1].job = j /\ s[1].event = e => e \in stored2,
         NEW n \in Nat \ {0}, Safe(s, stored, j, e, n + 1)
  PROVE  Safe(Tail(s), stored2, j, e, n)
<1>1. CASE e \in stored \/ (s[1].job = j /\ s[1].event = e)
  BY <1>1 DEF Safe
<1>2. CASE e \notin stored /\ ~(s[1].job = j /\ s[1].event = e)
  <2>1. PICK h \in 1..((n + 1) - 1) : h <= Len(s) /\ s[h].job = j /\ s[h].event = e
    BY <1>2 DEF Safe
  <2>2. h # 1
    BY <1>2, <2>1
  <2>3. h - 1 \in 1..(n - 1) /\ h - 1 <= Len(Tail(s)) /\ Tail(s)[h - 1] = s[h]
    <3>1. h - 1 \in 1..(Len(s) - 1) /\ (h - 1) + 1 = h
      BY <2>1, <2>2, FirstTaken
    <3> QED BY <3>1, <2>1, FirstTaken
  <2> QED BY <2>1, <2>3 DEF Safe
<1> QED BY <1>1, <1>2

LEMMA FirstDone ==
  ASSUME NEW s \in Seq(Writes), s # <<>>, NEW stored, NEW stored2, NEW j, NEW last \in Nat,
         stored \subseteq stored2,
         s[1].job = j /\ s[1].event # 0 => s[1].event \in stored2,
         Orderly(s, stored, j, last)
  PROVE  /\ Orderly(Tail(s), stored2, j, last)
         /\ Queued(s, stored, j, last) => Queued(Tail(s), stored2, j, last)
<1> DEFINE t == Tail(s)
<1>1. /\ Len(s) \in Nat \ {0} /\ Len(t) = Len(s) - 1
      /\ \A i \in 1..(Len(s) - 1) : t[i] = s[i + 1]
  BY FirstTaken
<1>2. \A n \in Nat \ {0}, e \in Nat \ {0} :
        Safe(s, stored, j, e, n + 1) => Safe(t, stored2, j, e, n)
  BY SafeAfterFirst
<1>3. t \in Seq(Writes)
  BY FirstTaken
<1> HIDE DEF t
<1>4. ASSUME NEW n \in 1..Len(t), t[n].job = j
      PROVE  /\ \A e \in 1..(t[n].event - 1) : Safe(t, stored2, j, e, n)
             /\ t[n].status \in Outcomes => \A e \in 1..last : Safe(t, stored2, j, e, n)
  <2>1. n + 1 \in 1..Len(s) /\ t[n] = s[n + 1] /\ n \in Nat \ {0}
    BY <1>1
  <2>2. t[n] \in Writes /\ t[n].event \in Nat
    <3>1. t[n] \in Writes
      BY <1>3
    <3> QED BY <3>1 DEF Writes
  <2>3. /\ \A e \in 1..(t[n].event - 1) : Safe(s, stored, j, e, n + 1)
        /\ t[n].status \in Outcomes => \A e \in 1..last : Safe(s, stored, j, e, n + 1)
    BY <1>4, <2>1 DEF Orderly
  <2>4. \A e \in 1..(t[n].event - 1) : e \in Nat \ {0}
    BY <2>2
  <2>5. \A e \in 1..last : e \in Nat \ {0}
    OBVIOUS
  <2> QED BY <1>2, <2>1, <2>3, <2>4, <2>5
<1>5. ASSUME Queued(s, stored, j, last) PROVE Queued(t, stored2, j, last)
  <2>1. ASSUME NEW e \in 1..last PROVE Safe(t, stored2, j, e, Len(t) + 1)
    <3>1. Safe(s, stored, j, e, (Len(t) + 1) + 1)
      BY <1>1, <1>5, <2>1 DEF Queued
    <3> QED BY <1>1, <1>2, <3>1
  <2> QED BY <2>1 DEF Queued
<1>6. Orderly(t, stored2, j, last)
  BY <1>4 DEF Orderly
<1> QED BY <1>5, <1>6 DEF t

LEMMA AppendOwnTwo ==
  ASSUME NEW s \in Seq(Writes), NEW a \in Writes, NEW b \in Writes, NEW stored, NEW j,
         a.job = j, b.job = j, a.status \notin Outcomes,
         NEW last \in Nat, NEW mid \in Nat, NEW next \in Nat,
         Orderly(s, stored, j, last), Queued(s, stored, j, last), Open(s, j),
         \/ a.event = 0 /\ mid = last
         \/ a.event = last + 1 /\ mid = last + 1,
         \/ b.event = 0 /\ next = mid
         \/ b.event = mid + 1 /\ next = mid + 1 /\ b.status \notin Outcomes
  PROVE  /\ Orderly(s \o <<a, b>>, stored, j, next)
         /\ Queued(s \o <<a, b>>, stored, j, next)
<1> DEFINE t == s \o <<a>>
<1>1. t \in Seq(Writes) /\ Orderly(t, stored, j, mid) /\ Queued(t, stored, j, mid) /\ Open(t, j)
  BY AppendOwn, OneAppended
<1> HIDE DEF t
<1>2. Orderly(t \o <<b>>, stored, j, next) /\ Queued(t \o <<b>>, stored, j, next)
  BY <1>1, AppendOwn
<1> QED BY <1>2, TwoAppended DEF t
-----------------------------------------------------------------------------
(* The steps that write: what they append to the chain. *)

\* The steps of a request and of a run that change the job object.
RunStep(j) ==
  Create(j) \/ StartStub(j) \/ StartLive(j) \/ BeginLive(j) \/ Emit(j) \/ Complete(j) \/ Fail(j)

\* The steps that leave the job object and the chain alone.
QuietStep(j) ==
  \/ PruneMemory(j) \/ PruneQuery(j) \/ PruneEvents(j) \/ PruneRow(j) \/ PruneFails(j)
  \/ FindHeld(j) \/ FindStored(j) \/ FindNothing(j) \/ Return(j)

\* What may stand in the chain for j as j is now.
Proper(j) ==
  {w \in Writes : /\ w.job = j /\ w.status # "none" /\ w.event <= seq[j]
                  /\ w.status \in Outcomes => w.event = 0 /\ at[j] = "flush_end"}

LEMMA StepCases ==
  ASSUME [Next]_vars
  PROVE  \/ \E j \in Jobs : RunStep(j) \/ QuietStep(j)
         \/ Save \/ SaveEvent \/ WriteFails \/ Crash
         \/ UNCHANGED vars
BY DEF Next, Request, Write, RunStep, QuietStep

LEMMA StateFields ==
  ASSUME NEW j \in Jobs, NEW s \in Statuses, NEW e \in Nat
  PROVE  /\ State(j, s, e) \in Writes
         /\ State(j, s, e).job = j /\ State(j, s, e).status = s /\ State(j, s, e).event = e
BY DEF State, Writes

LEMMA PersistedOne ==
  ASSUME TypeOK, NEW j \in Jobs, NEW w \in Writes, Persist(j, <<w>>)
  PROVE  Grown(chain, chain', {w})
<1>1. chain \in Seq(Writes)
  BY DEF TypeOK
<1>2. chain' = chain \/ chain' = chain \o <<w>>
  BY DEF Persist
<1> QED BY <1>1, <1>2, GrownByNone, GrownByOne

LEMMA PersistedTwo ==
  ASSUME TypeOK, NEW j \in Jobs, NEW a \in Writes, NEW b \in Writes, Persist(j, <<a, b>>)
  PROVE  Grown(chain, chain', {a, b})
<1>1. chain \in Seq(Writes)
  BY DEF TypeOK
<1>2. chain' = chain \/ chain' = chain \o <<a, b>>
  BY DEF Persist
<1> QED BY <1>1, <1>2, GrownByNone, GrownByTwo

LEMMA GrownBySome ==
  ASSUME NEW s, NEW t, NEW W, NEW V, Grown(s, t, W), W \subseteq V
  PROVE  Grown(s, t, V)
BY DEF Grown

LEMMA RunGrows ==
  ASSUME TypeOK, BornFirst, OutcomesComeLast, NEW j \in Jobs, RunStep(j)
  PROVE  Grown(chain, chain', Proper(j)')
<1>t. /\ seq \in [Jobs -> Nat] /\ at \in [Jobs -> Points] /\ status \in [Jobs -> Statuses]
      /\ {"queued", "running", "completed", "failed"} \subseteq Statuses
  BY DEF TypeOK, Statuses, Outcomes
<1>p. ASSUME NEW w \in Writes, w.job = j, w.status # "none", w.event <= seq'[j],
             w.status \in Outcomes => w.event = 0 /\ at'[j] = "flush_end"
      PROVE  w \in Proper(j)'
  BY <1>p DEF Proper
<1>1. CASE Create(j)
  <2> DEFINE w == State(j, "queued", 0)
  <2>1. w \in Writes /\ w.job = j /\ w.status = "queued" /\ w.event = 0
    BY <1>t, StateFields
  <2> HIDE DEF w
  <2>2. Persist(j, <<w>>) /\ seq' = seq
    BY <1>1 DEF Create, w
  <2>3. w \in Proper(j)'
    BY <1>t, <1>p, <2>1, <2>2 DEF Outcomes
  <2> QED BY <2>1, <2>2, <2>3, PersistedOne, GrownBySome
<1>2. CASE StartStub(j)
  <2> DEFINE w == State(j, "running", 0)
  <2>1. w \in Writes /\ w.job = j /\ w.status = "running" /\ w.event = 0
    BY <1>t, StateFields
  <2> HIDE DEF w
  <2>2. Persist(j, <<w>>) /\ seq' = seq
    BY <1>2 DEF StartStub, w
  <2>3. w \in Proper(j)'
    BY <1>t, <1>p, <2>1, <2>2 DEF Outcomes
  <2> QED BY <2>1, <2>2, <2>3, PersistedOne, GrownBySome
<1>3. CASE StartLive(j)
  <2> DEFINE w == State(j, "queued", seq[j] + 1)
  <2>1. w \in Writes /\ w.job = j /\ w.status = "queued" /\ w.event = seq[j] + 1
    BY <1>t, StateFields
  <2> HIDE DEF w
  <2>2. Persist(j, <<w>>) /\ seq'[j] = seq[j] + 1
    BY <1>t, <1>3 DEF StartLive, w
  <2>3. w \in Proper(j)'
    BY <1>t, <1>p, <2>1, <2>2 DEF Outcomes
  <2> QED BY <2>1, <2>2, <2>3, PersistedOne, GrownBySome
<1>4. CASE BeginLive(j)
  <2> DEFINE a == State(j, "running", 0)
             b == State(j, "running", seq[j] + 1)
  <2>1. /\ a \in Writes /\ a.job = j /\ a.status = "running" /\ a.event = 0
        /\ b \in Writes /\ b.job = j /\ b.status = "running" /\ b.event = seq[j] + 1
    BY <1>t, StateFields
  <2> HIDE DEF a, b
  <2>2. Persist(j, <<a, b>>) /\ seq'[j] = seq[j] + 1
    BY <1>t, <1>4 DEF BeginLive, a, b
  <2>3. {a, b} \subseteq Proper(j)'
    BY <1>t, <1>p, <2>1, <2>2 DEF Outcomes
  <2>4. Grown(chain, chain', {a, b})
    BY <2>1, <2>2, PersistedTwo
  <2> QED BY <2>3, <2>4, GrownBySome
<1>5. CASE Emit(j)
  <2> DEFINE w == State(j, "running", seq[j] + 1)
  <2>1. w \in Writes /\ w.job = j /\ w.status = "running" /\ w.event = seq[j] + 1
    BY <1>t, StateFields
  <2> HIDE DEF w
  <2>2. Persist(j, <<w>>) /\ seq'[j] = seq[j] + 1
    BY <1>t, <1>5 DEF Emit, w
  <2>3. w \in Proper(j)'
    BY <1>t, <1>p, <2>1, <2>2 DEF Outcomes
  <2> QED BY <2>1, <2>2, <2>3, PersistedOne, GrownBySome
<1>6. CASE Complete(j)
  <2> DEFINE a == State(j, "running", 0)
             b == State(j, "completed", 0)
  <2>1. /\ a \in Writes /\ a.job = j /\ a.status = "running" /\ a.event = 0
        /\ b \in Writes /\ b.job = j /\ b.status = "completed" /\ b.event = 0
    BY <1>t, StateFields
  <2> HIDE DEF a, b
  <2>2. Persist(j, <<a, b>>) /\ seq' = seq /\ at'[j] = "flush_end"
    BY <1>t, <1>6 DEF Complete, Flush, a, b
  <2>3. {a, b} \subseteq Proper(j)'
    BY <1>t, <1>p, <2>1, <2>2 DEF Outcomes
  <2>4. Grown(chain, chain', {a, b})
    BY <2>1, <2>2, PersistedTwo
  <2> QED BY <2>3, <2>4, GrownBySome
<1>7. CASE Fail(j)
  <2> DEFINE a == State(j, status[j], seq[j] + 1)
             b == State(j, "failed", 0)
  <2>1. /\ a \in Writes /\ a.job = j /\ a.status = status[j] /\ a.event = seq[j] + 1
        /\ b \in Writes /\ b.job = j /\ b.status = "failed" /\ b.event = 0
    BY <1>t, StateFields
  <2> HIDE DEF a, b
  <2>2. Persist(j, <<a, b>>) /\ seq'[j] = seq[j] + 1 /\ at'[j] = "flush_end"
        /\ at[j] \in {"waiting", "executing"}
    BY <1>t, <1>7 DEF Fail, Flush, a, b
  <2>3. status[j] # "none" /\ status[j] \notin Outcomes
    BY <2>2 DEF BornFirst, OutcomesComeLast, Ended
  <2>4. {a, b} \subseteq Proper(j)'
    BY <1>t, <1>p, <2>1, <2>2, <2>3
  <2>5. Grown(chain, chain', {a, b})
    BY <2>1, <2>2, PersistedTwo
  <2> QED BY <2>4, <2>5, GrownBySome
<1> QED BY <1>1, <1>2, <1>3, <1>4, <1>5, <1>6, <1>7 DEF RunStep
-----------------------------------------------------------------------------
(* Types, ages and prunes. *)

LEMMA FirstWrite ==
  ASSUME TypeOK, chain # <<>>
  PROVE  /\ Head(chain) = chain[1] /\ chain[1] \in Writes /\ 1 \in 1..Len(chain)
         /\ chain[1].job \in Jobs /\ chain[1].status \in Statuses /\ chain[1].event \in Nat
         /\ Tail(chain) \in Seq(Writes) /\ Len(chain) \in Nat \ {0}
         /\ Len(Tail(chain)) = Len(chain) - 1
         /\ \A i \in 1..(Len(chain) - 1) : Tail(chain)[i] = chain[i + 1]
<1>1. chain \in Seq(Writes)
  BY DEF TypeOK
<1>2. /\ Head(chain) = chain[1] /\ chain[1] \in Writes /\ Len(chain) \in Nat \ {0}
      /\ Tail(chain) \in Seq(Writes) /\ Len(Tail(chain)) = Len(chain) - 1
      /\ \A i \in 1..(Len(chain) - 1) : Tail(chain)[i] = chain[i + 1]
  BY <1>1, FirstTaken
<1>3. chain[1].job \in Jobs /\ chain[1].status \in Statuses /\ chain[1].event \in Nat
  BY <1>2 DEF Writes
<1> QED BY <1>2, <1>3

LEMMA RunQueue ==
  ASSUME IInv, NEW j \in Jobs, RunStep(j)
  PROVE  chain' \in Seq(Writes) /\ Len(chain') \in Nat
BY RunGrows DEF IInv, Grown

LEMMA TypesStep ==
  ASSUME IInv, [Next]_vars
  PROVE  TypeOK'
<1>t. TypeOK
  BY DEF IInv
<1>n. /\ "none" \in Statuses /\ "queued" \in Statuses /\ "running" \in Statuses
      /\ "completed" \in Statuses /\ "failed" \in Statuses
  BY DEF Statuses, Outcomes
<1>p. {"idle", "flush_create", "prune_query", "prune_events", "prune_row", "flush_start", "found",
       "waiting", "executing", "flush_end", "returned", "lost", "dead"} \subseteq Points
  BY DEF Points
<1> USE <1>t, <1>n, <1>p
<1>1. ASSUME NEW j \in Jobs, RunStep(j) PROVE TypeOK'
  <2>1. chain' \in Seq(Writes) /\ Len(chain') \in Nat
    BY <1>1, RunQueue
  <2>2. CASE Create(j)
    <3>1. Born \in SUBSET Jobs /\ Cardinality(Born) \in Nat
      BY JobsFinite, FS_Subset, FS_CardinalityType DEF Born
    <3> QED BY <2>1, <2>2, <3>1 DEF TypeOK, Create, Flush, dbVars, countVars, Born
  <2>3. CASE StartStub(j)
    BY <2>1, <2>3 DEF TypeOK, StartStub, dbVars, countVars
  <2>4. CASE StartLive(j)
    BY <2>1, <2>4 DEF TypeOK, StartLive, dbVars, countVars
  <2>5. CASE BeginLive(j)
    BY <2>1, <2>5 DEF TypeOK, BeginLive, dbVars, countVars
  <2>6. CASE Emit(j)
    BY <2>1, <2>6 DEF TypeOK, Emit, dbVars, countVars
  <2>7. CASE Complete(j)
    BY <2>1, <2>7 DEF TypeOK, Complete, Flush, dbVars, countVars
  <2>8. CASE Fail(j)
    BY <2>1, <2>8 DEF TypeOK, Fail, Flush, dbVars, countVars
  <2> QED BY <1>1, <2>2, <2>3, <2>4, <2>5, <2>6, <2>7, <2>8 DEF RunStep
<1>2. ASSUME NEW j \in Jobs, QuietStep(j) PROVE TypeOK'
  <2> USE DEF TypeOK, jobVars, chainVars, dbVars, countVars
  <2>1. Len(chain) \in Nat
    OBVIOUS
  <2>2. CASE PruneMemory(j)
    BY <2>1, <2>2 DEF PruneMemory, Newest
  <2>3. CASE PruneQuery(j)
    BY <2>1, <2>3 DEF PruneQuery, Newest, Flush
  <2>4. CASE PruneEvents(j)
    BY <2>1, <2>4 DEF PruneEvents
  <2>5. CASE PruneRow(j)
    <3>1. row' \in [Jobs -> Statuses] /\ todo' \in [Jobs -> SUBSET Jobs]
      BY <2>5 DEF PruneRow
    <3>2. ahead' \in [Jobs -> Nat]
      BY <2>1, <2>5 DEF PruneRow, Flush
    <3>3. at' \in [Jobs -> Points]
      <4>1. \/ at' = [at EXCEPT ![j] = "flush_start"]
            \/ at' = [at EXCEPT ![j] = "prune_events"]
        BY <2>5 DEF PruneRow, Flush
      <4> QED BY <4>1
    <3>4. degraded' \in BOOLEAN
      BY <2>5 DEF PruneRow
    <3> QED BY <2>5, <3>1, <3>2, <3>3, <3>4 DEF PruneRow
  <2>6. CASE PruneFails(j)
    BY <2>1, <2>6 DEF PruneFails, Flush
  <2>7. CASE FindHeld(j)
    BY <2>1, <2>7 DEF FindHeld
  <2>8. CASE FindStored(j)
    <3>1. deaf' \in [Jobs -> BOOLEAN] /\ at' \in [Jobs -> Points]
      BY <2>8 DEF FindStored
    <3>2. degraded' \in BOOLEAN
      BY <2>8 DEF FindStored
    <3>3. failures' \in Nat
      BY <2>8 DEF FindStored
    <3> QED BY <2>8, <3>1, <3>2, <3>3 DEF FindStored
  <2>9. CASE FindNothing(j)
    <3>1. degraded' \in BOOLEAN
      BY <2>9 DEF FindNothing
    <3>2. failures' \in Nat
      BY <2>9 DEF FindNothing
    <3>3. at' \in [Jobs -> Points]
      BY <2>9 DEF FindNothing
    <3> QED BY <2>9, <3>1, <3>2, <3>3 DEF FindNothing
  <2>10. CASE Return(j)
    BY <2>1, <2>10 DEF Return
  <2> HIDE DEF TypeOK, jobVars, chainVars, dbVars, countVars
  <2> QED BY <1>2, <2>2, <2>3, <2>4, <2>5, <2>6, <2>7, <2>8, <2>9, <2>10 DEF QuietStep
<1>3. ASSUME Save PROVE TypeOK'
  <2>1. chain # <<>>
    BY <1>3 DEF Save
  <2>2. chain' \in Seq(Writes) /\ ahead' \in [Jobs -> Nat]
    <3>1. CASE Head(chain).event = 0
      <4>1. WriteDone
        BY <1>3, <3>1 DEF Save
      <4> QED BY <2>1, <4>1, FirstWrite DEF TypeOK, WriteDone
    <3>2. CASE Head(chain).event # 0
      <4>1. chain' = chain /\ ahead' = ahead
        BY <1>3, <3>2 DEF Save
      <4> QED BY <4>1 DEF TypeOK
    <3> QED BY <3>1, <3>2
  <2>3. row' \in [Jobs -> Statuses]
    BY <1>3, <2>1, FirstWrite DEF TypeOK, Save
  <2>4. saved' \in BOOLEAN /\ degraded' \in BOOLEAN
    BY <1>3 DEF TypeOK, Save, WriteDone
  <2> QED BY <1>3, <2>2, <2>3, <2>4 DEF TypeOK, Save, jobVars, countVars
<1>4. ASSUME SaveEvent PROVE TypeOK'
  <2>1. chain # <<>>
    BY <1>4 DEF SaveEvent
  <2>2. chain' \in Seq(Writes) /\ ahead' \in [Jobs -> Nat]
    BY <1>4, <2>1, FirstWrite DEF TypeOK, SaveEvent, WriteDone
  <2>3. events' \in [Jobs -> SUBSET Nat]
    BY <1>4, <2>1, FirstWrite DEF TypeOK, SaveEvent
  <2>4. saved' \in BOOLEAN /\ degraded' \in BOOLEAN
    BY <1>4 DEF SaveEvent, WriteDone
  <2> QED BY <1>4, <2>2, <2>3, <2>4 DEF TypeOK, SaveEvent, jobVars, countVars
<1>5. ASSUME WriteFails PROVE TypeOK'
  <2>1. chain # <<>>
    BY <1>5 DEF WriteFails
  <2>2. chain' \in Seq(Writes) /\ ahead' \in [Jobs -> Nat]
    BY <1>5, <2>1, FirstWrite DEF TypeOK, WriteFails, WriteDone
  <2>3. saved' \in BOOLEAN /\ degraded' \in BOOLEAN
    BY <1>5 DEF WriteFails, WriteDone
  <2>4. failures' \in Nat
    BY <1>5 DEF TypeOK, WriteFails
  <2> QED BY <1>5, <2>2, <2>3, <2>4 DEF TypeOK, WriteFails, jobVars, dbVars
<1>6. ASSUME Crash PROVE TypeOK'
  <2>1. chain' \in Seq(Writes)
    BY <1>6 DEF Crash
  <2>2. at' \in [Jobs -> Points]
    <3>1. \A j \in Jobs : at'[j] \in Points
      BY <1>6 DEF TypeOK, Crash
    <3> QED BY <1>6, <3>1 DEF Crash
  <2>3. ahead' \in [Jobs -> Nat] /\ todo' \in [Jobs -> SUBSET Jobs] /\ crashes' \in Nat
    BY <1>6 DEF TypeOK, Crash
  <2>4. saved' \in BOOLEAN /\ degraded' \in BOOLEAN /\ held' \in SUBSET Jobs
    BY <1>6 DEF Crash
  <2> QED BY <1>6, <2>1, <2>2, <2>3, <2>4 DEF TypeOK, Crash, dbVars
<1>7. ASSUME UNCHANGED vars PROVE TypeOK'
  BY <1>7 DEF TypeOK, vars
<1> QED BY <1>1, <1>2, <1>3, <1>4, <1>5, <1>6, <1>7, StepCases

\* Only Create gives an age.
LEMMA AgesKept ==
  ASSUME NEW j \in Jobs, Create(j) \/ (RunStep(j) \/ QuietStep(j)) \/ Save \/ SaveEvent
                            \/ WriteFails \/ Crash \/ UNCHANGED vars
  PROVE  Create(j) \/ born' = born
BY DEF RunStep, QuietStep, StartStub, StartLive, BeginLive, Emit, Complete, Fail, PruneMemory,
  PruneQuery, PruneEvents, PruneRow, PruneFails, FindHeld, FindStored, FindNothing, Return,
  Save, SaveEvent, WriteFails, Crash, jobVars, vars

LEMMA BornFirstStep ==
  ASSUME IInv, [Next]_vars
  PROVE  BornFirst'
<1>t. TypeOK /\ BornFirst /\ OutcomesComeLast
  BY DEF IInv
<1>b. born' = born => Born' = Born
  BY DEF Born
<1>1. ASSUME NEW j \in Jobs, Create(j) PROVE BornFirst'
  <2>1. /\ born \in [Jobs -> Nat] /\ at \in [Jobs -> Points] /\ status \in [Jobs -> Statuses]
        /\ at[j] = "idle" /\ born[j] = 0
    BY <1>1, <1>t DEF TypeOK, Create, BornFirst
  <2>2. IsFiniteSet(Born) /\ Cardinality(Born) \in Nat /\ j \notin Born
    BY <2>1, JobsFinite, FS_Subset, FS_CardinalityType DEF Born
  <2>3. born' = [born EXCEPT ![j] = Cardinality(Born) + 1]
    BY <1>1 DEF Create, Born
  <2>4. Born' = Born \cup {j}
    BY <2>1, <2>2, <2>3 DEF Born
  <2>5. Cardinality(Born') = Cardinality(Born) + 1
    BY <2>2, <2>4, FS_AddElement
  <2>6. /\ at' = [at EXCEPT ![j] = "flush_create"] /\ seq' = seq /\ todo' = todo /\ row' = row
        /\ status' = [status EXCEPT ![j] = "queued"]
    BY <1>1 DEF Create, Flush, dbVars
  <2>7. \A i \in Jobs : born'[i] <= Cardinality(Born')
    BY <1>t, <2>1, <2>2, <2>3, <2>5 DEF BornFirst
  <2>8. \A i, k \in Born' : born'[i] = born'[k] => i = k
    <3>1. \A i \in Born : i \in Jobs /\ born'[i] = born[i] /\ born[i] < Cardinality(Born) + 1
      BY <1>t, <2>1, <2>2, <2>3 DEF BornFirst, Born
    <3>2. born'[j] = Cardinality(Born) + 1
      BY <2>1, <2>3
    <3> QED BY <1>t, <2>1, <2>2, <2>4, <3>1, <3>2 DEF BornFirst
  <2>9. \A i \in Jobs : at'[i] = "idle" <=> born'[i] = 0
    BY <1>t, <2>1, <2>2, <2>3, <2>6 DEF BornFirst
  <2>10. \A i \in Jobs : born[i] > 0 => born'[i] > 0
    BY <2>1, <2>2, <2>3
  <2>11. \A i \in Jobs : todo[i] \subseteq Jobs
    BY <1>t DEF TypeOK
  <2>12. /\ \A i \in Jobs : at'[i] = "idle" => seq'[i] = 0
         /\ \A i \in Jobs : at'[i] # "idle" => status'[i] # "none"
    BY <1>t, <2>1, <2>6 DEF BornFirst
  <2>13. /\ \A i \in Jobs : row'[i] # "none" => born'[i] > 0
         /\ \A i \in Jobs : \A k \in todo'[i] : born'[k] > 0
    BY <1>t, <2>6, <2>10, <2>11 DEF BornFirst
  <2> QED BY <2>7, <2>8, <2>9, <2>12, <2>13 DEF BornFirst
<1>2. ASSUME NEW j \in Jobs, RunStep(j), ~Create(j) PROVE BornFirst'
  <2>1. born' = born /\ Born' = Born
    BY <1>b, <1>2, AgesKept
  <2>2. /\ row' = row /\ todo' = todo
        /\ at[j] # "idle" /\ at'[j] # "idle" /\ status'[j] # "none"
        /\ \A i \in Jobs \ {j} : at'[i] = at[i] /\ seq'[i] = seq[i] /\ status'[i] = status[i]
    <3> USE <1>t DEF TypeOK, BornFirst, dbVars
    <3>1. CASE StartStub(j)
      BY <3>1 DEF StartStub
    <3>2. CASE StartLive(j)
      BY <3>2 DEF StartLive
    <3>3. CASE BeginLive(j)
      BY <3>3 DEF BeginLive
    <3>4. CASE Emit(j)
      BY <3>4 DEF Emit
    <3>5. CASE Complete(j)
      BY <3>5 DEF Complete, Flush
    <3>6. CASE Fail(j)
      BY <3>6 DEF Fail, Flush
    <3> HIDE DEF TypeOK, BornFirst, dbVars
    <3> QED BY <1>2, <3>1, <3>2, <3>3, <3>4, <3>5, <3>6 DEF RunStep
  <2> QED BY <1>t, <2>1, <2>2 DEF BornFirst
<1>3. ASSUME NEW j \in Jobs, QuietStep(j) PROVE BornFirst'
  <2>1. born' = born /\ Born' = Born
    <3>1. ~Create(j)
      BY <1>3, <1>t DEF QuietStep, Create, PruneMemory, PruneQuery, PruneEvents, PruneRow,
        PruneFails, FindHeld, FindStored, FindNothing, Return, Flushed
    <3> QED BY <1>b, <1>3, <3>1, AgesKept
  <2>2. /\ seq' = seq /\ status' = status
        /\ at[j] # "idle" /\ at'[j] # "idle" /\ \A i \in Jobs \ {j} : at'[i] = at[i]
        /\ \A i \in Jobs : row'[i] # "none" => row[i] # "none"
        /\ \A i \in Jobs : \A k \in todo'[i] : k \in todo[i] \/ (k \in Jobs /\ row[k] # "none")
    <3> USE <1>t DEF TypeOK, jobVars, dbVars
    <3>1. CASE PruneMemory(j)
      BY <3>1 DEF PruneMemory, Flushed
    <3>2. CASE PruneQuery(j)
      BY <3>2 DEF PruneQuery, Flush
    <3>3. CASE PruneEvents(j)
      BY <3>3 DEF PruneEvents
    <3>4. CASE PruneRow(j)
      BY <3>4 DEF PruneRow, Flush
    <3>5. CASE PruneFails(j)
      BY <3>5 DEF PruneFails, Flush
    <3>6. CASE FindHeld(j)
      BY <3>6 DEF FindHeld, Flushed
    <3>7. CASE FindStored(j)
      BY <3>7 DEF FindStored, Flushed
    <3>8. CASE FindNothing(j)
      BY <3>8 DEF FindNothing, Flushed
    <3>9. CASE Return(j)
      BY <3>9 DEF Return, Flushed
    <3> HIDE DEF TypeOK, jobVars, dbVars
    <3> QED BY <1>3, <3>1, <3>2, <3>3, <3>4, <3>5, <3>6, <3>7, <3>8, <3>9 DEF QuietStep
  <2> QED BY <1>t, <2>1, <2>2 DEF BornFirst
<1>4. ASSUME Save \/ SaveEvent \/ WriteFails PROVE BornFirst'
  <2>1. chain # <<>> /\ born' = born /\ Born' = Born
    BY <1>b, <1>4 DEF Save, SaveEvent, WriteFails, jobVars
  <2>2. born[chain[1].job] > 0 /\ Head(chain) = chain[1]
    <3>1. at[chain[1].job] # "idle" /\ chain[1].job \in Jobs /\ Head(chain) = chain[1]
      BY <1>t, <2>1, FirstWrite DEF OutcomesComeLast
    <3>2. born[chain[1].job] # 0 /\ born[chain[1].job] \in Nat
      BY <1>t, <3>1 DEF TypeOK, BornFirst
    <3> QED BY <3>1, <3>2
  <2>3. /\ at' = at /\ seq' = seq /\ status' = status /\ todo' = todo
        /\ \A i \in Jobs : row'[i] # "none" => row[i] # "none" \/ born[i] > 0
    BY <1>4, <1>t, <2>2 DEF TypeOK, Save, SaveEvent, WriteFails, jobVars, dbVars
  <2> QED BY <1>t, <2>1, <2>3 DEF BornFirst
<1>5. ASSUME Crash PROVE BornFirst'
  <2>1. born' = born /\ Born' = Born /\ row' = row /\ seq' = seq /\ status' = status
    BY <1>b, <1>5 DEF Crash, dbVars
  <2>2. \A i \in Jobs : (at'[i] = "idle" <=> at[i] = "idle") /\ todo'[i] = {}
    BY <1>5 DEF Crash
  <2> QED BY <1>t, <2>1, <2>2 DEF BornFirst
<1>6. ASSUME UNCHANGED vars PROVE BornFirst'
  BY <1>b, <1>t, <1>6 DEF BornFirst, vars
<1> QED BY <1>1, <1>2, <1>3, <1>4, <1>5, <1>6, StepCases

\* What a step that writes leaves alone.
LEMMA RunFrame ==
  ASSUME TypeOK, NEW j \in Jobs, RunStep(j)
  PROVE  /\ events' = events /\ row' = row /\ todo' = todo /\ saved' = saved
         /\ failures' = failures /\ dropped' = dropped /\ deaf' = deaf
         /\ \A i \in Jobs \ {j} : /\ at'[i] = at[i] /\ seq'[i] = seq[i]
                                  /\ status'[i] = status[i] /\ ahead'[i] = ahead[i]
         /\ seq[j] <= seq'[j] /\ at[j] \in {"idle", "found", "waiting", "executing"}
         /\ at'[j] \in {"flush_create", "waiting", "executing", "flush_end"}
         /\ status'[j] \in Outcomes => at'[j] = "flush_end" \/ status'[j] = status[j]
<1>t. /\ seq \in [Jobs -> Nat] /\ at \in [Jobs -> Points] /\ status \in [Jobs -> Statuses]
      /\ ahead \in [Jobs -> Nat]
  BY DEF TypeOK
<1>1. CASE Create(j)
  BY <1>t, <1>1 DEF Create, Flush, dbVars, countVars, Outcomes
<1>2. CASE StartStub(j)
  BY <1>t, <1>2 DEF StartStub, dbVars, countVars, Outcomes
<1>3. CASE StartLive(j)
  BY <1>t, <1>3 DEF StartLive, dbVars, countVars, Outcomes
<1>4. CASE BeginLive(j)
  BY <1>t, <1>4 DEF BeginLive, dbVars, countVars, Outcomes
<1>5. CASE Emit(j)
  BY <1>t, <1>5 DEF Emit, dbVars, countVars, Outcomes
<1>6. CASE Complete(j)
  BY <1>t, <1>6 DEF Complete, Flush, dbVars, countVars, Outcomes
<1>7. CASE Fail(j)
  BY <1>t, <1>7 DEF Fail, Flush, dbVars, countVars, Outcomes
<1> QED BY <1>1, <1>2, <1>3, <1>4, <1>5, <1>6, <1>7 DEF RunStep

LEMMA QuietFrame ==
  ASSUME TypeOK, RowAfterEvents, NEW j \in Jobs, QuietStep(j)
  PROVE  /\ chain' = chain /\ saved' = saved /\ seq' = seq /\ status' = status /\ born' = born
         /\ \A i \in Jobs \ {j} : at'[i] = at[i] /\ ahead'[i] = ahead[i]
         /\ \A i \in Jobs : deaf[i] => deaf'[i]
         /\ failures <= failures' /\ dropped \subseteq dropped'
         /\ \A i \in Jobs : events'[i] = events[i] \/ (i \in dropped' /\ events'[i] = {})
         /\ \A i \in Jobs : row'[i] = row[i] \/ (i \in dropped' /\ row'[i] = "none")
         /\ \/ at[j] \in Before /\ at'[j] \in Before \cup {"lost"}
            \/ Return(j)
<1>t. /\ at \in [Jobs -> Points] /\ ahead \in [Jobs -> Nat] /\ deaf \in [Jobs -> BOOLEAN]
      /\ events \in [Jobs -> SUBSET Nat] /\ row \in [Jobs -> Statuses] /\ failures \in Nat
      /\ todo \in [Jobs -> SUBSET Jobs]
  BY DEF TypeOK
<1>1. CASE PruneMemory(j)
  BY <1>t, <1>1 DEF PruneMemory, Flushed, jobVars, chainVars, dbVars, countVars, Before
<1>2. CASE PruneQuery(j)
  BY <1>t, <1>2 DEF PruneQuery, Flush, jobVars, chainVars, dbVars, countVars, Before
<1>3. CASE PruneEvents(j)
  BY <1>t, <1>3 DEF PruneEvents, jobVars, chainVars, dbVars, countVars, Before
<1>4. CASE PruneRow(j)
  BY <1>t, <1>4 DEF PruneRow, Flush, RowAfterEvents, jobVars, chainVars, dbVars, countVars, Before
<1>5. CASE PruneFails(j)
  BY <1>t, <1>5 DEF PruneFails, Flush, jobVars, chainVars, dbVars, countVars, Before
<1>6. CASE FindHeld(j)
  BY <1>t, <1>6 DEF FindHeld, Flushed, jobVars, chainVars, dbVars, countVars, Before
<1>7. CASE FindStored(j)
  BY <1>t, <1>7 DEF FindStored, Flushed, jobVars, chainVars, dbVars, countVars, Before
<1>8. CASE FindNothing(j)
  BY <1>t, <1>8 DEF FindNothing, Flushed, jobVars, chainVars, dbVars, countVars, Before
<1>9. CASE Return(j)
  BY <1>t, <1>9 DEF Return, Flushed, jobVars, chainVars, dbVars, countVars, Before
<1> QED BY <1>1, <1>2, <1>3, <1>4, <1>5, <1>6, <1>7, <1>8, <1>9 DEF QuietStep

LEMMA RowAfterEventsStep ==
  ASSUME IInv, [Next]_vars
  PROVE  RowAfterEvents'
<1>t. TypeOK /\ BornFirst /\ RowAfterEvents
  BY DEF IInv
<1>s. \A i \in Jobs : todo[i] \subseteq Jobs
  BY <1>t DEF TypeOK
\* Nobody who is at a row now was elsewhere before, and the ages of his list are as before.
<1>k. ASSUME dropped \subseteq dropped', todo' = todo,
             \A i \in Jobs : at'[i] = "prune_row" => at[i] = "prune_row",
             \A i \in Jobs : born[i] > 0 => born'[i] = born[i]
      PROVE  RowAfterEvents'
  <2>1. ASSUME NEW i \in Jobs, NEW k \in Jobs, NextDoomed(i, k)' PROVE NextDoomed(i, k)
    <3>1. \A m \in todo[i] : born'[m] = born[m]
      BY <1>k, <1>s, <1>t DEF BornFirst
    <3>2. todo'[i] = todo[i]
      BY <1>k
    <3> QED BY <2>1, <3>1, <3>2 DEF NextDoomed
  <2> QED BY <1>k, <1>t, <2>1 DEF RowAfterEvents
<1>1. ASSUME NEW j \in Jobs, RunStep(j) PROVE RowAfterEvents'
  <2>1. \A i \in Jobs : born[i] > 0 => born'[i] = born[i]
    <3>1. CASE Create(j)
      <4>1. born[j] = 0 /\ born \in [Jobs -> Nat]
        BY <1>t, <3>1 DEF Create, BornFirst, TypeOK
      <4> QED BY <3>1, <4>1 DEF Create
    <3>2. CASE ~Create(j)
      BY <1>1, <3>2, AgesKept
    <3> QED BY <3>1, <3>2
  <2>2. /\ dropped' = dropped /\ todo' = todo
        /\ \A i \in Jobs : at'[i] = "prune_row" => at[i] = "prune_row"
    BY <1>1, <1>t, RunFrame
  <2> QED BY <1>k, <2>1, <2>2
<1>2. ASSUME NEW j \in Jobs, QuietStep(j) PROVE RowAfterEvents'
  <2>1. /\ born' = born /\ dropped \subseteq dropped'
        /\ \A i \in Jobs \ {j} : at'[i] = at[i]
    BY <1>2, <1>t, QuietFrame
  <2>2. CASE PruneEvents(j)
    <3>1. PICK k \in Jobs : NextDoomed(j, k) /\ dropped' = dropped \cup {k}
      BY <2>2 DEF PruneEvents
    <3>2. todo' = todo
      BY <2>2 DEF PruneEvents
    <3>3. ASSUME NEW m \in Jobs, NextDoomed(j, m)' PROVE m \in dropped'
      <4>1. m \in todo[j] /\ k \in todo[j] /\ \A i \in todo[j] : born[i] <= born[m] /\ born[i] <= born[k]
        BY <2>1, <3>1, <3>2, <3>3 DEF NextDoomed
      <4>2. born[m] \in Nat /\ born[k] \in Nat /\ born[m] > 0 /\ born[k] > 0
        BY <1>t, <3>1, <4>1 DEF BornFirst, TypeOK
      <4>3. born[m] = born[k]
        BY <4>1, <4>2
      <4>4. m = k
        BY <1>t, <4>2, <4>3 DEF BornFirst, Born
      <4> QED BY <3>1, <4>4
    <3>4. ASSUME NEW i \in Jobs \ {j}, NEW m \in Jobs, at'[i] = "prune_row", NextDoomed(i, m)'
          PROVE  m \in dropped'
      <4>1. at[i] = "prune_row" /\ NextDoomed(i, m)
        BY <2>1, <3>2, <3>4 DEF NextDoomed
      <4> QED BY <1>t, <2>1, <4>1 DEF RowAfterEvents
    <3> QED BY <3>3, <3>4 DEF RowAfterEvents
  <2>3. CASE ~PruneEvents(j)
    <3>1. at'[j] # "prune_row" /\ \A i \in Jobs \ {j} : todo'[i] = todo[i]
      BY <1>2, <1>t, <2>3 DEF QuietStep, PruneMemory, PruneQuery, PruneRow, PruneFails, FindHeld,
        FindStored, FindNothing, Return, Flush, TypeOK
    <3>2. ASSUME NEW i \in Jobs, NEW m \in Jobs, at'[i] = "prune_row", NextDoomed(i, m)'
          PROVE  m \in dropped'
      <4>1. i # j
        BY <3>1, <3>2
      <4>2. at[i] = "prune_row" /\ NextDoomed(i, m)
        BY <2>1, <3>1, <3>2, <4>1 DEF NextDoomed
      <4> QED BY <1>t, <2>1, <4>2 DEF RowAfterEvents
    <3> QED BY <3>2 DEF RowAfterEvents
  <2> QED BY <2>2, <2>3
<1>3. ASSUME Save \/ SaveEvent \/ WriteFails PROVE RowAfterEvents'
  <2>1. dropped' = dropped /\ todo' = todo /\ at' = at /\ born' = born
    BY <1>3 DEF Save, SaveEvent, WriteFails, jobVars, dbVars
  <2> QED BY <1>k, <2>1
<1>4. ASSUME Crash PROVE RowAfterEvents'
  <2>1. \A i \in Jobs : at'[i] # "prune_row"
    BY <1>4 DEF Crash
  <2> QED BY <2>1 DEF RowAfterEvents
<1>5. ASSUME UNCHANGED vars PROVE RowAfterEvents'
  BY <1>k, <1>5 DEF vars
<1> QED BY <1>1, <1>2, <1>3, <1>4, <1>5, StepCases
-----------------------------------------------------------------------------
(* Events and outcomes. *)

LEMMA EventsExistStep ==
  ASSUME IInv, [Next]_vars
  PROVE  EventsExist'
<1>t. TypeOK /\ BornFirst /\ RowAfterEvents /\ EventsExist /\ OutcomesComeLast
  BY DEF IInv
<1>s. /\ seq \in [Jobs -> Nat] /\ Len(chain) \in Nat
      /\ \A i \in 1..Len(chain) : chain[i].job \in Jobs /\ chain[i].event \in Nat
  <2>1. chain \in Seq(Writes) /\ \A i \in 1..Len(chain) : chain[i] \in Writes
    BY <1>t DEF TypeOK
  <2>2. \A w \in Writes : w.job \in Jobs /\ w.event \in Nat
    BY DEF Writes
  <2> QED BY <1>t, <2>1, <2>2 DEF TypeOK
<1>u. TypeOK'
  BY TypesStep
<1>1. ASSUME NEW j \in Jobs, RunStep(j) PROVE EventsExist'
  <2>1. Grown(chain, chain', Proper(j)')
    BY <1>1, <1>t, RunGrows
  <2>2. /\ events' = events /\ saved' = saved
        /\ \A i \in Jobs : seq[i] <= seq'[i] /\ seq'[i] \in Nat
    <3>1. \A i \in Jobs \ {j} : seq'[i] = seq[i]
      BY <1>1, <1>t, RunFrame
    <3>2. events' = events /\ saved' = saved /\ seq[j] <= seq'[j]
      BY <1>1, <1>t, RunFrame
    <3>3. \A i \in Jobs : seq[i] \in Nat /\ seq'[i] \in Nat
      BY <1>s, <1>u DEF TypeOK
    <3> QED BY <3>1, <3>2, <3>3
  <2>3. \A i \in Jobs : events'[i] \subseteq 1..seq'[i]
    BY <1>s, <1>t, <2>2 DEF EventsExist
  <2>4. ASSUME NEW i \in 1..Len(chain') PROVE chain'[i].event <= seq'[chain'[i].job]
    <3>1. CASE i <= Len(chain)
      <4>1. i \in 1..Len(chain) /\ chain'[i] = chain[i]
        BY <1>s, <2>1, <2>4, <3>1 DEF Grown
      <4>2. /\ chain[i].event <= seq[chain[i].job] /\ chain[i].event \in Nat
            /\ chain[i].job \in Jobs /\ seq[chain[i].job] \in Nat
        BY <1>s, <1>t, <4>1 DEF EventsExist
      <4> QED BY <2>2, <4>1, <4>2
    <3>2. CASE ~(i <= Len(chain))
      <4>1. chain'[i] \in Proper(j)'
        BY <1>s, <2>1, <2>4, <3>2 DEF Grown
      <4> QED BY <4>1 DEF Proper
    <3> QED BY <3>1, <3>2
  <2>5. saved' => chain' # <<>> /\ chain'[1].event # 0
    BY <1>t, <2>1, <2>2 DEF Grown, EventsExist
  <2> QED BY <2>3, <2>4, <2>5 DEF EventsExist
<1>2. ASSUME NEW j \in Jobs, QuietStep(j) PROVE EventsExist'
  <2>1. /\ chain' = chain /\ saved' = saved /\ seq' = seq
        /\ \A i \in Jobs : events'[i] = events[i] \/ events'[i] = {}
    BY <1>2, <1>t, QuietFrame
  <2> QED BY <1>t, <2>1 DEF EventsExist
<1>3. ASSUME SaveEvent \/ WriteFails \/ (Save /\ chain[1].event = 0) PROVE EventsExist'
  <2>1. /\ chain # <<>> /\ seq' = seq
        /\ \A i \in Jobs :
              \/ events'[i] = events[i]
              \/ saved /\ i = chain[1].job /\ events'[i] = events[i] \cup {chain[1].event}
    BY <1>3, <1>t, FirstWrite DEF Save, SaveEvent, WriteFails, jobVars, dbVars, TypeOK
  <2>2. chain' = Tail(chain) /\ ~saved'
    BY <1>3, <1>t, <2>1, FirstWrite DEF Save, SaveEvent, WriteFails, WriteDone
  <2>3. saved => chain[1].event \in 1..seq[chain[1].job]
    BY <1>s, <1>t, <2>1, FirstWrite DEF EventsExist
  <2>4. \A i \in 1..Len(chain') : chain'[i].event <= seq'[chain'[i].job]
    BY <1>s, <1>t, <2>1, <2>2, FirstWrite DEF EventsExist
  <2>5. \A i \in Jobs : events'[i] \subseteq 1..seq'[i]
    BY <1>t, <2>1, <2>3 DEF EventsExist
  <2> QED BY <2>2, <2>4, <2>5 DEF EventsExist
<1>4. ASSUME Save, chain[1].event # 0 PROVE EventsExist'
  <2>1. chain # <<>> /\ Head(chain) = chain[1]
    BY <1>4, <1>t, FirstWrite DEF Save
  <2>2. chain' = chain /\ seq' = seq /\ events' = events
    BY <1>4, <2>1 DEF Save, jobVars
  <2> QED BY <1>4, <1>t, <2>1, <2>2 DEF EventsExist
<1>5. ASSUME Crash PROVE EventsExist'
  <2>1. chain' = <<>> /\ ~saved' /\ seq' = seq /\ events' = events
    BY <1>5 DEF Crash, dbVars
  <2> QED BY <1>t, <2>1 DEF EventsExist
<1>6. ASSUME UNCHANGED vars PROVE EventsExist'
  BY <1>t, <1>6 DEF EventsExist, vars
<1> QED BY <1>1, <1>2, <1>3, <1>4, <1>5, <1>6, StepCases

LEMMA OutcomesComeLastStep ==
  ASSUME IInv, [Next]_vars
  PROVE  OutcomesComeLast'
<1>t. TypeOK /\ BornFirst /\ RowAfterEvents /\ OutcomesComeLast
  BY DEF IInv
<1>s. Len(chain) \in Nat
  BY <1>t DEF TypeOK
<1>1. ASSUME NEW j \in Jobs, RunStep(j) PROVE OutcomesComeLast'
  <2>1. Grown(chain, chain', Proper(j)')
    BY <1>1, <1>t, RunGrows
  <2>2. /\ row' = row
        /\ \A i \in Jobs \ {j} : at'[i] = at[i] /\ status'[i] = status[i]
        /\ at[j] \notin Ended /\ at'[j] # "idle"
        /\ status'[j] \in Outcomes => at'[j] \in Ended \/ status'[j] = status[j]
    BY <1>1, <1>t, RunFrame DEF Ended
  <2>3. ASSUME NEW i \in 1..Len(chain')
        PROVE  /\ at'[chain'[i].job] # "idle"
               /\ chain'[i].status # "none"
               /\ chain'[i].status \in Outcomes =>
                    at'[chain'[i].job] \in Ended /\ chain'[i].event = 0
    <3>1. CASE i <= Len(chain)
      <4>1. i \in 1..Len(chain) /\ chain'[i] = chain[i]
        BY <1>s, <2>1, <2>3, <3>1 DEF Grown
      <4>2. chain[i].job \in Jobs
        <5>1. chain[i] \in Writes
          BY <1>t, <4>1 DEF TypeOK
        <5> QED BY <5>1 DEF Writes
      <4>3. /\ at[chain[i].job] # "idle" /\ chain[i].status # "none"
            /\ chain[i].status \in Outcomes => at[chain[i].job] \in Ended /\ chain[i].event = 0
        BY <1>t, <4>1 DEF OutcomesComeLast
      <4> QED BY <2>2, <4>1, <4>2, <4>3
    <3>2. CASE ~(i <= Len(chain))
      <4>1. chain'[i] \in Proper(j)'
        BY <1>s, <2>1, <2>3, <3>2 DEF Grown
      <4> QED BY <2>2, <4>1 DEF Proper, Ended
    <3> QED BY <3>1, <3>2
  <2> QED BY <1>t, <2>2, <2>3 DEF OutcomesComeLast
<1>2. ASSUME NEW j \in Jobs, QuietStep(j) PROVE OutcomesComeLast'
  <2>1. /\ chain' = chain /\ status' = status
        /\ \A i \in Jobs \ {j} : at'[i] = at[i]
        /\ \A i \in Jobs : row'[i] = row[i] \/ row'[i] = "none"
        /\ (at[j] \in Before /\ at'[j] \in Before \cup {"lost"}) \/ Return(j)
    BY <1>2, <1>t, QuietFrame
  <2>2. at'[j] # "idle" /\ (at[j] \in Ended => at'[j] \in Ended)
    BY <1>t, <2>1 DEF Return, Before, Ended, TypeOK
  <2>3. \A i \in 1..Len(chain) : chain[i].job \in Jobs
    <3>1. \A i \in 1..Len(chain) : chain[i] \in Writes
      BY <1>t DEF TypeOK
    <3> QED BY <3>1 DEF Writes
  <2>4. \A i \in Jobs : (at[i] \in Ended => at'[i] \in Ended) /\ (at[i] # "idle" => at'[i] # "idle")
    BY <2>1, <2>2
  <2>5. \A i \in Jobs : row'[i] \in Outcomes => row[i] \in Outcomes
    BY <2>1 DEF Outcomes
  <2> QED BY <1>t, <2>1, <2>3, <2>4, <2>5 DEF OutcomesComeLast
<1>3. ASSUME Save \/ SaveEvent \/ WriteFails PROVE OutcomesComeLast'
  <2>1. chain # <<>> /\ status' = status /\ at' = at
    BY <1>3 DEF Save, SaveEvent, WriteFails, jobVars
  <2>2. chain' = chain \/ chain' = Tail(chain)
    BY <1>3 DEF Save, SaveEvent, WriteFails, WriteDone
  <2>3. \A i \in Jobs : row'[i] = row[i] \/ (i = chain[1].job /\ row'[i] = chain[1].status)
    BY <1>3, <1>t, <2>1, FirstWrite DEF Save, SaveEvent, WriteFails, dbVars, TypeOK
  <2>4. chain[1].status \in Outcomes => at[chain[1].job] \in Ended
    BY <1>t, <2>1, FirstWrite DEF OutcomesComeLast
  <2>5. \A i \in 1..Len(chain') : \E h \in 1..Len(chain) : chain'[i] = chain[h]
    <3>1. CASE chain' = Tail(chain)
      <4>1. \A i \in 1..Len(chain') : i + 1 \in 1..Len(chain) /\ chain'[i] = chain[i + 1]
        BY <1>t, <2>1, <3>1, FirstWrite
      <4> QED BY <4>1
    <3> QED BY <2>2, <3>1
  <2> QED BY <1>t, <2>1, <2>3, <2>4, <2>5 DEF OutcomesComeLast
<1>4. ASSUME Crash PROVE OutcomesComeLast'
  <2>1. chain' = <<>> /\ status' = status /\ row' = row
    BY <1>4 DEF Crash, dbVars
  <2>2. \A i \in Jobs : at[i] \in Ended => at'[i] \in Ended
    BY <1>4 DEF Crash, Ended
  <2> QED BY <1>t, <2>1, <2>2 DEF OutcomesComeLast
<1>5. ASSUME UNCHANGED vars PROVE OutcomesComeLast'
  BY <1>t, <1>5 DEF OutcomesComeLast, vars
<1> QED BY <1>1, <1>2, <1>3, <1>4, <1>5, StepCases
-----------------------------------------------------------------------------
(* What the database has, and what is on its way to it. *)

\* A step of others: what is new in the chain is not about i.
LEMMA Undisturbed ==
  ASSUME TypeOK, NEW i \in Jobs, Faithful(i),
         NEW W, Grown(chain, chain', W), \A w \in W : w.job # i,
         Intact(i)' => Intact(i) /\ events'[i] = events[i] /\ row'[i] = row[i],
         seq'[i] = seq[i], status'[i] = status[i], deaf[i] => deaf'[i],
         at'[i] \notin {"returned", "lost", "dead"} => at[i] \notin {"returned", "lost", "dead"},
         at'[i] \in {"flush_end", "returned"} => at'[i] = at[i] /\ ahead'[i] = ahead[i]
  PROVE  Faithful(i)'
<1> SUFFICES ASSUME Intact(i)'
             PROVE  /\ IsLog(events'[i])
                    /\ Orderly(chain', events'[i], i, seq'[i])
                    /\ ~deaf'[i] /\ at'[i] \notin {"returned", "lost", "dead"} =>
                         Queued(chain', events'[i], i, seq'[i])
                    /\ ~deaf'[i] /\ at'[i] \in {"flush_end", "returned"} => Finishing(i)'
                    /\ row'[i] \in Outcomes => events'[i] = 1..seq'[i]
  BY DEF Faithful
<1>1. /\ IsLog(events[i]) /\ Orderly(chain, events[i], i, seq[i])
      /\ ~deaf[i] /\ at[i] \notin {"returned", "lost", "dead"} =>
           Queued(chain, events[i], i, seq[i])
      /\ ~deaf[i] /\ at[i] \in {"flush_end", "returned"} => Finishing(i)
      /\ row[i] \in Outcomes => events[i] = 1..seq[i]
      /\ events'[i] = events[i] /\ row'[i] = row[i]
  BY DEF Faithful
<1>2. chain \in Seq(Writes) /\ seq[i] \in Nat
  BY DEF TypeOK
<1>3. /\ Orderly(chain', events[i], i, seq[i])
      /\ Queued(chain, events[i], i, seq[i]) => Queued(chain', events[i], i, seq[i])
  BY <1>1, <1>2, GrownByOthers
<1>4. ASSUME Finishing(i), at'[i] = at[i], ahead'[i] = ahead[i] PROVE Finishing(i)'
  <2>1. /\ Len(chain) \in Nat /\ Len(chain') \in Nat /\ Len(chain) <= Len(chain')
        /\ \A h \in 1..Len(chain) : chain'[h] = chain[h]
        /\ \A h \in 1..Len(chain') : h > Len(chain) => chain'[h].job # i
    BY DEF Grown
  <2>2. CASE row[i] = status[i] /\ \A h \in 1..Len(chain) : chain[h].job # i
    <3>1. \A h \in 1..Len(chain') : chain'[h].job # i
      <4>1. ASSUME NEW h \in 1..Len(chain') PROVE chain'[h].job # i
        <5>1. CASE h > Len(chain)
          BY <2>1, <5>1
        <5>2. CASE ~(h > Len(chain))
          BY <2>1, <2>2, <5>2
        <5> QED BY <5>1, <5>2
      <4> QED BY <4>1
    <3> QED BY <1>1, <2>2, <3>1 DEF Finishing
  <2>3. CASE /\ at[i] = "flush_end"
             /\ \E n \in 1..Len(chain) : n <= ahead[i] /\ LastWrite(chain, i, status[i], n)
    <3>1. PICK n \in 1..Len(chain) : n <= ahead[i] /\ LastWrite(chain, i, status[i], n)
      BY <2>3
    <3>2. n \in 1..Len(chain') /\ chain'[n] = chain[n]
      BY <2>1
    <3>3. ASSUME NEW h \in (n + 1)..Len(chain') PROVE chain'[h].job # i
      <4>1. CASE h > Len(chain)
        BY <2>1, <3>3, <4>1
      <4>2. CASE ~(h > Len(chain))
        <5>1. h \in 1..Len(chain) /\ h \in (n + 1)..Len(chain)
          BY <2>1, <3>3, <4>2
        <5> QED BY <2>1, <3>1, <5>1 DEF LastWrite
      <4> QED BY <4>1, <4>2
    <3>4. LastWrite(chain', i, status'[i], n)
      BY <3>1, <3>2, <3>3 DEF LastWrite
    <3> QED BY <1>4, <2>3, <3>1, <3>2, <3>4 DEF Finishing
  <2> QED BY <1>4, <2>2, <2>3 DEF Finishing
<1>5. ~deaf'[i] => ~deaf[i]
  OBVIOUS
<1>6. ~deaf'[i] /\ at'[i] \in {"flush_end", "returned"} => Finishing(i)'
  BY <1>1, <1>4, <1>5
<1>7. ~deaf'[i] /\ at'[i] \notin {"returned", "lost", "dead"} =>
        Queued(chain', events'[i], i, seq'[i])
  BY <1>1, <1>3, <1>5
<1> QED BY <1>1, <1>3, <1>6, <1>7

LEMMA QuietFaithful ==
  ASSUME IInv, NEW j \in Jobs, QuietStep(j), NEW i \in Jobs
  PROVE  Faithful(i)'
<1>t. TypeOK /\ RowAfterEvents /\ Faithful(i)
  BY DEF IInv
<1>1. /\ chain' = chain /\ seq' = seq /\ status' = status
      /\ \A k \in Jobs \ {j} : at'[k] = at[k] /\ ahead'[k] = ahead[k]
      /\ deaf[i] => deaf'[i]
      /\ failures <= failures' /\ dropped \subseteq dropped'
      /\ events'[i] = events[i] \/ i \in dropped'
      /\ row'[i] = row[i] \/ i \in dropped'
      /\ (at[j] \in Before /\ at'[j] \in Before \cup {"lost"}) \/ Return(j)
  BY <1>t, QuietFrame
<1>2. Intact(i)' => Intact(i) /\ events'[i] = events[i] /\ row'[i] = row[i]
  <2>1. failures \in Nat
    BY <1>t DEF TypeOK
  <2>2. ASSUME Intact(i)' PROVE Intact(i) /\ events'[i] = events[i] /\ row'[i] = row[i]
    <3>1. failures' = 0 /\ i \notin dropped'
      BY <2>2 DEF Intact
    <3>2. failures = 0 /\ i \notin dropped
      BY <1>1, <2>1, <3>1
    <3> QED BY <1>1, <3>1, <3>2 DEF Intact
  <2> QED BY <2>2
<1>3. chain \in Seq(Writes) /\ Grown(chain, chain', {})
  BY <1>t, <1>1, GrownByNone DEF TypeOK
<1>4. CASE i # j \/ ~Return(j)
  <2>1. /\ at'[i] \notin {"returned", "lost", "dead"} => at[i] \notin {"returned", "lost", "dead"}
        /\ at'[i] \in {"flush_end", "returned"} => at'[i] = at[i] /\ ahead'[i] = ahead[i]
    BY <1>1, <1>4 DEF Before
  <2> QED BY <1>t, <1>1, <1>2, <1>3, <2>1, Undisturbed
<1>5. CASE i = j /\ Return(j)
  <2>1. /\ at[i] = "flush_end" /\ ahead[i] = 0 /\ at'[i] = "returned" /\ deaf' = deaf
    BY <1>t, <1>5 DEF Return, Flushed, jobVars, TypeOK
  <2>2. ASSUME Intact(i)' PROVE Faithful(i)'
    <3>1. Intact(i) /\ events'[i] = events[i] /\ row'[i] = row[i]
      BY <1>2, <2>2
    <3>2. ~deaf[i] => row[i] = status[i] /\ \A h \in 1..Len(chain) : chain[h].job # i
      BY <1>t, <2>1, <3>1 DEF Faithful, Finishing
    <3>3. ~deaf'[i] => Finishing(i)'
      BY <1>1, <2>1, <3>1, <3>2 DEF Finishing
    <3>4. /\ IsLog(events'[i]) /\ Orderly(chain', events'[i], i, seq'[i])
          /\ row'[i] \in Outcomes => events'[i] = 1..seq'[i]
      BY <1>t, <1>1, <3>1 DEF Faithful
    <3> QED BY <2>1, <3>3, <3>4 DEF Faithful
  <2> QED BY <2>2 DEF Faithful
<1> QED BY <1>4, <1>5

\* A run that is heard leaves its events, in order, and at last its outcome.
LEMMA RunQueued ==
  ASSUME IInv, NEW j \in Jobs, RunStep(j), ~deaf[j], Intact(j)
  PROVE  /\ Orderly(chain', events[j], j, seq'[j])
         /\ Queued(chain', events[j], j, seq'[j])
         /\ at'[j] = "flush_end" => Finishing(j)'
<1>t. /\ TypeOK /\ OutcomesComeLast /\ chain \in Seq(Writes)
      /\ seq \in [Jobs -> Nat] /\ seq[j] \in Nat /\ seq[j] + 1 \in Nat
      /\ at \in [Jobs -> Points] /\ ahead \in [Jobs -> Nat]
      /\ status \in [Jobs -> Statuses] /\ status[j] \in Statuses
      /\ "queued" \in Statuses /\ "running" \in Statuses
      /\ "completed" \in Statuses /\ "failed" \in Statuses
  BY DEF IInv, TypeOK, Statuses, Outcomes
<1>a. at[j] \in {"idle", "found", "waiting", "executing"}
  BY <1>t, RunFrame
<1>q. /\ Orderly(chain, events[j], j, seq[j]) /\ Queued(chain, events[j], j, seq[j])
      /\ Open(chain, j)
  <2>1. Open(chain, j)
    BY <1>t, <1>a DEF Open, OutcomesComeLast, Ended
  <2> QED BY <1>a, <2>1 DEF IInv, Faithful
<1>1. CASE Create(j)
  <2> DEFINE w == State(j, "queued", 0)
  <2>1. w \in Writes /\ w.job = j /\ w.status = "queued" /\ w.event = 0
    <3>1. 0 \in Nat /\ "queued" \in Statuses
      BY <1>t
    <3> QED BY <3>1, StateFields
  <2> HIDE DEF w
  <2>2. chain' = chain \o <<w>> /\ seq'[j] = seq[j] /\ at'[j] # "flush_end"
    BY <1>t, <1>1 DEF Create, Persist, Flush, w
  <2> QED BY <1>t, <1>q, <2>1, <2>2, AppendOwn DEF Outcomes
<1>2. CASE StartStub(j)
  <2> DEFINE w == State(j, "running", 0)
  <2>1. w \in Writes /\ w.job = j /\ w.status = "running" /\ w.event = 0
    <3>1. 0 \in Nat /\ "running" \in Statuses
      BY <1>t
    <3> QED BY <3>1, StateFields
  <2> HIDE DEF w
  <2>2. chain' = chain \o <<w>> /\ seq'[j] = seq[j] /\ at'[j] # "flush_end"
    BY <1>t, <1>2 DEF StartStub, Persist, Flush, w
  <2> QED BY <1>t, <1>q, <2>1, <2>2, AppendOwn DEF Outcomes
<1>3. CASE StartLive(j)
  <2> DEFINE w == State(j, "queued", seq[j] + 1)
  <2>1. w \in Writes /\ w.job = j /\ w.status = "queued" /\ w.event = seq[j] + 1
    BY <1>t, StateFields
  <2> HIDE DEF w
  <2>2. chain' = chain \o <<w>> /\ seq'[j] = seq[j] + 1 /\ at'[j] # "flush_end"
    BY <1>t, <1>3 DEF StartLive, Persist, Flush, w
  <2> QED BY <1>t, <1>q, <2>1, <2>2, AppendOwn DEF Outcomes
<1>4. CASE BeginLive(j)
  <2> DEFINE a == State(j, "running", 0)
             b == State(j, "running", seq[j] + 1)
  <2>1. /\ a \in Writes /\ a.job = j /\ a.status = "running" /\ a.event = 0
        /\ b \in Writes /\ b.job = j /\ b.status = "running" /\ b.event = seq[j] + 1
    BY <1>t, StateFields
  <2> HIDE DEF a, b
  <2>2. chain' = chain \o <<a, b>> /\ seq'[j] = seq[j] + 1 /\ at'[j] # "flush_end"
    BY <1>t, <1>4 DEF BeginLive, Persist, a, b
  <2> QED BY <1>t, <1>q, <2>1, <2>2, AppendOwnTwo DEF Outcomes
<1>5. CASE Emit(j)
  <2> DEFINE w == State(j, "running", seq[j] + 1)
  <2>1. w \in Writes /\ w.job = j /\ w.status = "running" /\ w.event = seq[j] + 1
    BY <1>t, StateFields
  <2> HIDE DEF w
  <2>2. chain' = chain \o <<w>> /\ seq'[j] = seq[j] + 1 /\ at'[j] # "flush_end"
    BY <1>t, <1>5 DEF Emit, Persist, Flush, w
  <2> QED BY <1>t, <1>q, <2>1, <2>2, AppendOwn DEF Outcomes
<1>6. CASE Complete(j)
  <2> DEFINE a == State(j, "running", 0)
             b == State(j, "completed", 0)
  <2>1. /\ a \in Writes /\ a.job = j /\ a.status = "running" /\ a.event = 0
        /\ b \in Writes /\ b.job = j /\ b.status = "completed" /\ b.event = 0
    <3>1. 0 \in Nat /\ "running" \in Statuses /\ "completed" \in Statuses
      BY <1>t
    <3> QED BY <3>1, StateFields
  <2> HIDE DEF a, b
  <2>2. chain' = chain \o <<a, b>> /\ seq'[j] = seq[j]
    BY <1>t, <1>6 DEF Complete, Persist, a, b
  <2>3. Orderly(chain', events[j], j, seq'[j]) /\ Queued(chain', events[j], j, seq'[j])
    BY <1>t, <1>q, <2>1, <2>2, AppendOwnTwo DEF Outcomes
  <2>4. /\ Len(chain) \in Nat /\ Len(chain') = Len(chain) + 2 /\ chain'[Len(chain) + 2] = b
        /\ status'[j] = "completed" /\ ahead'[j] = Len(chain') /\ at'[j] = "flush_end"
    BY <1>t, <1>6, <2>1, <2>2, GrownByTwo DEF Complete, Flush
  <2>5. LastWrite(chain', j, status'[j], Len(chain'))
    BY <2>1, <2>4 DEF LastWrite
  <2>6. Finishing(j)'
    BY <2>4, <2>5 DEF Finishing
  <2> QED BY <2>3, <2>6
<1>7. CASE Fail(j)
  <2> DEFINE a == State(j, status[j], seq[j] + 1)
             b == State(j, "failed", 0)
  <2>1. /\ a \in Writes /\ a.job = j /\ a.status = status[j] /\ a.event = seq[j] + 1
        /\ b \in Writes /\ b.job = j /\ b.status = "failed" /\ b.event = 0
    BY <1>t, StateFields
  <2> HIDE DEF a, b
  <2>2. chain' = chain \o <<a, b>> /\ seq'[j] = seq[j] + 1 /\ status[j] \notin Outcomes
    BY <1>t, <1>7 DEF Fail, Persist, a, b, OutcomesComeLast, Ended
  <2>3. Orderly(chain', events[j], j, seq'[j]) /\ Queued(chain', events[j], j, seq'[j])
    BY <1>t, <1>q, <2>1, <2>2, AppendOwnTwo DEF Outcomes
  <2>4. /\ Len(chain) \in Nat /\ Len(chain') = Len(chain) + 2 /\ chain'[Len(chain) + 2] = b
        /\ status'[j] = "failed" /\ ahead'[j] = Len(chain') /\ at'[j] = "flush_end"
    BY <1>t, <1>7, <2>1, <2>2, GrownByTwo DEF Fail, Flush
  <2>5. LastWrite(chain', j, status'[j], Len(chain'))
    BY <2>1, <2>4 DEF LastWrite
  <2>6. Finishing(j)'
    BY <2>4, <2>5 DEF Finishing
  <2> QED BY <2>3, <2>6
<1> QED BY <1>1, <1>2, <1>3, <1>4, <1>5, <1>6, <1>7 DEF RunStep

LEMMA RunFaithful ==
  ASSUME IInv, NEW j \in Jobs, RunStep(j), NEW i \in Jobs
  PROVE  Faithful(i)'
<1>t. TypeOK /\ BornFirst /\ OutcomesComeLast /\ Faithful(i)
  BY DEF IInv
<1>1. Grown(chain, chain', Proper(j)')
  BY <1>t, RunGrows
<1>2. /\ events' = events /\ row' = row /\ failures' = failures /\ dropped' = dropped
      /\ deaf' = deaf
      /\ \A k \in Jobs \ {j} : /\ at'[k] = at[k] /\ seq'[k] = seq[k]
                              /\ status'[k] = status[k] /\ ahead'[k] = ahead[k]
      /\ at[j] \in {"idle", "found", "waiting", "executing"}
      /\ at'[j] \in {"flush_create", "waiting", "executing", "flush_end"}
  BY <1>t, RunFrame
<1>3. Intact(i)' => Intact(i)
  BY <1>2 DEF Intact
<1>4. CASE i # j
  <2>1. \A w \in Proper(j)' : w.job # i
    BY <1>4 DEF Proper
  <2> QED BY <1>t, <1>1, <1>2, <1>3, <1>4, <2>1, Undisturbed
<1>5. CASE i = j
  <2>1. ASSUME Intact(i)' PROVE Faithful(i)'
    <3>1. Intact(j) /\ IsLog(events[j]) /\ Orderly(chain, events[j], j, seq[j])
      BY <1>t, <1>3, <1>5, <2>1 DEF Faithful
    <3>2. row[j] \notin Outcomes
      BY <1>t, <1>2 DEF OutcomesComeLast, Ended
    <3>3. CASE deaf[j]
      <4>1. chain' = chain
        BY <3>3 DEF RunStep, Create, StartStub, StartLive, BeginLive, Emit, Complete, Fail, Persist
      <4>2. Open(chain, j)
        BY <1>t, <1>2 DEF Open, OutcomesComeLast, Ended
      <4>3. Orderly(chain', events'[j], j, seq'[j])
        BY <1>2, <3>1, <4>1, <4>2, OpenOrder
      <4> QED BY <1>2, <1>5, <3>1, <3>2, <3>3, <4>3 DEF Faithful
    <3>4. CASE ~deaf[j]
      <4>1. /\ Orderly(chain', events[j], j, seq'[j])
            /\ Queued(chain', events[j], j, seq'[j])
            /\ at'[j] = "flush_end" => Finishing(j)'
        BY <3>1, <3>4, RunQueued
      <4> QED BY <1>2, <1>5, <3>1, <3>2, <4>1 DEF Faithful
    <3> QED BY <3>3, <3>4
  <2> QED BY <2>1 DEF Faithful
<1> QED BY <1>4, <1>5

\* The first task of the chain ends: what is known of the end of i moves up with it.
LEMMA FinishingMovesUp ==
  ASSUME TypeOK, chain # <<>>, NEW i \in Jobs, Finishing(i), WriteDone,
         status'[i] = status[i], at'[i] = at[i],
         \/ row'[i] = row[i] /\ (chain[1].job = i => chain[1].event # 0)
         \/ chain[1].job # i /\ row'[i] = row[i]
         \/ chain[1].job = i /\ row'[i] = chain[1].status
  PROVE  Finishing(i)'
<1> DEFINE t == Tail(chain)
<1>1. /\ chain' = t /\ Len(chain) \in Nat \ {0} /\ Len(t) = Len(chain) - 1
      /\ \A h \in 1..(Len(chain) - 1) : t[h] = chain[h + 1]
      /\ 1 \in 1..Len(chain)
  BY FirstWrite DEF WriteDone
<1>2. ahead'[i] = IF ahead[i] > 0 THEN ahead[i] - 1 ELSE 0
  BY DEF WriteDone
<1>3. ahead[i] \in Nat
  BY DEF TypeOK
<1> HIDE DEF t
<1>4. CASE row[i] = status[i] /\ \A h \in 1..Len(chain) : chain[h].job # i
  <2>1. \A h \in 1..Len(t) : t[h].job # i
    <3>1. \A h \in 1..Len(t) : h + 1 \in 1..Len(chain) /\ t[h] = chain[h + 1]
      BY <1>1
    <3> QED BY <1>4, <3>1
  <2>2. row'[i] = row[i]
    BY <1>1, <1>4
  <2> QED BY <1>1, <1>4, <2>1, <2>2 DEF Finishing
<1>5. CASE /\ at[i] = "flush_end"
           /\ \E n \in 1..Len(chain) : n <= ahead[i] /\ LastWrite(chain, i, status[i], n)
  <2>1. PICK n \in 1..Len(chain) : n <= ahead[i] /\ LastWrite(chain, i, status[i], n)
    BY <1>5
  <2>2. /\ chain[n].job = i /\ chain[n].status = status[i] /\ chain[n].event = 0
        /\ \A h \in (n + 1)..Len(chain) : chain[h].job # i
    BY <2>1 DEF LastWrite
  <2>3. CASE n = 1
    <3>1. row'[i] = status'[i]
      BY <2>2, <2>3
    <3>2. \A h \in 1..Len(t) : t[h].job # i
      <4>1. \A h \in 1..Len(t) : h + 1 \in (n + 1)..Len(chain) /\ t[h] = chain[h + 1]
        BY <1>1, <2>3
      <4> QED BY <2>2, <4>1
    <3> QED BY <1>1, <3>1, <3>2 DEF Finishing
  <2>4. CASE n # 1
    <3>1. /\ n - 1 \in 1..Len(t) /\ n - 1 \in 1..(Len(chain) - 1) /\ (n - 1) + 1 = n
          /\ n - 1 <= ahead'[i]
      BY <1>1, <1>2, <1>3, <2>1, <2>4
    <3>2. t[n - 1] = chain[n]
      BY <1>1, <3>1
    <3>3. \A h \in ((n - 1) + 1)..Len(t) : t[h].job # i
      <4>1. \A h \in ((n - 1) + 1)..Len(t) : h + 1 \in (n + 1)..Len(chain) /\ t[h] = chain[h + 1]
        BY <1>1, <2>1
      <4> QED BY <2>2, <4>1
    <3>4. LastWrite(t, i, status[i], n - 1)
      BY <2>2, <3>2, <3>3 DEF LastWrite
    <3> QED BY <1>1, <1>5, <3>1, <3>4 DEF Finishing
  <2> QED BY <2>3, <2>4
<1> QED BY <1>4, <1>5 DEF Finishing

LEMMA SaveFaithful ==
  ASSUME IInv, Save, NEW i \in Jobs
  PROVE  Faithful(i)'
<1>t. /\ TypeOK /\ EventsExist /\ OutcomesComeLast /\ Faithful(i)
      /\ seq[i] \in Nat /\ chain \in Seq(Writes)
  BY DEF IInv, TypeOK
<1>1. /\ chain # <<>> /\ status' = status /\ seq' = seq /\ at' = at /\ deaf' = deaf
      /\ events' = events /\ dropped' = dropped /\ failures' = failures
  BY DEF Save, jobVars, countVars
<1>2. /\ chain[1] \in Writes /\ chain[1].event \in Nat /\ chain[1].status \in Statuses
      /\ chain[1].job \in Jobs /\ Head(chain) = chain[1] /\ 1 \in 1..Len(chain)
  BY <1>t, <1>1, FirstWrite
<1>3. row'[i] = IF chain[1].job = i THEN chain[1].status ELSE row[i]
  BY <1>t, <1>2 DEF Save, TypeOK
<1> SUFFICES ASSUME Intact(i)'
             PROVE  /\ Orderly(chain', events'[i], i, seq'[i])
                    /\ ~deaf'[i] /\ at'[i] \notin {"returned", "lost", "dead"} =>
                         Queued(chain', events'[i], i, seq'[i])
                    /\ ~deaf'[i] /\ at'[i] \in {"flush_end", "returned"} => Finishing(i)'
                    /\ row'[i] \in Outcomes => events'[i] = 1..seq'[i]
  BY <1>t, <1>1 DEF Faithful, Intact
<1>4. /\ Orderly(chain, events[i], i, seq[i])
      /\ ~deaf[i] /\ at[i] \notin {"returned", "lost", "dead"} =>
           Queued(chain, events[i], i, seq[i])
      /\ ~deaf[i] /\ at[i] \in {"flush_end", "returned"} => Finishing(i)
      /\ row[i] \in Outcomes => events[i] = 1..seq[i]
  BY <1>t, <1>1 DEF Faithful, Intact
<1>5. row'[i] \in Outcomes => events'[i] = 1..seq'[i]
  <2>1. CASE chain[1].job = i /\ chain[1].status \in Outcomes
    <3>1. \A e \in 1..seq[i] : Safe(chain, events[i], i, e, 1)
      BY <1>2, <1>4, <2>1 DEF Orderly
    <3>2. \A e \in 1..seq[i] : e \in events[i]
      BY <3>1 DEF Safe
    <3>3. events[i] \subseteq 1..seq[i]
      BY <1>t DEF EventsExist
    <3> QED BY <1>1, <3>2, <3>3
  <2>2. CASE ~(chain[1].job = i /\ chain[1].status \in Outcomes)
    BY <1>1, <1>3, <1>4, <2>2
  <2> QED BY <2>1, <2>2
<1>6. CASE chain[1].event = 0
  <2>1. WriteDone /\ chain' = Tail(chain)
    BY <1>2, <1>6 DEF Save, WriteDone
  <2>2. /\ Orderly(chain', events'[i], i, seq'[i])
        /\ Queued(chain, events[i], i, seq[i]) => Queued(chain', events'[i], i, seq'[i])
    BY <1>t, <1>1, <1>4, <1>6, <2>1, FirstDone
  <2>3. Finishing(i) => Finishing(i)'
    BY <1>t, <1>1, <1>3, <2>1, FinishingMovesUp
  <2> QED BY <1>1, <1>4, <1>5, <2>2, <2>3
<1>7. CASE chain[1].event # 0
  <2>1. chain' = chain /\ ahead' = ahead
    BY <1>2, <1>7 DEF Save
  <2>2. Finishing(i) => Finishing(i)'
    <3>1. CASE chain[1].job = i
      <4>1. ~(\A h \in 1..Len(chain) : chain[h].job # i)
        BY <1>2, <3>1
      <4> QED BY <1>1, <2>1, <4>1 DEF Finishing
    <3>2. CASE chain[1].job # i
      BY <1>1, <1>3, <2>1, <3>2 DEF Finishing
    <3> QED BY <3>1, <3>2
  <2> QED BY <1>1, <1>4, <1>5, <2>1, <2>2
<1> QED BY <1>6, <1>7

LEMMA SaveEventFaithful ==
  ASSUME IInv, SaveEvent, NEW i \in Jobs
  PROVE  Faithful(i)'
<1>t. /\ TypeOK /\ EventsExist /\ OutcomesComeLast /\ Faithful(i)
      /\ seq[i] \in Nat /\ chain \in Seq(Writes)
  BY DEF IInv, TypeOK
<1>1. /\ chain # <<>> /\ status' = status /\ seq' = seq /\ at' = at /\ deaf' = deaf
      /\ row' = row /\ dropped' = dropped /\ failures' = failures
      /\ WriteDone /\ chain' = Tail(chain) /\ saved
  BY DEF SaveEvent, WriteDone, jobVars, countVars
<1>2. /\ chain[1].event \in Nat /\ chain[1].event # 0 /\ chain[1].job \in Jobs
      /\ Head(chain) = chain[1] /\ 1 \in 1..Len(chain)
  BY <1>t, <1>1, FirstWrite DEF EventsExist
<1>3. events'[i] = IF chain[1].job = i THEN events[i] \cup {chain[1].event} ELSE events[i]
  BY <1>t, <1>2 DEF SaveEvent, TypeOK
<1> SUFFICES ASSUME Intact(i)'
             PROVE  /\ IsLog(events'[i])
                    /\ Orderly(chain', events'[i], i, seq'[i])
                    /\ ~deaf'[i] /\ at'[i] \notin {"returned", "lost", "dead"} =>
                         Queued(chain', events'[i], i, seq'[i])
                    /\ ~deaf'[i] /\ at'[i] \in {"flush_end", "returned"} => Finishing(i)'
                    /\ row'[i] \in Outcomes => events'[i] = 1..seq'[i]
  BY <1>t, <1>1 DEF Faithful, Intact
<1>4. /\ IsLog(events[i])
      /\ Orderly(chain, events[i], i, seq[i])
      /\ ~deaf[i] /\ at[i] \notin {"returned", "lost", "dead"} =>
           Queued(chain, events[i], i, seq[i])
      /\ ~deaf[i] /\ at[i] \in {"flush_end", "returned"} => Finishing(i)
      /\ row[i] \in Outcomes => events[i] = 1..seq[i]
  BY <1>t, <1>1 DEF Faithful, Intact
<1>5. IsLog(events'[i])
  <2>1. CASE chain[1].job = i
    <3> DEFINE e == chain[1].event
    <3>1. PICK n \in Nat : events[i] = 1..n
      BY <1>4 DEF IsLog
    <3>2. \A d \in 1..(e - 1) : Safe(chain, events[i], i, d, 1)
      BY <1>2, <1>4, <2>1 DEF Orderly
    <3>3. \A d \in 1..(e - 1) : d \in 1..n
      BY <3>1, <3>2 DEF Safe
    <3>4. events'[i] = (1..n) \cup {e} /\ e \in Nat \ {0}
      BY <1>2, <1>3, <2>1, <3>1
    <3> HIDE DEF e
    <3>5. e <= n + 1
      <4>1. CASE e = 1
        BY <4>1
      <4>2. CASE e # 1
        <5>1. e - 1 \in 1..(e - 1)
          BY <3>4, <4>2
        <5> QED BY <3>3, <3>4, <5>1
      <4> QED BY <4>1, <4>2
    <3>6. CASE e <= n
      <4>1. events'[i] = 1..n
        BY <3>4, <3>6
      <4> QED BY <4>1 DEF IsLog
    <3>7. CASE ~(e <= n)
      <4>1. e = n + 1
        BY <3>4, <3>5, <3>7
      <4>2. events'[i] = 1..(n + 1) /\ n + 1 \in Nat
        BY <3>4, <4>1
      <4> QED BY <4>2 DEF IsLog
    <3> QED BY <3>6, <3>7
  <2>2. CASE chain[1].job # i
    BY <1>3, <1>4, <2>2
  <2> QED BY <2>1, <2>2
<1>6. /\ Orderly(chain', events'[i], i, seq'[i])
      /\ Queued(chain, events[i], i, seq[i]) => Queued(chain', events'[i], i, seq'[i])
  <2>1. /\ events[i] \subseteq events'[i]
        /\ chain[1].job = i /\ chain[1].event # 0 => chain[1].event \in events'[i]
    BY <1>3
  <2> QED BY <1>t, <1>1, <1>4, <2>1, FirstDone
<1>7. Finishing(i) => Finishing(i)'
  BY <1>t, <1>1, <1>2, FinishingMovesUp
<1>8. row'[i] \in Outcomes => events'[i] = 1..seq'[i]
  <2>1. ASSUME row[i] \in Outcomes, chain[1].job = i PROVE chain[1].event \in 1..seq[i]
    BY <1>t, <1>2, <2>1 DEF EventsExist
  <2> QED BY <1>1, <1>3, <1>4, <2>1
<1> QED BY <1>1, <1>4, <1>5, <1>6, <1>7, <1>8

LEMMA WriteFailsFaithful ==
  ASSUME IInv, WriteFails, NEW i \in Jobs
  PROVE  Faithful(i)'
<1>1. failures' = failures + 1 /\ failures \in Nat
  BY DEF IInv, TypeOK, WriteFails
<1>2. ~Intact(i)'
  BY <1>1 DEF Intact
<1> QED BY <1>2 DEF Faithful

\* A crash takes the chain, and whoever waited for it: only what is stored is left.
LEMMA CrashFaithful ==
  ASSUME IInv, Crash, NEW i \in Jobs
  PROVE  Faithful(i)'
<1>t. Faithful(i) /\ BornFirst
  BY DEF IInv
<1>1. /\ chain' = <<>> /\ status' = status /\ seq' = seq /\ deaf' = deaf
      /\ row' = row /\ events' = events /\ dropped' = dropped /\ failures' = failures
      /\ at'[i] = IF at[i] \in {"idle", "returned", "lost"} THEN at[i] ELSE "dead"
  BY DEF Crash, dbVars
<1>2. Len(chain') = 0
  BY <1>1
<1>3. Orderly(chain', events'[i], i, seq'[i])
  BY <1>2 DEF Orderly
<1>4. at'[i] \notin {"returned", "lost", "dead"} => Queued(chain', events'[i], i, seq'[i])
  BY <1>t, <1>1 DEF BornFirst, Queued
<1>5. ASSUME Intact(i)' PROVE Faithful(i)'
  <2>1. Intact(i)
    BY <1>1, <1>5 DEF Intact
  <2>2. ~deaf'[i] /\ at'[i] \in {"flush_end", "returned"} => Finishing(i)'
    <3>1. ASSUME ~deaf'[i], at'[i] \in {"flush_end", "returned"} PROVE Finishing(i)'
      <4>1. at[i] = "returned" /\ ~deaf[i]
        BY <1>1, <3>1
      <4>2. row[i] = status[i]
        BY <1>t, <2>1, <4>1 DEF Faithful, Finishing
      <4> QED BY <1>1, <1>2, <4>2 DEF Finishing
    <3> QED BY <3>1
  <2>3. IsLog(events'[i]) /\ (row'[i] \in Outcomes => events'[i] = 1..seq'[i])
    BY <1>t, <1>1, <2>1 DEF Faithful
  <2> QED BY <1>3, <1>4, <2>2, <2>3 DEF Faithful
<1> QED BY <1>5 DEF Faithful

LEMMA FaithfulStep ==
  ASSUME IInv, [Next]_vars, NEW i \in Jobs
  PROVE  Faithful(i)'
<1>1. ASSUME UNCHANGED vars PROVE Faithful(i)'
  BY <1>1 DEF IInv, Faithful, Intact, Finishing, vars
<1> QED BY <1>1, StepCases, RunFaithful, QuietFaithful, SaveFaithful, SaveEventFaithful,
       WriteFailsFaithful, CrashFaithful
-----------------------------------------------------------------------------
(* The theorems. *)

LEMMA InitIsFaithful ==
  ASSUME Init
  PROVE  IInv
<1>1. TypeOK
  <2>1. "none" \in Statuses /\ "idle" \in Points
    BY DEF Statuses, Points
  <2>2. chain \in Seq(Writes)
    BY DEF Init
  <2>3. saved \in BOOLEAN /\ degraded \in BOOLEAN /\ deaf \in [Jobs -> BOOLEAN]
    BY DEF Init
  <2> QED BY <2>1, <2>2, <2>3 DEF Init, TypeOK
<1>2. BornFirst
  <2>1. Born = {} /\ Cardinality(Born) = 0
    <3>1. Born = {}
      BY DEF Init, Born
    <3> QED BY <3>1, FS_EmptySet
  <2> QED BY <2>1 DEF Init, BornFirst
<1>3. RowAfterEvents /\ EventsExist /\ OutcomesComeLast
  BY DEF Init, RowAfterEvents, EventsExist, OutcomesComeLast, Outcomes
<1>4. ASSUME NEW j \in Jobs PROVE Faithful(j)
  <2>1. /\ events[j] = {} /\ chain = <<>> /\ Len(chain) = 0 /\ seq[j] = 0 /\ row[j] = "none"
        /\ at[j] = "idle"
    BY DEF Init
  <2>2. IsLog(events[j])
    <3>1. events[j] = 1..0
      BY <2>1
    <3> QED BY <3>1 DEF IsLog
  <2>3. Orderly(chain, events[j], j, seq[j]) /\ Queued(chain, events[j], j, seq[j])
    BY <2>1 DEF Orderly, Queued
  <2> QED BY <2>1, <2>2, <2>3 DEF Faithful, Outcomes
<1> QED BY <1>1, <1>2, <1>3, <1>4 DEF IInv

LEMMA IInvStep == IInv /\ [Next]_vars => IInv'
<1>1. ASSUME IInv, [Next]_vars PROVE IInv'
  <2>1. TypeOK' /\ BornFirst' /\ RowAfterEvents' /\ EventsExist' /\ OutcomesComeLast'
    BY <1>1, TypesStep, BornFirstStep, RowAfterEventsStep, EventsExistStep, OutcomesComeLastStep
  <2>2. \A j \in Jobs : Faithful(j)'
    BY <1>1, FaithfulStep
  <2> QED BY <2>1, <2>2 DEF IInv
<1> QED BY <1>1

LEMMA IInvHolds == Spec => []IInv
<1>1. Init => IInv
  BY InitIsFaithful
<1> QED BY <1>1, IInvStep, PTL DEF Spec

\* Every job, row, event and queued write is what the code could have put there.
THEOREM HistoryTypesCorrect == Spec => []TypeOK
<1>1. IInv => TypeOK
  BY DEF IInv
<1> QED BY <1>1, IInvHolds, PTL

\* Wherever the process stops, the progress log in the database is the first events of
\* the run, as long as no statement failed and no prune touched the investigation.
THEOREM StoredLogsAreWhole == Spec => []StoredLogHasNoHole
<1>1. ASSUME IInv, NEW j \in Jobs, Intact(j) PROVE events[j] = 1..Cardinality(events[j])
  <2>1. PICK n \in Nat : events[j] = 1..n
    BY <1>1 DEF IInv, Faithful, IsLog
  <2>2. Cardinality(1..n) = n
    <3>1. Cardinality(1..n) = IF 1 > n THEN 0 ELSE n - 1 + 1
      BY FS_Interval
    <3> QED BY <3>1
  <2> QED BY <2>1, <2>2
<1>2. IInv => StoredLogHasNoHole
  BY <1>1 DEF StoredLogHasNoHole
<1> QED BY <1>2, IInvHolds, PTL

\* An investigation that the database shows as finished has all its events there.
THEOREM FinishedRowsAreWhole == Spec => []FinishedRowHasWholeLog
<1>1. IInv => FinishedRowHasWholeLog
  BY DEF IInv, Faithful, FinishedRowHasWholeLog
<1> QED BY <1>1, IInvHolds, PTL

\* A run that returned after its flush is in the database with its outcome, if it did not
\* work on a restored job, which has no listeners and stores nothing.
THEOREM ReturnedRunsAreStored == Spec => []ReturnedMeansStored
<1>1. IInv => ReturnedMeansStored
  BY DEF IInv, Faithful, Finishing, ReturnedMeansStored
<1> QED BY <1>1, IInvHolds, PTL
-----------------------------------------------------------------------------
(* The uploaded datasets. *)

Uploading == {"upload_check", "upload_write"}
Sealing == {"seal_check", "seal_write"}

\* Client c is inside mutate for d.
In(c, d) == request[c].at \in Inside /\ request[c].dataset = d

\* A dataset that could start a comparison once it has a cost export.
Sound(x) ==
  /\ Cardinality(Sources(x)) <= MaxSources
  /\ \A s \in Sources(x) \cap CostSlots : x.files[s].currency = x.currency

\* x holds every accepted file of d but that of the slots left out.
HoldsAccepted(x, d, but) ==
  \A s \in Slots \ but : accepted[d][s] # None => x.files[s] = accepted[d][s]

\* Nothing of d is stored, accepted or under way yet.
Fresh(d) ==
  /\ store[d] = None /\ seen[d] = {}
  /\ \A s \in Slots : accepted[d][s] = None
  /\ \A c \in Clients : ~In(c, d)

RequestsAreMinted == \A c \in Clients : request[c].at # "idle" => request[c].dataset \in minted

FreshIds ==
  /\ \A d \in Datasets \ minted : Fresh(d)
  /\ \A c \in Clients : request[c].at = "create_write" =>
       /\ Fresh(request[c].dataset)
       /\ \A e \in Clients \ {c} : ~At(e, "create_write", request[c].dataset)

RowsSound ==
  \A d \in Datasets : Present(d) => Sound(store[d]) /\ (store[d].sealed => HasCost(store[d]))

\* What an upload, and a seal, is going to write.
UploadFits(r) ==
  r.at \in Uploading =>
    /\ Sound(r.copy) /\ ~r.copy.sealed /\ r.copy.files[r.slot] = r.file
    /\ HoldsAccepted(r.copy, r.dataset, {r.slot})

SealFits(r) ==
  r.at \in Sealing =>
    /\ Sound(r.copy) /\ HasCost(r.copy) /\ r.copy.sealed
    /\ HoldsAccepted(r.copy, r.dataset, {})

CopiesFit == \A c \in Clients : UploadFits(request[c]) /\ SealFits(request[c])

SealGets ==
  \A c \in Clients : request[c].at = "seal_get" /\ Present(request[c].dataset) =>
    HasCost(store[request[c].dataset])

\* A dataset that is sealed, or that a reader was given, has nobody inside mutate; while
\* it is there it is what the readers were given.
SealedIsQuiet ==
  \A d \in Datasets :
    /\ seen[d] # {} \/ (Present(d) /\ store[d].sealed) => \A c \in Clients : ~In(c, d)
    /\ \A x \in seen[d] : x.sealed /\ (Present(d) => x = store[d])
    /\ \A x, y \in seen[d] : x = y

StoreIInv ==
  /\ StoreTypeOK
  /\ LockFollowsRequest
  /\ AcceptedSourcesKept
  /\ RequestsAreMinted
  /\ FreshIds
  /\ RowsSound
  /\ CopiesFit
  /\ SealGets
  /\ SealedIsQuiet

USE LimitsNatural, NoneApart
-----------------------------------------------------------------------------
(* What requests and datasets look like. *)

LEMMA UploadRequest ==
  ASSUME NEW r \in Requests, r.at \in Uploading
  PROVE  /\ r.dataset \in Datasets /\ r.slot \in Slots /\ r.file \in Files(r.slot)
         /\ r.copy \in Contents
         /\ \A point \in Uploading : [r EXCEPT !.at = point] \in Requests
         /\ \A point \in Uploading :
              [r EXCEPT !.at = point]
                = [at |-> point, dataset |-> r.dataset, slot |-> r.slot, file |-> r.file,
                   copy |-> r.copy]
BY DEF Requests, Uploading

LEMMA SealRequest ==
  ASSUME NEW r \in Requests, r.at \in Sealing
  PROVE  /\ r.dataset \in Datasets /\ r.copy \in Contents
         /\ \A point \in Sealing : [r EXCEPT !.at = point] \in Requests
         /\ \A point \in Sealing :
              [r EXCEPT !.at = point] = [at |-> point, dataset |-> r.dataset, copy |-> r.copy]
BY DEF Requests, Sealing

LEMMA RequestDataset ==
  ASSUME NEW r \in Requests, r.at # "idle"
  PROVE  r.dataset \in Datasets
BY DEF Requests

LEMMA SourcesCounted ==
  ASSUME NEW x
  PROVE  /\ Sources(x) \in SUBSET Slots
         /\ IsFiniteSet(Sources(x)) /\ Cardinality(Sources(x)) \in Nat
<1>1. IsFiniteSet(Slots)
  BY SlotsFinite, FS_Union DEF Slots
<1>2. Sources(x) \in SUBSET Slots
  BY DEF Sources
<1>3. IsFiniteSet(Sources(x))
  BY <1>1, <1>2, FS_Subset
<1> QED BY <1>2, <1>3, FS_CardinalityType

LEMMA ContentsFields ==
  ASSUME NEW x \in Contents
  PROVE  /\ x.files \in [Slots -> (UNION {Files(s) : s \in Slots}) \cup {None}]
         /\ \A s \in Slots : x.files[s] \in Files(s) \cup {None}
         /\ x.sealed \in BOOLEAN /\ x.currency \in Currencies \cup {None}
         /\ x # None
BY DEF Contents

LEMMA EmptyContents ==
  /\ Empty \in Contents /\ Sound(Empty) /\ ~Empty.sealed
  /\ \A s \in Slots : Empty.files[s] = None
<1>1. Empty \in Contents /\ ~Empty.sealed /\ \A s \in Slots : Empty.files[s] = None
  BY DEF Empty, Contents
<1>2. Sources(Empty) = {}
  BY <1>1 DEF Sources
<1>3. Sound(Empty)
  BY <1>2, FS_EmptySet DEF Sound
<1> QED BY <1>1, <1>3

LEMMA SealedContents ==
  ASSUME NEW x \in Contents
  PROVE  /\ Sealed(x) \in Contents
         /\ Sealed(x).files = x.files /\ Sealed(x).currency = x.currency /\ Sealed(x).sealed
BY DEF Contents, Sealed

LEMMA WithSourceContents ==
  ASSUME NEW x \in Contents, NEW s \in Slots, NEW f \in Files(s)
  PROVE  /\ WithSource(x, s, f) \in Contents
         /\ WithSource(x, s, f).files = [x.files EXCEPT ![s] = f]
         /\ WithSource(x, s, f).sealed = x.sealed
         /\ WithSource(x, s, f).currency
              = IF f.currency # None THEN f.currency ELSE x.currency
<1> DEFINE y == WithSource(x, s, f)
           files == [x.files EXCEPT ![s] = f]
           currency == IF f.currency # None THEN f.currency ELSE x.currency
<1>1. /\ x.files \in [Slots -> (UNION {Files(t) : t \in Slots}) \cup {None}]
      /\ \A t \in Slots : x.files[t] \in Files(t) \cup {None}
      /\ x.sealed \in BOOLEAN /\ x.currency \in Currencies \cup {None}
  BY DEF Contents
<1>2. y = [files |-> files, sealed |-> x.sealed, currency |-> currency]
  BY DEF WithSource
<1>3. f \in UNION {Files(t) : t \in Slots}
  OBVIOUS
<1>4. files \in [Slots -> (UNION {Files(t) : t \in Slots}) \cup {None}]
  BY <1>1, <1>3
<1>5. \A t \in Slots : files[t] \in Files(t) \cup {None}
  BY <1>1
<1>6. currency \in Currencies \cup {None}
  BY <1>1 DEF Files
<1> HIDE DEF files, currency
<1>7. y \in Contents
  BY <1>1, <1>2, <1>4, <1>5, <1>6 DEF Contents
<1>8. y.files = files /\ y.sealed = x.sealed /\ y.currency = currency
  BY <1>2
<1> QED BY <1>7, <1>8 DEF files, currency

\* A file that add_source takes keeps a dataset sound.
LEMMA WithSourceSound ==
  ASSUME NEW x \in Contents, Sound(x), NEW s \in Slots, NEW f \in Files(s),
         ~CurrencyConflict(x, f), ~TooManySources(x, s)
  PROVE  Sound(WithSource(x, s, f))
<1> DEFINE y == WithSource(x, s, f)
<1>1. /\ y.files = [x.files EXCEPT ![s] = f]
      /\ y.currency = IF f.currency # None THEN f.currency ELSE x.currency
      /\ x.files \in [Slots -> (UNION {Files(t) : t \in Slots}) \cup {None}]
      /\ \A t \in Slots : x.files[t] \in Files(t) \cup {None}
  BY WithSourceContents, ContentsFields
<1>2. f # None
  OBVIOUS
<1>3. Sources(y) = Sources(x) \cup {s}
  BY <1>1, <1>2 DEF Sources
<1>4. Cardinality(Sources(y)) <= MaxSources
  <2>1. CASE s \in Sources(x)
    <3>1. Sources(y) = Sources(x)
      BY <1>3, <2>1
    <3> QED BY <3>1 DEF Sound
  <2>2. CASE s \notin Sources(x)
    <3>1. Cardinality(Sources(y)) = Cardinality(Sources(x)) + 1
      BY <1>3, <2>2, SourcesCounted, FS_AddElement
    <3>2. Cardinality(Sources(x)) < MaxSources /\ Cardinality(Sources(x)) \in Nat
      BY <2>2, SourcesCounted DEF TooManySources
    <3> QED BY <3>1, <3>2
  <2> QED BY <2>1, <2>2
<1>5. ASSUME NEW t \in Sources(y) \cap CostSlots
      PROVE  y.files[t].currency = y.currency
  <2>1. \A g \in Files(t) : g.currency \in Currencies
    BY <1>5 DEF Files
  <2>2. CASE t = s
    <3>1. f.currency \in Currencies
      BY <2>1, <2>2
    <3> QED BY <1>1, <2>2, <3>1 DEF Slots
  <2>3. CASE t # s
    <3>1. t \in Sources(x) /\ y.files[t] = x.files[t] /\ t \in Slots
      BY <1>1, <1>3, <1>5, <2>3 DEF Sources
    <3>2. x.files[t].currency = x.currency /\ x.currency \in Currencies
      <4>1. x.files[t] \in Files(t)
        BY <1>1, <3>1 DEF Sources
      <4> QED BY <1>5, <2>1, <3>1, <4>1 DEF Sound
    <3>3. y.currency = x.currency
      BY <1>1, <3>2 DEF CurrencyConflict
    <3> QED BY <3>1, <3>2, <3>3
  <2> QED BY <2>2, <2>3
<1> QED BY <1>4, <1>5 DEF Sound
-----------------------------------------------------------------------------
(* Steps that keep the invariant. *)

\* Datasets go, no request enters or leaves mutate; a new id may be minted.
LEMMA FrameStep ==
  ASSUME StoreIInv, StoreTypeOK',
         lock' = lock, seen' = seen, minted \subseteq minted',
         \A d \in Datasets : store'[d] \in {store[d], None},
         \A d \in Datasets, s \in Slots : accepted'[d][s] \in {accepted[d][s], None},
         \A c \in Clients : request'[c] = request[c] \/
           /\ request[c].at \notin Inside /\ request'[c].at \notin Inside
           /\ request'[c].at # "idle" => request'[c].dataset \in minted'
           /\ request'[c].at = "create_write" => request'[c].dataset \in Datasets \ minted,
         \A c, e \in Clients : request'[c] # request[c] /\ request'[e] # request[e] => c = e
  PROVE  StoreIInv'
<1> USE DEF StoreIInv
<1>1. \A c \in Clients : \A d : In(c, d)' <=> In(c, d)
  BY DEF In
<1>2. \A d \in Datasets : Fresh(d) => Fresh(d)'
  BY <1>1 DEF Fresh
<1>3. LockFollowsRequest'
  BY <1>1 DEF LockFollowsRequest, In
<1>4. AcceptedSourcesKept'
  BY DEF AcceptedSourcesKept, Present
<1>5. RequestsAreMinted'
  BY DEF RequestsAreMinted
<1>6. FreshIds'
  <2>1. \A d \in Datasets \ minted' : Fresh(d)'
    BY <1>2 DEF FreshIds
  <2>2. ASSUME NEW c \in Clients, request'[c].at = "create_write"
        PROVE  /\ Fresh(request[c].dataset)'
               /\ \A e \in Clients \ {c} : ~At(e, "create_write", request[c].dataset)'
    <3>1. CASE request'[c] = request[c]
      <4>1. request[c].dataset \in minted /\ request[c].dataset \in Datasets
        BY <2>2, <3>1 DEF RequestsAreMinted, StoreTypeOK
      <4>2. Fresh(request[c].dataset)'
        BY <1>2, <2>2, <3>1, <4>1 DEF FreshIds
      <4>3. \A e \in Clients \ {c} : ~At(e, "create_write", request[c].dataset)'
        BY <2>2, <3>1, <4>1 DEF FreshIds, At
      <4> QED BY <3>1, <4>2, <4>3
    <3>2. CASE request'[c] # request[c]
      <4>1. request'[c].dataset \in Datasets \ minted
        BY <2>2, <3>2
      <4>2. Fresh(request[c].dataset)'
        BY <1>2, <4>1 DEF FreshIds
      <4>3. \A e \in Clients \ {c} : request'[e] = request[e]
        BY <3>2
      <4>4. \A e \in Clients \ {c} : ~At(e, "create_write", request[c].dataset)'
        BY <4>1, <4>3 DEF RequestsAreMinted, At
      <4> QED BY <4>2, <4>4
    <3> QED BY <3>1, <3>2
  <2> QED BY <2>1, <2>2 DEF FreshIds
<1>7. RowsSound'
  <2> SUFFICES ASSUME NEW d \in Datasets, Present(d)'
               PROVE  (Sound(store[d]) /\ (store[d].sealed => HasCost(store[d])))'
    BY DEF RowsSound
  <2>1. store'[d] = store[d] /\ Present(d)
    BY DEF Present
  <2>2. Sound(store[d]) /\ (store[d].sealed => HasCost(store[d]))
    BY <2>1 DEF RowsSound
  <2> QED BY <2>1, <2>2
<1>8. CopiesFit'
  <2> SUFFICES ASSUME NEW c \in Clients
               PROVE  UploadFits(request[c])' /\ SealFits(request[c])'
    BY DEF CopiesFit
  <2>1. CASE request'[c] = request[c]
    <3>1. request[c] \in Requests /\ UploadFits(request[c]) /\ SealFits(request[c])
      BY DEF CopiesFit, StoreTypeOK
    <3>2. UploadFits(request[c])'
      BY <2>1, <3>1, UploadRequest DEF UploadFits, Sound, HoldsAccepted, Sources
    <3>3. SealFits(request[c])'
      BY <2>1, <3>1, SealRequest DEF SealFits, Sound, HasCost, HoldsAccepted, Sources
    <3> QED BY <3>2, <3>3
  <2>2. CASE request'[c] # request[c]
    <3>1. request'[c].at \notin Uploading /\ request'[c].at \notin Sealing
      BY <2>2 DEF Inside, Uploading, Sealing
    <3> QED BY <3>1 DEF UploadFits, SealFits
  <2> QED BY <2>1, <2>2
<1>9. SealGets'
  <2> SUFFICES ASSUME NEW c \in Clients, request'[c].at = "seal_get",
                      Present(request[c].dataset)'
               PROVE  HasCost(store[request[c].dataset])'
    BY DEF SealGets
  <2>1. request'[c] = request[c]
    BY DEF Inside
  <2>2. request[c].dataset \in Datasets
    BY <2>1, RequestDataset DEF StoreTypeOK
  <2>3. store'[request[c].dataset] = store[request[c].dataset]
    BY <2>1, <2>2 DEF Present
  <2> QED BY <2>1, <2>3 DEF SealGets, Present, HasCost, Sources
<1>10. SealedIsQuiet'
  BY <1>1 DEF SealedIsQuiet, Present
<1> QED BY <1>3, <1>4, <1>5, <1>6, <1>7, <1>8, <1>9, <1>10

\* Two requests are never inside mutate for one dataset.
LEMMA SoleInside ==
  ASSUME LockFollowsRequest, NEW d \in Datasets, NEW c \in Clients, NEW e \in Clients,
         In(c, d), In(e, d)
  PROVE  c = e
BY DEF LockFollowsRequest, In

\* An upload or a seal of a dataset that is there enters mutate.
LEMMA EnterStep ==
  ASSUME StoreIInv, StoreTypeOK', NEW c \in Clients, NEW d \in Datasets, NEW r,
         Idle(c), Live(d), ~store[d].sealed, Enter(d, c), GoTo(c, r),
         r.at \in Inside, r.dataset = d, UploadFits(r), SealFits(r),
         r.at = "seal_get" => HasCost(store[d]),
         store' = store, minted' = minted, accepted' = accepted, seen' = seen
  PROVE  StoreIInv'
<1> USE DEF StoreIInv
<1>1. /\ request'[c] = r /\ \A e \in Clients \ {c} : request'[e] = request[e]
      /\ request[c].at = "idle" /\ r.at # "idle" /\ r.at # "create_write"
      /\ \A e \in Clients : (In(e, d)' <=> e = c) /\ ~In(e, d)
      /\ \A e \in Clients : \A f : f # d => (In(e, f)' <=> In(e, f))
  BY DEF StoreTypeOK, Idle, GoTo, Enter, In, LockFollowsRequest, Inside
<1>2. d \in minted /\ Present(d) /\ seen[d] = {}
  <2>1. d \in minted /\ Present(d)
    BY DEF Live, Present, FreshIds, Fresh
  <2> QED BY <2>1 DEF SealedIsQuiet
<1>3. LockFollowsRequest'
  <2>1. lock'[d] = c /\ \A f \in Datasets \ {d} : lock'[f] = lock[f]
    BY DEF Enter, StoreTypeOK
  <2> QED BY <1>1, <2>1 DEF LockFollowsRequest, In
<1>4. AcceptedSourcesKept'
  BY DEF AcceptedSourcesKept, Present
<1>5. RequestsAreMinted'
  BY <1>1, <1>2 DEF RequestsAreMinted
<1>6. FreshIds'
  <2>1. \A f \in Datasets : f # d /\ Fresh(f) => Fresh(f)'
    BY <1>1 DEF Fresh
  <2>2. ~Fresh(d)
    BY <1>2 DEF Fresh, Present
  <2>3. \A f \in Datasets \ minted' : Fresh(f)'
    BY <1>2, <2>1 DEF FreshIds
  <2>4. ASSUME NEW e \in Clients, request'[e].at = "create_write"
        PROVE  /\ Fresh(request[e].dataset)'
               /\ \A f \in Clients \ {e} : ~At(f, "create_write", request[e].dataset)'
    <3>1. request'[e] = request[e] /\ request[e].dataset \in Datasets
      BY <1>1, <2>4 DEF RequestsAreMinted, StoreTypeOK
    <3>2. Fresh(request[e].dataset) /\ request[e].dataset # d
      BY <2>2, <2>4, <3>1 DEF FreshIds
    <3>3. Fresh(request[e].dataset)'
      BY <2>1, <3>1, <3>2
    <3>4. \A f \in Clients \ {e} : ~At(f, "create_write", request[e].dataset)'
      BY <1>1, <2>4, <3>1 DEF FreshIds, At
    <3> QED BY <3>3, <3>4
  <2> QED BY <2>3, <2>4 DEF FreshIds
<1>7. RowsSound'
  BY DEF RowsSound, Present
<1>8. CopiesFit'
  <2>1. UploadFits(r)' /\ SealFits(r)'
    BY DEF UploadFits, SealFits, HoldsAccepted
  <2>2. \A e \in Clients : UploadFits(request[e])' /\ SealFits(request[e])'
    BY <1>1, <2>1 DEF CopiesFit, UploadFits, SealFits, HoldsAccepted
  <2> QED BY <2>2 DEF CopiesFit
<1>9. SealGets'
  BY <1>1 DEF SealGets, Present
<1>10. SealedIsQuiet'
  BY <1>1, <1>2 DEF SealedIsQuiet, Present
<1> QED BY <1>3, <1>4, <1>5, <1>6, <1>7, <1>8, <1>9, <1>10

\* The request inside mutate goes on there.
LEMMA AdvanceStep ==
  ASSUME StoreIInv, StoreTypeOK', NEW c \in Clients, NEW d \in Datasets, NEW r,
         In(c, d), GoTo(c, r), r.at \in Inside \ {"seal_get"}, r.dataset = d,
         UploadFits(r), SealFits(r),
         store' = store, minted' = minted, lock' = lock, accepted' = accepted, seen' = seen
  PROVE  StoreIInv'
<1> USE DEF StoreIInv
<1>1. /\ request'[c] = r /\ \A e \in Clients \ {c} : request'[e] = request[e]
      /\ r.at # "idle" /\ r.at # "create_write" /\ request[c].at # "idle"
      /\ \A e \in Clients : \A f : In(e, f)' <=> In(e, f)
  BY DEF StoreTypeOK, GoTo, In, Inside
<1>2. d \in minted
  BY <1>1 DEF RequestsAreMinted, In
<1>3. LockFollowsRequest'
  BY <1>1 DEF LockFollowsRequest, In
<1>4. AcceptedSourcesKept'
  BY DEF AcceptedSourcesKept, Present
<1>5. RequestsAreMinted'
  BY <1>1, <1>2 DEF RequestsAreMinted
<1>6. FreshIds'
  <2>1. \A f \in Datasets : Fresh(f) => Fresh(f)'
    BY <1>1 DEF Fresh
  <2>2. \A f \in Datasets \ minted' : Fresh(f)'
    BY <2>1 DEF FreshIds
  <2>3. ASSUME NEW e \in Clients, request'[e].at = "create_write"
        PROVE  /\ Fresh(request[e].dataset)'
               /\ \A f \in Clients \ {e} : ~At(f, "create_write", request[e].dataset)'
    <3>1. request'[e] = request[e] /\ request[e].dataset \in Datasets
      BY <1>1, <2>3 DEF RequestsAreMinted, StoreTypeOK
    <3>2. Fresh(request[e].dataset)'
      BY <2>1, <2>3, <3>1 DEF FreshIds
    <3>3. \A f \in Clients \ {e} : ~At(f, "create_write", request[e].dataset)'
      BY <1>1, <2>3, <3>1 DEF FreshIds, At
    <3> QED BY <3>2, <3>3
  <2> QED BY <2>2, <2>3 DEF FreshIds
<1>7. RowsSound'
  BY DEF RowsSound, Present
<1>8. CopiesFit'
  <2>1. UploadFits(r)' /\ SealFits(r)'
    BY DEF UploadFits, SealFits, HoldsAccepted
  <2>2. \A e \in Clients : UploadFits(request[e])' /\ SealFits(request[e])'
    BY <1>1, <2>1 DEF CopiesFit, UploadFits, SealFits, HoldsAccepted
  <2> QED BY <2>2 DEF CopiesFit
<1>9. SealGets'
  BY <1>1 DEF SealGets, Present
<1>10. SealedIsQuiet'
  BY <1>1 DEF SealedIsQuiet, Present
<1> QED BY <1>3, <1>4, <1>5, <1>6, <1>7, <1>8, <1>9, <1>10

\* The request inside mutate is over.  The dataset is as it was, is gone, or is what the
\* request wrote.
LEMMA LeaveStep ==
  ASSUME StoreIInv, StoreTypeOK', NEW c \in Clients, NEW d \in Datasets,
         In(c, d), End(c), Leave(d), minted' = minted, seen' = seen,
         \A e \in Datasets \ {d} :
           store'[e] = store[e] /\ \A s \in Slots : accepted'[e][s] = accepted[e][s],
         store'[d] # None =>
           /\ Sound(store'[d]) /\ (store'[d].sealed => HasCost(store'[d]))
           /\ HoldsAccepted(store[d], d, {})'
  PROVE  StoreIInv'
<1> USE DEF StoreIInv
<1>1. /\ request'[c].at = "idle" /\ \A e \in Clients \ {c} : request'[e] = request[e]
      /\ request[c].at # "idle" /\ request[c].at # "create_write"
      /\ \A e \in Clients : ~In(e, d)' /\ (In(e, d) => e = c)
      /\ \A e \in Clients : \A f : f # d => (In(e, f)' <=> In(e, f))
  BY SoleInside DEF StoreTypeOK, GoTo, End, In, Inside
<1>2. d \in minted /\ seen[d] = {} /\ ~Fresh(d)
  BY <1>1 DEF RequestsAreMinted, SealedIsQuiet, Fresh, In
<1>3. LockFollowsRequest'
  <2>1. lock'[d] = None /\ \A f \in Datasets \ {d} : lock'[f] = lock[f]
    BY DEF Leave, StoreTypeOK
  <2> QED BY <1>1, <2>1 DEF LockFollowsRequest, In
<1>4. AcceptedSourcesKept'
  BY DEF AcceptedSourcesKept, Present, HoldsAccepted
<1>5. RequestsAreMinted'
  BY <1>1 DEF RequestsAreMinted
<1>6. FreshIds'
  <2>1. \A f \in Datasets : f # d /\ Fresh(f) => Fresh(f)'
    BY <1>1 DEF Fresh
  <2>2. \A f \in Datasets \ minted' : Fresh(f)'
    BY <1>2, <2>1 DEF FreshIds
  <2>3. ASSUME NEW e \in Clients, request'[e].at = "create_write"
        PROVE  /\ Fresh(request[e].dataset)'
               /\ \A f \in Clients \ {e} : ~At(f, "create_write", request[e].dataset)'
    <3>1. request'[e] = request[e] /\ request[e].dataset \in Datasets
      BY <1>1, <2>3 DEF RequestsAreMinted, StoreTypeOK
    <3>2. Fresh(request[e].dataset) /\ request[e].dataset # d
      BY <1>2, <2>3, <3>1 DEF FreshIds
    <3>3. Fresh(request[e].dataset)'
      BY <2>1, <3>1, <3>2
    <3>4. \A f \in Clients \ {e} : ~At(f, "create_write", request[e].dataset)'
      BY <1>1, <2>3, <3>1 DEF FreshIds, At
    <3> QED BY <3>3, <3>4
  <2> QED BY <2>2, <2>3 DEF FreshIds
<1>7. RowsSound'
  <2> SUFFICES ASSUME NEW e \in Datasets, Present(e)'
               PROVE  (Sound(store[e]) /\ (store[e].sealed => HasCost(store[e])))'
    BY DEF RowsSound
  <2>1. CASE e = d
    BY <2>1 DEF Present, Sound, HasCost, Sources
  <2>2. CASE e # d
    <3>1. store'[e] = store[e]
      BY <2>2
    <3> QED BY <3>1 DEF RowsSound, Present, Sound, HasCost, Sources
  <2> QED BY <2>1, <2>2
<1>8. CopiesFit'
  <2> SUFFICES ASSUME NEW e \in Clients
               PROVE  UploadFits(request[e])' /\ SealFits(request[e])'
    BY DEF CopiesFit
  <2>1. CASE e = c
    BY <1>1, <2>1 DEF UploadFits, SealFits, Uploading, Sealing
  <2>2. CASE e # c
    <3>1. request'[e] = request[e] /\ request[e] \in Requests
      BY <1>1, <2>2 DEF StoreTypeOK
    <3>2. request[e].at \in Uploading \cup Sealing =>
            request[e].dataset # d /\ request[e].dataset \in Datasets
      BY <1>1, <2>2, <3>1, UploadRequest, SealRequest DEF In, Inside, Uploading, Sealing
    <3>3. UploadFits(request[e])'
      <4> SUFFICES ASSUME request[e].at \in Uploading
                   PROVE  UploadFits(request[e])'
        BY <3>1 DEF UploadFits
      <4>1. /\ UploadFits(request[e])
            /\ \A s \in Slots : accepted'[request[e].dataset][s] = accepted[request[e].dataset][s]
        BY <3>2 DEF CopiesFit
      <4> QED BY <3>1, <4>1 DEF UploadFits, HoldsAccepted
    <3>4. SealFits(request[e])'
      <4> SUFFICES ASSUME request[e].at \in Sealing
                   PROVE  SealFits(request[e])'
        BY <3>1 DEF SealFits
      <4>1. /\ SealFits(request[e])
            /\ \A s \in Slots : accepted'[request[e].dataset][s] = accepted[request[e].dataset][s]
        BY <3>2 DEF CopiesFit
      <4>2. HoldsAccepted(request[e].copy, request[e].dataset, {})'
        BY <3>1, <4>1 DEF SealFits, HoldsAccepted
      <4> QED BY <3>1, <4>1, <4>2 DEF SealFits
    <3> QED BY <3>3, <3>4
  <2> QED BY <2>1, <2>2
<1>9. SealGets'
  <2> SUFFICES ASSUME NEW e \in Clients, request'[e].at = "seal_get",
                      Present(request[e].dataset)'
               PROVE  HasCost(store[request[e].dataset])'
    BY DEF SealGets
  <2>1. request'[e] = request[e] /\ request[e].dataset \in Datasets \ {d}
    BY <1>1, RequestDataset DEF StoreTypeOK, In, Inside
  <2>2. store'[request[e].dataset] = store[request[e].dataset]
    BY <2>1
  <2> QED BY <2>1, <2>2 DEF SealGets, Present, HasCost, Sources
<1>10. SealedIsQuiet'
  BY <1>1, <1>2 DEF SealedIsQuiet, Present
<1> QED BY <1>3, <1>4, <1>5, <1>6, <1>7, <1>8, <1>9, <1>10

\* An empty dataset is stored under an id nothing is known of.
LEMMA CreateWriteKeeps ==
  ASSUME StoreIInv, NEW c \in Clients, NEW d \in Datasets, CreateWrite(c, d)
  PROVE  StoreIInv'
<1> USE DEF StoreIInv
<1>1. /\ request'[c] = [at |-> "idle"] /\ \A e \in Clients \ {c} : request'[e] = request[e]
      /\ request[c].at = "create_write" /\ request[c].dataset = d
      /\ store'[d] = Empty /\ \A e \in Datasets \ {d} : store'[e] = store[e]
      /\ \A e \in Clients : \A f : In(e, f)' <=> In(e, f)
      /\ minted' = minted /\ lock' = lock /\ accepted' = accepted /\ seen' = seen
      /\ expired' = expired /\ deleted' = deleted
  BY DEF CreateWrite, At, StoreTypeOK, GoTo, End, In, Inside
<1>2. d \in minted /\ Fresh(d)
  BY <1>1 DEF RequestsAreMinted, FreshIds
<1>3. StoreTypeOK'
  <2>1. request' \in [Clients -> Requests] /\ store' \in [Datasets -> Contents \cup {None}]
    BY EmptyContents DEF CreateWrite, End, GoTo, StoreTypeOK, Requests
  <2> QED BY <1>1, <2>1 DEF StoreTypeOK
<1>4. LockFollowsRequest'
  BY <1>1 DEF LockFollowsRequest, In
<1>5. AcceptedSourcesKept'
  BY <1>1, <1>2 DEF AcceptedSourcesKept, Present, Fresh
<1>6. RequestsAreMinted'
  BY <1>1 DEF RequestsAreMinted
<1>7. FreshIds'
  <2>1. \A f \in Datasets : f # d /\ Fresh(f) => Fresh(f)'
    BY <1>1 DEF Fresh
  <2>2. \A f \in Datasets \ minted' : Fresh(f)'
    BY <1>1, <1>2, <2>1 DEF FreshIds
  <2>3. ASSUME NEW e \in Clients, request'[e].at = "create_write"
        PROVE  /\ Fresh(request[e].dataset)'
               /\ \A f \in Clients \ {e} : ~At(f, "create_write", request[e].dataset)'
    <3>1. e # c /\ request'[e] = request[e] /\ request[e].dataset \in Datasets
      BY <1>1, <2>3 DEF RequestsAreMinted, StoreTypeOK
    <3>2. Fresh(request[e].dataset) /\ request[e].dataset # d
      BY <1>1, <2>3, <3>1 DEF FreshIds, At
    <3>3. Fresh(request[e].dataset)'
      BY <2>1, <3>1, <3>2
    <3>4. \A f \in Clients \ {e} : ~At(f, "create_write", request[e].dataset)'
      BY <1>1, <2>3, <3>1 DEF FreshIds, At
    <3> QED BY <3>3, <3>4
  <2> QED BY <2>2, <2>3 DEF FreshIds
<1>8. RowsSound'
  <2> SUFFICES ASSUME NEW e \in Datasets, Present(e)'
               PROVE  (Sound(store[e]) /\ (store[e].sealed => HasCost(store[e])))'
    BY DEF RowsSound
  <2>1. CASE e = d
    BY <1>1, <2>1, EmptyContents DEF Sound, Sources
  <2>2. CASE e # d
    <3>1. store'[e] = store[e]
      BY <1>1, <2>2
    <3> QED BY <3>1 DEF RowsSound, Present, Sound, HasCost, Sources
  <2> QED BY <2>1, <2>2
<1>9. CopiesFit'
  <2>1. \A e \in Clients : UploadFits(request[e])' /\ SealFits(request[e])'
    BY <1>1 DEF CopiesFit, UploadFits, SealFits, HoldsAccepted, Uploading, Sealing
  <2> QED BY <2>1 DEF CopiesFit
<1>10. SealGets'
  <2> SUFFICES ASSUME NEW e \in Clients, request'[e].at = "seal_get",
                      Present(request[e].dataset)'
               PROVE  HasCost(store[request[e].dataset])'
    BY DEF SealGets
  <2>1. request'[e] = request[e] /\ request[e].dataset \in Datasets \ {d}
    BY <1>1, <1>2, RequestDataset DEF StoreTypeOK, In, Inside, Fresh
  <2>2. store'[request[e].dataset] = store[request[e].dataset]
    BY <1>1, <2>1
  <2> QED BY <2>1, <2>2 DEF SealGets, Present, HasCost, Sources
<1>11. SealedIsQuiet'
  BY <1>1, <1>2, EmptyContents DEF SealedIsQuiet, Present, Fresh
<1> QED BY <1>3, <1>4, <1>5, <1>6, <1>7, <1>8, <1>9, <1>10, <1>11
-----------------------------------------------------------------------------
(* Every action is one of these steps. *)

LEMMA RequestsMade ==
  /\ [at |-> "idle"] \in Requests
  /\ \A d \in Datasets :
       /\ [at |-> "create_write", dataset |-> d] \in Requests
       /\ [at |-> "seal_get", dataset |-> d] \in Requests
       /\ \A b \in BOOLEAN : [at |-> "delete", dataset |-> d, found |-> b] \in Requests
       /\ \A x \in Contents :
            /\ [at |-> "seal_check", dataset |-> d, copy |-> x] \in Requests
            /\ \A s \in Slots : \A f \in Files(s) :
                 [at |-> "upload_check", dataset |-> d, slot |-> s, file |-> f, copy |-> x]
                   \in Requests
BY DEF Requests

LEMMA Forgotten ==
  ASSUME NEW ids, Forget(ids)
  PROVE  /\ \A d \in Datasets : store'[d] \in {store[d], None}
         /\ store \in [Datasets -> Contents \cup {None}]
              => store' \in [Datasets -> Contents \cup {None}]
BY DEF Forget

LEMMA Going ==
  ASSUME StoreTypeOK, NEW c \in Clients, NEW r \in Requests, GoTo(c, r)
  PROVE  /\ request' \in [Clients -> Requests]
         /\ request'[c] = r /\ \A e \in Clients \ {c} : request'[e] = request[e]
BY DEF StoreTypeOK, GoTo

LEMMA CreateCheckKeeps ==
  ASSUME StoreIInv, NEW c \in Clients, NEW d \in Datasets, CreateCheck(c, d)
  PROVE  StoreIInv'
<1> USE DEF StoreIInv
<1>1. PICK r \in {[at |-> "idle"], [at |-> "create_write", dataset |-> d]} : GoTo(c, r)
  BY DEF CreateCheck, End
<1>2. r \in Requests
  BY RequestsMade
<1>3. request' \in [Clients -> Requests] /\ request'[c] = r
        /\ \A e \in Clients \ {c} : request'[e] = request[e]
  BY <1>1, <1>2, Going
<1>4. /\ Forget(expired) /\ minted' = minted \cup {d} /\ d \notin minted /\ request[c].at = "idle"
      /\ expired' = expired /\ lock' = lock /\ accepted' = accepted /\ deleted' = deleted
      /\ seen' = seen
  BY DEF CreateCheck, Idle
<1>5. StoreTypeOK'
  BY <1>3, <1>4, Forgotten DEF StoreTypeOK
<1>6. \A e \in Datasets : store'[e] \in {store[e], None}
  BY <1>4, Forgotten
<1>7. \A e \in Clients : request'[e] = request[e] \/
        /\ request[e].at \notin Inside /\ request'[e].at \notin Inside
        /\ request'[e].at # "idle" => request'[e].dataset \in minted'
        /\ request'[e].at = "create_write" => request'[e].dataset \in Datasets \ minted
  BY <1>3, <1>4 DEF Inside
<1> QED BY <1>3, <1>4, <1>5, <1>6, <1>7, FrameStep

LEMMA ExpireKeeps ==
  ASSUME StoreIInv, NEW d \in Datasets, Expire(d)
  PROVE  StoreIInv'
<1>1. StoreTypeOK'
  BY DEF StoreIInv, StoreTypeOK, Expire
<1> QED BY <1>1, FrameStep DEF Expire

LEMMA GetExpiredKeeps ==
  ASSUME StoreIInv, NEW d \in Datasets, GetExpired(d)
  PROVE  StoreIInv'
<1>1. StoreTypeOK' /\ \A e \in Datasets : store'[e] \in {store[e], None}
  BY Forgotten DEF StoreIInv, StoreTypeOK, GetExpired
<1> QED BY <1>1, FrameStep DEF GetExpired

LEMMA DeleteLookKeeps ==
  ASSUME StoreIInv, NEW c \in Clients, NEW d \in Datasets, DeleteLook(c, d)
  PROVE  StoreIInv'
<1> USE DEF StoreIInv
<1>1. PICK b \in BOOLEAN : GoTo(c, [at |-> "delete", dataset |-> d, found |-> b])
  BY DEF DeleteLook, Present
<1>2. /\ request' \in [Clients -> Requests]
      /\ request'[c] = [at |-> "delete", dataset |-> d, found |-> b]
      /\ \A e \in Clients \ {c} : request'[e] = request[e]
  BY <1>1, RequestsMade, Going
<1>3. StoreTypeOK'
  BY <1>2 DEF StoreTypeOK, DeleteLook
<1>4. \A e \in Clients : request'[e] = request[e] \/
        /\ request[e].at \notin Inside /\ request'[e].at \notin Inside
        /\ request'[e].at # "idle" => request'[e].dataset \in minted'
        /\ request'[e].at = "create_write" => request'[e].dataset \in Datasets \ minted
  BY <1>2 DEF DeleteLook, Idle, Inside
<1> QED BY <1>2, <1>3, <1>4, FrameStep DEF DeleteLook

LEMMA DeleteKeeps ==
  ASSUME StoreIInv, NEW c \in Clients, NEW d \in Datasets, Delete(c, d)
  PROVE  StoreIInv'
<1> USE DEF StoreIInv
<1>1. /\ request' \in [Clients -> Requests] /\ request'[c] = [at |-> "idle"]
      /\ \A e \in Clients \ {c} : request'[e] = request[e]
      /\ request[c].at = "delete" /\ request[c].dataset = d
  BY RequestsMade, Going DEF Delete, End, At
<1>2. /\ \A e \in Datasets : store'[e] \in {store[e], None}
      /\ store' \in [Datasets -> Contents \cup {None}]
  BY Forgotten DEF Delete, StoreTypeOK
<1>3. /\ accepted' \in [Datasets -> [Slots -> (UNION {Files(s) : s \in Slots}) \cup {None}]]
      /\ \A e \in Datasets, s \in Slots : accepted'[e][s] \in {accepted[e][s], None}
  BY DEF Delete, StoreTypeOK
<1>4. d \in minted /\ deleted' \subseteq minted
  BY <1>1 DEF RequestsAreMinted, StoreTypeOK, Delete
<1>5. StoreTypeOK'
  BY <1>1, <1>2, <1>3, <1>4 DEF StoreTypeOK, Delete
<1>6. \A e \in Clients : request'[e] = request[e] \/
        /\ request[e].at \notin Inside /\ request'[e].at \notin Inside
        /\ request'[e].at # "idle" => request'[e].dataset \in minted'
        /\ request'[e].at = "create_write" => request'[e].dataset \in Datasets \ minted
  BY <1>1 DEF Inside
<1> QED BY <1>1, <1>2, <1>3, <1>5, <1>6, FrameStep DEF Delete

\* The lock taken or given back is a lock still.
LEMMA Locking ==
  ASSUME StoreTypeOK, NEW c \in Clients, NEW d \in Datasets, Enter(d, c) \/ Leave(d)
  PROVE  lock' \in [Datasets -> Clients \cup {None}]
BY DEF StoreTypeOK, Enter, Leave

LEMMA UploadReadKeeps ==
  ASSUME StoreIInv, NEW c \in Clients, NEW d \in Datasets, NEW s \in Slots, NEW f \in Files(s),
         UploadRead(c, d, s, f)
  PROVE  StoreIInv'
<1> USE DEF StoreIInv
<1> DEFINE x == WithSource(store[d], s, f)
           r == [at |-> "upload_check", dataset |-> d, slot |-> s, file |-> f, copy |-> x]
<1>1. /\ Idle(c) /\ Live(d) /\ ~store[d].sealed /\ Enter(d, c) /\ GoTo(c, r)
      /\ ~CurrencyConflict(store[d], f) /\ ~TooManySources(store[d], s)
      /\ store' = store /\ expired' = expired /\ minted' = minted /\ accepted' = accepted
      /\ deleted' = deleted /\ seen' = seen
  BY DEF UploadRead
<1>2. store[d] \in Contents /\ Sound(store[d])
  BY <1>1 DEF StoreTypeOK, RowsSound, Live, Present
<1>3. /\ x \in Contents /\ x.files = [store[d].files EXCEPT ![s] = f] /\ ~x.sealed /\ Sound(x)
      /\ DOMAIN store[d].files = Slots
  BY <1>1, <1>2, WithSourceContents, WithSourceSound, ContentsFields
<1>4. UploadFits(r)
  BY <1>1, <1>3 DEF UploadFits, HoldsAccepted, AcceptedSourcesKept, Live
<1>5. SealFits(r) /\ r.at \in Inside /\ r.at # "seal_get"
  BY DEF SealFits, Sealing, Inside
<1>6. request' \in [Clients -> Requests]
  BY <1>1, <1>3, RequestsMade, Going
<1>7. StoreTypeOK'
  BY <1>1, <1>6, Locking DEF StoreTypeOK
<1> QED BY <1>1, <1>4, <1>5, <1>7, EnterStep

LEMMA SealReadKeeps ==
  ASSUME StoreIInv, NEW c \in Clients, NEW d \in Datasets, SealRead(c, d)
  PROVE  StoreIInv'
<1> USE DEF StoreIInv
<1> DEFINE r == [at |-> "seal_get", dataset |-> d]
<1>1. /\ Idle(c) /\ Live(d) /\ ~store[d].sealed /\ HasCost(store[d]) /\ Enter(d, c) /\ GoTo(c, r)
      /\ store' = store /\ expired' = expired /\ minted' = minted /\ accepted' = accepted
      /\ deleted' = deleted /\ seen' = seen
  BY DEF SealRead
<1>2. UploadFits(r) /\ SealFits(r) /\ r.at \in Inside
  BY DEF UploadFits, SealFits, Uploading, Sealing, Inside
<1>3. request' \in [Clients -> Requests]
  BY <1>1, RequestsMade, Going
<1>4. StoreTypeOK'
  BY <1>1, <1>3, Locking DEF StoreTypeOK
<1> QED BY <1>1, <1>2, <1>4, EnterStep

\* A request that ends without a write.
LEMMA RefusalKeeps ==
  ASSUME StoreIInv, NEW c \in Clients, NEW d \in Datasets, In(c, d), End(c), Leave(d),
         NEW ids, store' = store \/ Forget(ids \cap {d}),
         UNCHANGED <<expired, minted, accepted, deleted, seen>>
  PROVE  StoreIInv'
<1> USE DEF StoreIInv
<1>1. \A e \in Datasets : store'[e] \in {store[e], None} /\ (e # d => store'[e] = store[e])
  BY DEF Forget
<1>2. StoreTypeOK'
  <2>1. store' \in [Datasets -> Contents \cup {None}]
    BY Forgotten DEF StoreTypeOK
  <2>2. request' \in [Clients -> Requests]
    BY RequestsMade, Going DEF End
  <2> QED BY <2>1, <2>2, Locking DEF StoreTypeOK
<1>3. store'[d] # None =>
        /\ Sound(store'[d]) /\ (store'[d].sealed => HasCost(store'[d]))
        /\ HoldsAccepted(store[d], d, {})'
  BY <1>1 DEF RowsSound, Present, AcceptedSourcesKept, HoldsAccepted
<1> QED BY <1>1, <1>2, <1>3, LeaveStep

LEMMA UploadCheckKeeps ==
  ASSUME StoreIInv, NEW c \in Clients, NEW d \in Datasets, UploadCheck(c, d)
  PROVE  StoreIInv'
<1> USE DEF StoreIInv
<1>1. /\ At(c, "upload_check", d) /\ Check(c, d, "upload_write") /\ store' = store
      /\ expired' = expired /\ minted' = minted /\ accepted' = accepted
      /\ deleted' = deleted /\ seen' = seen
  BY DEF UploadCheck
<1>2. In(c, d) /\ request[c] \in Requests /\ request[c].at \in Uploading
  BY <1>1 DEF In, At, Inside, Uploading, StoreTypeOK
<1>3. CASE End(c) /\ Leave(d)
  BY <1>1, <1>2, <1>3, RefusalKeeps
<1>4. CASE GoTo(c, [request[c] EXCEPT !.at = "upload_write"]) /\ lock' = lock
  <2>1. PICK r : r = [request[c] EXCEPT !.at = "upload_write"]
    OBVIOUS
  <2>2. /\ r \in Requests /\ r.at = "upload_write" /\ r.dataset = d
        /\ r.copy = request[c].copy /\ r.slot = request[c].slot /\ r.file = request[c].file
    <3>1. r \in Requests
      BY <1>2, <2>1, UploadRequest DEF Uploading
    <3>2. r = [at |-> "upload_write", dataset |-> request[c].dataset, slot |-> request[c].slot,
               file |-> request[c].file, copy |-> request[c].copy]
      BY <1>2, <2>1, UploadRequest DEF Uploading
    <3> QED BY <1>1, <3>1, <3>2 DEF At
  <2>3. UploadFits(r) /\ SealFits(r) /\ r.at \in Inside \ {"seal_get"}
    <3>1. UploadFits(request[c]) /\ request[c].dataset = d
      BY <1>1 DEF CopiesFit, At
    <3> QED BY <1>2, <2>2, <3>1 DEF UploadFits, SealFits, Sealing, Inside, HoldsAccepted
  <2>4. GoTo(c, r)
    BY <1>4, <2>1
  <2>5. StoreTypeOK'
    BY <1>1, <1>4, <2>2, <2>4, Going DEF StoreTypeOK
  <2> QED BY <1>1, <1>2, <1>4, <2>2, <2>3, <2>4, <2>5, AdvanceStep
<1> QED BY <1>1, <1>3, <1>4 DEF Check

LEMMA SealCheckKeeps ==
  ASSUME StoreIInv, NEW c \in Clients, NEW d \in Datasets, SealCheck(c, d)
  PROVE  StoreIInv'
<1> USE DEF StoreIInv
<1>1. /\ At(c, "seal_check", d) /\ Check(c, d, "seal_write") /\ store' = store
      /\ expired' = expired /\ minted' = minted /\ accepted' = accepted
      /\ deleted' = deleted /\ seen' = seen
  BY DEF SealCheck
<1>2. In(c, d) /\ request[c] \in Requests /\ request[c].at \in Sealing
  BY <1>1 DEF In, At, Inside, Sealing, StoreTypeOK
<1>3. CASE End(c) /\ Leave(d)
  BY <1>1, <1>2, <1>3, RefusalKeeps
<1>4. CASE GoTo(c, [request[c] EXCEPT !.at = "seal_write"]) /\ lock' = lock
  <2>1. PICK r : r = [request[c] EXCEPT !.at = "seal_write"]
    OBVIOUS
  <2>2. /\ r \in Requests /\ r.at = "seal_write" /\ r.dataset = d
        /\ r.copy = request[c].copy
    BY <1>1, <1>2, <2>1, SealRequest DEF Sealing, At
  <2>3. UploadFits(r) /\ SealFits(r) /\ r.at \in Inside \ {"seal_get"}
    <3>1. SealFits(request[c]) /\ request[c].dataset = d
      BY <1>1 DEF CopiesFit, At
    <3> QED BY <1>2, <2>2, <3>1 DEF UploadFits, SealFits, Uploading, Inside, HoldsAccepted
  <2>4. GoTo(c, r)
    BY <1>4, <2>1
  <2>5. StoreTypeOK'
    BY <1>1, <1>4, <2>2, <2>4, Going DEF StoreTypeOK
  <2> QED BY <1>1, <1>2, <1>4, <2>2, <2>3, <2>4, <2>5, AdvanceStep
<1> QED BY <1>1, <1>3, <1>4 DEF Check

LEMMA UploadWriteKeeps ==
  ASSUME StoreIInv, NEW c \in Clients, NEW d \in Datasets, UploadWrite(c, d)
  PROVE  StoreIInv'
<1> USE DEF StoreIInv
<1>1. PICK r \in Requests : r = request[c]
  BY DEF StoreTypeOK
<1>2. /\ r.at = "upload_write" /\ r.dataset = d /\ End(c) /\ Leave(d)
      /\ store' = [store EXCEPT ![d] = r.copy]
      /\ accepted' = [accepted EXCEPT ![d][r.slot] = r.file]
      /\ expired' = expired /\ minted' = minted /\ deleted' = deleted /\ seen' = seen
  BY <1>1 DEF UploadWrite, At
<1>3. In(c, d) /\ UploadFits(r) /\ r.slot \in Slots /\ r.file \in Files(r.slot) /\ r.copy \in Contents
  BY <1>1, <1>2, UploadRequest DEF In, Inside, Uploading, CopiesFit
<1>4. /\ store' \in [Datasets -> Contents \cup {None}] /\ store'[d] = r.copy
      /\ \A e \in Datasets \ {d} : store'[e] = store[e]
  BY <1>2, <1>3 DEF StoreTypeOK
<1>5. /\ accepted' \in [Datasets -> [Slots -> (UNION {Files(s) : s \in Slots}) \cup {None}]]
      /\ accepted'[d][r.slot] = r.file
      /\ \A s \in Slots \ {r.slot} : accepted'[d][s] = accepted[d][s]
      /\ \A e \in Datasets \ {d} : \A s \in Slots : accepted'[e][s] = accepted[e][s]
  BY <1>2, <1>3 DEF StoreTypeOK
<1>6. StoreTypeOK'
  <2>1. request' \in [Clients -> Requests]
    BY <1>2, RequestsMade, Going DEF End
  <2> QED BY <1>2, <1>4, <1>5, <2>1, Locking DEF StoreTypeOK
<1>7. Sound(store'[d]) /\ (store'[d].sealed => HasCost(store'[d])) /\ HoldsAccepted(store[d], d, {})'
  BY <1>2, <1>3, <1>4, <1>5 DEF UploadFits, Uploading, HoldsAccepted
<1> QED BY <1>2, <1>3, <1>4, <1>5, <1>6, <1>7, LeaveStep

LEMMA SealWriteKeeps ==
  ASSUME StoreIInv, NEW c \in Clients, NEW d \in Datasets, SealWrite(c, d)
  PROVE  StoreIInv'
<1> USE DEF StoreIInv
<1>1. PICK r \in Requests : r = request[c]
  BY DEF StoreTypeOK
<1>2. /\ r.at = "seal_write" /\ r.dataset = d /\ End(c) /\ Leave(d)
      /\ store' = [store EXCEPT ![d] = r.copy] /\ accepted' = accepted
      /\ expired' = expired /\ minted' = minted /\ deleted' = deleted /\ seen' = seen
  BY <1>1 DEF SealWrite, At
<1>3. In(c, d) /\ SealFits(r) /\ r.copy \in Contents
  BY <1>1, <1>2, SealRequest DEF In, Inside, Sealing, CopiesFit
<1>4. /\ store' \in [Datasets -> Contents \cup {None}] /\ store'[d] = r.copy
      /\ \A e \in Datasets \ {d} : store'[e] = store[e]
  BY <1>2, <1>3 DEF StoreTypeOK
<1>5. StoreTypeOK'
  <2>1. request' \in [Clients -> Requests]
    BY <1>2, RequestsMade, Going DEF End
  <2> QED BY <1>2, <1>4, <2>1, Locking DEF StoreTypeOK
<1>6. Sound(store'[d]) /\ (store'[d].sealed => HasCost(store'[d])) /\ HoldsAccepted(store[d], d, {})'
  BY <1>2, <1>3, <1>4 DEF SealFits, Sealing, HoldsAccepted
<1> QED BY <1>2, <1>3, <1>4, <1>5, <1>6, LeaveStep

LEMMA SealGetKeeps ==
  ASSUME StoreIInv, NEW c \in Clients, NEW d \in Datasets, SealGet(c, d)
  PROVE  StoreIInv'
<1> USE DEF StoreIInv
<1>1. /\ request[c].at = "seal_get" /\ request[c].dataset = d /\ In(c, d)
      /\ expired' = expired /\ minted' = minted /\ accepted' = accepted
      /\ deleted' = deleted /\ seen' = seen
  BY DEF SealGet, At, In, Inside
<1>2. CASE Live(d) /\ ~store[d].sealed
  <2> DEFINE x == Sealed(store[d])
             r == [at |-> "seal_check", dataset |-> d, copy |-> x]
  <2>1. GoTo(c, r) /\ store' = store /\ lock' = lock
    BY <1>2 DEF SealGet
  <2>2. store[d] \in Contents /\ Sound(store[d]) /\ HasCost(store[d])
    BY <1>1, <1>2 DEF StoreTypeOK, RowsSound, SealGets, Live, Present
  <2>3. x \in Contents /\ x.files = store[d].files /\ x.currency = store[d].currency /\ x.sealed
    BY <2>2, SealedContents
  <2>4. Sound(x) /\ HasCost(x)
    BY <2>2, <2>3 DEF Sound, HasCost, Sources
  <2>5. UploadFits(r) /\ SealFits(r) /\ r.at \in Inside \ {"seal_get"}
    BY <1>2, <2>3, <2>4
       DEF UploadFits, SealFits, Uploading, Inside, HoldsAccepted, AcceptedSourcesKept, Live
  <2>6. StoreTypeOK'
    <3>1. request' \in [Clients -> Requests]
      BY <2>1, <2>3, RequestsMade, Going
    <3> QED BY <1>1, <2>1, <3>1 DEF StoreTypeOK
  <2> QED BY <1>1, <2>1, <2>5, <2>6, AdvanceStep
<1>3. CASE ~(Live(d) /\ ~store[d].sealed)
  <2>1. End(c) /\ Leave(d) /\ Forget(expired \cap {d})
    <3>1. expired \cap {d} = {d} \cap expired
      OBVIOUS
    <3> QED BY <1>3, <3>1 DEF SealGet
  <2> QED BY <1>1, <2>1, RefusalKeeps
<1> QED BY <1>2, <1>3

LEMMA ReadKeeps ==
  ASSUME StoreIInv, NEW d \in Datasets, Read(d)
  PROVE  StoreIInv'
<1> USE DEF StoreIInv
<1>1. /\ Present(d) /\ store[d].sealed /\ store[d] \in Contents
      /\ seen'[d] = seen[d] \cup {store[d]} /\ \A e \in Datasets \ {d} : seen'[e] = seen[e]
      /\ store' = store /\ expired' = expired /\ minted' = minted /\ lock' = lock
      /\ request' = request /\ accepted' = accepted /\ deleted' = deleted
  BY DEF Read, Live, Present, StoreTypeOK
<1>2. StoreTypeOK'
  <2>1. seen' \in [Datasets -> SUBSET Contents]
    BY <1>1 DEF StoreTypeOK, Read
  <2> QED BY <1>1, <2>1 DEF StoreTypeOK
<1>3. LockFollowsRequest' /\ AcceptedSourcesKept' /\ RequestsAreMinted' /\ RowsSound' /\ SealGets'
  BY <1>1 DEF LockFollowsRequest, AcceptedSourcesKept, RequestsAreMinted, RowsSound, SealGets, Present
<1>4. CopiesFit'
  BY <1>1 DEF CopiesFit, UploadFits, SealFits, HoldsAccepted
<1>5. FreshIds'
  <2>1. \A e \in Datasets : Fresh(e) => Fresh(e)'
    BY <1>1 DEF Fresh, Present, In
  <2>2. \A e \in Datasets \ minted' : Fresh(e)'
    BY <1>1, <2>1 DEF FreshIds
  <2>3. ASSUME NEW c \in Clients, request'[c].at = "create_write"
        PROVE  /\ Fresh(request[c].dataset)'
               /\ \A e \in Clients \ {c} : ~At(e, "create_write", request[c].dataset)'
    <3>1. request[c].dataset \in Datasets
      BY <1>1, <2>3, RequestDataset DEF StoreTypeOK
    <3> QED BY <1>1, <2>1, <2>3, <3>1 DEF FreshIds, At
  <2> QED BY <2>2, <2>3 DEF FreshIds
<1>6. SealedIsQuiet'
  BY <1>1 DEF SealedIsQuiet, Present, In
<1> QED BY <1>2, <1>3, <1>4, <1>5, <1>6

LEMMA InitStoreIInv == StoreInit => StoreIInv
<1> SUFFICES ASSUME StoreInit PROVE StoreIInv
  OBVIOUS
<1>1. StoreTypeOK
  BY RequestsMade DEF StoreInit, StoreTypeOK
<1>2. LockFollowsRequest
  BY DEF StoreInit, LockFollowsRequest, Inside
<1>3. AcceptedSourcesKept /\ RequestsAreMinted /\ RowsSound
  BY DEF StoreInit, AcceptedSourcesKept, RequestsAreMinted, RowsSound, Present
<1>4. FreshIds
  BY DEF StoreInit, FreshIds, Fresh, In, Inside
<1>5. CopiesFit /\ SealGets
  BY DEF StoreInit, CopiesFit, UploadFits, SealFits, Uploading, Sealing, SealGets
<1>6. SealedIsQuiet
  BY DEF StoreInit, SealedIsQuiet, Present
<1> QED BY <1>1, <1>2, <1>3, <1>4, <1>5, <1>6 DEF StoreIInv

LEMMA NextStoreIInv == StoreIInv /\ [StoreNext]_storeVars => StoreIInv'
<1> SUFFICES ASSUME StoreIInv, [StoreNext]_storeVars PROVE StoreIInv'
  OBVIOUS
<1>1. CASE UNCHANGED storeVars
  <2>1. StoreTypeOK'
    BY <1>1 DEF storeVars, StoreIInv, StoreTypeOK
  <2> QED BY <1>1, <2>1, FrameStep DEF storeVars
<1>2. ASSUME NEW d \in Datasets, Expire(d) \/ GetExpired(d) \/ Read(d)
      PROVE  StoreIInv'
  BY <1>2, ExpireKeeps, GetExpiredKeeps, ReadKeeps
<1>3. ASSUME NEW c \in Clients, NEW d \in Datasets,
             \/ \E s \in Slots : \E f \in Files(s) : UploadRead(c, d, s, f)
             \/ CreateCheck(c, d) \/ SealRead(c, d) \/ DeleteLook(c, d)
      PROVE  StoreIInv'
  BY <1>3, UploadReadKeeps, CreateCheckKeeps, SealReadKeeps, DeleteLookKeeps
<1>4. ASSUME NEW c \in Clients, Continue(c)
      PROVE  StoreIInv'
  BY <1>4, CreateWriteKeeps, UploadCheckKeeps, UploadWriteKeeps, SealGetKeeps, SealCheckKeeps,
     SealWriteKeeps, DeleteKeeps DEF Continue
<1> QED BY <1>1, <1>2, <1>3, <1>4 DEF StoreNext

LEMMA StoreInvariance == StoreSpec => []StoreIInv
BY InitStoreIInv, NextStoreIInv, PTL DEF StoreSpec
-----------------------------------------------------------------------------
\* Datasets and requests are of their types, whatever overlaps.
THEOREM DatasetTypesCorrect == StoreSpec => []StoreTypeOK
<1>1. StoreIInv => StoreTypeOK
  BY DEF StoreIInv
<1> QED BY <1>1, StoreInvariance, PTL

\* store.py:143: a lock per dataset admits one upload or seal at a time, and every way
\* out of mutate gives it back.
THEOREM LocksFollowRequests == StoreSpec => []LockFollowsRequest
<1>1. StoreIInv => LockFollowsRequest
  BY DEF StoreIInv
<1> QED BY <1>1, StoreInvariance, PTL

\* assembly.py: an accepted upload is in the dataset as long as that is there.
THEOREM AcceptedSourcesAreKept == StoreSpec => []AcceptedSourcesKept
<1>1. StoreIInv => AcceptedSourcesKept
  BY DEF StoreIInv
<1> QED BY <1>1, StoreInvariance, PTL

\* store.py: all the reads of a sealed dataset see the same files.
THEOREM ReadersOfSealedAgree == StoreSpec => []ReadersAgree
<1>1. StoreIInv => ReadersAgree
  <2> SUFFICES ASSUME StoreIInv, NEW d \in Datasets PROVE Cardinality(seen[d]) <= 1
    BY DEF ReadersAgree
  <2>1. CASE seen[d] = {}
    BY <2>1, FS_EmptySet
  <2>2. CASE seen[d] # {}
    <3>1. PICK x \in seen[d] : TRUE
      BY <2>2
    <3>2. seen[d] = {x}
      BY DEF StoreIInv, SealedIsQuiet
    <3> QED BY <3>2, FS_Singleton
  <2> QED BY <2>1, <2>2
<1> QED BY <1>1, StoreInvariance, PTL

\* assembly.py: a sealed dataset has a cost export in one currency, and no more sources
\* than allowed.
THEOREM SealedDatasetsRun == StoreSpec => []SealedIsRunnable
<1>1. StoreIInv => SealedIsRunnable
  BY DEF StoreIInv, SealedIsRunnable, RowsSound, Sound
<1> QED BY <1>1, StoreInvariance, PTL
=============================================================================
