-------------------------- MODULE CostPipelineProofs --------------------------
(***************************************************************************)
(* What holds of a report and of the costs it is made from, for any data,  *)
(* callers, periods and limits of the cache.                               *)
(*                                                                         *)
(* One fetch per window: the callers at one lock stand in a line, and only *)
(* the first one fetches; while nothing was evicted or expired under a     *)
(* waiting caller, all callers for a window are at the one lock its key    *)
(* has, and nothing is kept for a window that is being fetched.            *)
(*                                                                         *)
(* Cited rules are in force: the inputs are bills with figures and dates,  *)
(* whatever source they went through, so that the date a finding is read   *)
(* on is one that rules can be compared with.                              *)
(*                                                                         *)
(* Scores stay below the ceiling of their playbook: sums over sets, by     *)
(* induction on the subsets of a finite set.                               *)
(*                                                                         *)
(* Published findings have support: a check takes away or tones down, so   *)
(* that a later one does not undo what an earlier one saw to; and what the *)
(* rules wrote is kept, as none of the checks has anything against it.     *)
(*                                                                         *)
(* Live answers are of one moment: by induction over the lines a provider  *)
(* had reported, its answer has their money; a response that is kept is of *)
(* a moment between when it was asked for and when it came, and no more    *)
(* than its last day is cut off an answer.                                 *)
(***************************************************************************)
EXTENDS CostPipeline, FiniteSetTheorems, SequenceTheorems, WellFoundedInduction, TLAPS

CallFields == DOMAIN NotAsked

KeyOf(c) == CacheKey(calls[c].window)

LiveTypes ==
  /\ now \in Nat /\ strained \in BOOLEAN
  /\ DOMAIN calls = Callers /\ DOMAIN ahead = Callers
  /\ \A c \in Callers : DOMAIN calls[c] = CallFields
  /\ \A c \in Callers : Fetching(c) => calls[c].started \in Nat
  /\ \A k \in DOMAIN cache : cache[k].expires \in Nat

\* Whoever fetches has nobody in front of it, and of two at one lock one is in front.
FetchingIsFirst == \A c \in Callers : Fetching(c) => ahead[c] = {}
LinesAreTotal ==
  \A c, d \in AtALock : c # d /\ calls[c].lock = calls[d].lock => c \in ahead[d] \/ d \in ahead[c]

\* The lock a caller is at is the one its key has now.
LocksAreCurrent ==
  ~strained => \A c \in AtALock : KeyOf(c) \in DOMAIN locks /\ locks[KeyOf(c)] = calls[c].lock

\* What is kept for a caller at a lock has not expired,
KeptIsFresh ==
  ~strained => \A c \in AtALock : KeyOf(c) \in DOMAIN cache => cache[KeyOf(c)].expires > now

\* and nothing is kept for one that fetches.
FetchedIsNotKept == ~strained => \A c \in Callers : Fetching(c) => KeyOf(c) \notin DOMAIN cache

FetchIInv ==
  /\ LiveTypes
  /\ FetchingIsFirst /\ LinesAreTotal
  /\ LocksAreCurrent /\ KeptIsFresh /\ FetchedIsNotKept

USE LiveAssumption
-----------------------------------------------------------------------------
(* What a call becomes. *)

LEMMA AnsweredIsOver ==
  ASSUME NEW call, NEW rows
  PROVE  Answered(call, rows).stage = "answered" /\ DOMAIN Answered(call, rows) = CallFields
<1> QED BY DEF Answered, NotAsked, CallFields

LEMMA OverIsOver == Over.stage = "over" /\ DOMAIN Over = CallFields
<1> QED BY DEF Over, NotAsked, CallFields

\* A caller that gets its lock fetches only what is not kept, or no longer fresh.
LEMMA EnteredCall ==
  ASSUME NEW call, NEW entries, DOMAIN call = CallFields,
         NEW entered, entered = Entered(call, entries),
         NEW key, key = CacheKey(call.window)
  PROVE  /\ DOMAIN entered = CallFields
         /\ entered.stage \in {"fetching", "answered"}
         /\ entered.stage = "fetching" =>
              /\ entered.window = call.window /\ entered.lock = call.lock /\ entered.started = now
              /\ ~(key \in DOMAIN entries /\ entries[key].expires > now)
<1>1. CASE key \in DOMAIN entries /\ entries[key].expires > now
  BY <1>1, AnsweredIsOver DEF Entered
<1>2. CASE ~(key \in DOMAIN entries /\ entries[key].expires > now)
  <2>1. entered = [call EXCEPT !.stage = "fetching", !.started = now, !.attempt = 1]
    BY <1>2 DEF Entered
  <2>2. {"stage", "started", "attempt", "window", "lock"} \subseteq DOMAIN call
    BY DEF CallFields, NotAsked
  <2> QED BY <1>2, <2>1, <2>2
<1> QED BY <1>1, <1>2

\* Two callers do not fetch the same window.
LEMMA OneHolder ==
  ASSUME FetchIInv, ~strained, NEW c \in Callers, NEW d \in Callers, c # d,
         Fetching(c), Fetching(d)
  PROVE  KeyOf(c) # KeyOf(d)
<1>1. c \in AtALock /\ d \in AtALock
  BY DEF AtALock, Fetching
<1>2. calls[c].lock # calls[d].lock
  BY <1>1 DEF FetchIInv, FetchingIsFirst, LinesAreTotal
<1> QED BY <1>1, <1>2 DEF FetchIInv, LocksAreCurrent
-----------------------------------------------------------------------------
(* The steps. *)

LEMMA InitFetchIInv == Init => FetchIInv
<1> SUFFICES ASSUME Init PROVE FetchIInv
  OBVIOUS
<1> QED
  BY DEF Init, LiveInit, FetchIInv, LiveTypes, FetchingIsFirst, LinesAreTotal, LocksAreCurrent,
         KeptIsFresh, FetchedIsNotKept, AtALock, Fetching, NotAsked, CallFields

\* A caller that is done, or is done before it began, leaves its line.
LEMMA DoneStep ==
  ASSUME FetchIInv, NEW c \in Callers, NEW call, DOMAIN call = CallFields,
         call.stage \notin {"waiting", "fetching"},
         calls' = [calls EXCEPT ![c] = call],
         ahead' = Leaves(c) \/ (calls[c].stage = "idle" /\ ahead' = ahead),
         UNCHANGED <<now, cache, locks, strained>>
  PROVE  FetchIInv'
<1>1. /\ DOMAIN calls' = Callers /\ DOMAIN ahead' = Callers
      /\ calls'[c] = call
      /\ \A d \in Callers \ {c} : calls'[d] = calls[d]
  BY DEF FetchIInv, LiveTypes, Leaves
<1>2. AtALock' = AtALock \ {c}
  BY <1>1 DEF AtALock
<1>3. \A d \in Callers : Fetching(d)' => d # c /\ Fetching(d)
  BY <1>1 DEF Fetching
<1>4. \A d \in Callers \ {c} : ahead'[d] = ahead[d] \ {c} \/ ahead'[d] = ahead[d]
  BY DEF Leaves
<1>5. LiveTypes'
  BY <1>1, <1>3 DEF FetchIInv, LiveTypes
<1>6. FetchingIsFirst'
  BY <1>3, <1>4 DEF FetchIInv, FetchingIsFirst
<1>7. LinesAreTotal'
  BY <1>1, <1>2, <1>4 DEF FetchIInv, LinesAreTotal, AtALock
<1>8. LocksAreCurrent' /\ KeptIsFresh' /\ FetchedIsNotKept'
  <2>1. \A d \in Callers \ {c} : KeyOf(d)' = KeyOf(d) /\ calls'[d].lock = calls[d].lock
    BY <1>1 DEF KeyOf
  <2>2. \A d \in AtALock' : d \in AtALock /\ d \in Callers \ {c}
    BY <1>2 DEF AtALock
  <2>3. LocksAreCurrent'
    BY <2>1, <2>2 DEF FetchIInv, LocksAreCurrent
  <2>4. KeptIsFresh'
    BY <2>1, <2>2 DEF FetchIInv, KeptIsFresh
  <2>5. FetchedIsNotKept'
    BY <1>3, <2>1 DEF FetchIInv, FetchedIsNotKept
  <2> QED BY <2>3, <2>4, <2>5
<1> QED BY <1>5, <1>6, <1>7, <1>8 DEF FetchIInv

\* A response is kept: for a caller that waits for it, and for nobody who fetches.
LEMMA CompleteStep ==
  ASSUME FetchIInv, NEW c \in Callers, Fetching(c), NEW rows, Complete(c, rows)
  PROVE  FetchIInv'
<1> DEFINE key == KeyOf(c)
           expires == calls[c].started + Ttl
<1>1. /\ cache' = [k \in DOMAIN cache \union {key} |->
                     IF k = key THEN [expires |-> expires, rows |-> rows] ELSE cache[k]]
      /\ strained' = (strained \/ expires <= now)
      /\ ahead' = Leaves(c) /\ now' = now /\ locks' = locks
      /\ calls' = [calls EXCEPT ![c] = Answered(calls[c], rows)]
  BY DEF Complete, KeyOf
<1>2. expires \in Nat /\ now \in Nat
  BY DEF FetchIInv, LiveTypes
<1> HIDE DEF expires
<1>3. /\ DOMAIN calls' = Callers /\ DOMAIN ahead' = Callers
      /\ calls'[c].stage = "answered" /\ DOMAIN calls'[c] = CallFields
      /\ \A d \in Callers \ {c} : calls'[d] = calls[d] /\ ahead'[d] = ahead[d] \ {c}
  BY <1>1, AnsweredIsOver DEF FetchIInv, LiveTypes, Leaves
<1>4. AtALock' = AtALock \ {c}
  BY <1>3 DEF AtALock
<1>5. \A d \in Callers : Fetching(d)' => d # c /\ Fetching(d)
  BY <1>3 DEF Fetching
<1>6. LiveTypes'
  <2>1. strained' \in BOOLEAN /\ \A k \in DOMAIN cache' : cache'[k].expires \in Nat
    BY <1>1, <1>2 DEF FetchIInv, LiveTypes
  <2> QED BY <1>1, <1>3, <1>5, <2>1 DEF FetchIInv, LiveTypes
<1>7. FetchingIsFirst'
  BY <1>3, <1>5 DEF FetchIInv, FetchingIsFirst
<1>8. LinesAreTotal'
  BY <1>3, <1>4 DEF FetchIInv, LinesAreTotal, AtALock
<1>9. LocksAreCurrent' /\ KeptIsFresh' /\ FetchedIsNotKept'
  <2> SUFFICES ASSUME ~strained' PROVE LocksAreCurrent' /\ KeptIsFresh' /\ FetchedIsNotKept'
    BY DEF LocksAreCurrent, KeptIsFresh, FetchedIsNotKept
  <2>1. ~strained /\ expires > now
    <3>1. ~(strained \/ expires <= now)
      BY <1>1, Zenon
    <3> QED BY <1>2, <3>1
  <2>2. \A d \in Callers \ {c} : KeyOf(d)' = KeyOf(d) /\ calls'[d].lock = calls[d].lock
    BY <1>3 DEF KeyOf
  <2>3. \A d \in AtALock' : d \in AtALock /\ d \in Callers \ {c}
    BY <1>4 DEF AtALock
  <2>4. LocksAreCurrent'
    BY <1>1, <2>1, <2>2, <2>3 DEF FetchIInv, LocksAreCurrent
  <2>5. KeptIsFresh'
    BY <1>1, <2>1, <2>2, <2>3 DEF FetchIInv, KeptIsFresh
  <2>6. \A d \in Callers : Fetching(d)' => KeyOf(d) # key
    BY <1>5, <2>1, OneHolder
  <2>7. FetchedIsNotKept'
    BY <1>1, <1>5, <2>1, <2>2, <2>6 DEF FetchIInv, FetchedIsNotKept
  <2> QED BY <2>4, <2>5, <2>7
<1> QED BY <1>6, <1>7, <1>8, <1>9 DEF FetchIInv

\* A caller goes to the end of the line of its window's lock, and fetches if there is no
\* line and no response.
LEMMA JoinStep ==
  ASSUME FetchIInv, NEW c \in Callers, NEW call, DOMAIN call = CallFields, NEW kept \in Purged,
         DOMAIN cache' = kept, \A k \in kept : cache'[k] = cache[k],
         CacheKey(call.window) \in DOMAIN locks', locks'[CacheKey(call.window)] = call.lock,
         \A k \in DOMAIN locks \ (DOMAIN cache \ kept) : k \in DOMAIN locks' /\ locks'[k] = locks[k],
         strained' \in BOOLEAN,
         ~strained' => ~strained /\ \A k \in DOMAIN cache \ kept : ~(cache[k].expires > now),
         DOMAIN calls' = Callers, \A d \in Callers \ {c} : calls'[d] = calls[d],
         LockFree(call.lock) => calls'[c] = Entered(call, cache'),
         ~LockFree(call.lock) => calls'[c] = [call EXCEPT !.stage = "waiting"],
         DOMAIN ahead' = Callers, \A d \in Callers \ {c} : ahead'[d] = ahead[d],
         ahead'[c] = LineOf(call.lock),
         now' = now
  PROVE  FetchIInv'
<1> DEFINE next == calls'[c]
           key == CacheKey(call.window)
           lock == call.lock
<1>1. /\ DOMAIN calls' = Callers /\ DOMAIN ahead' = Callers
      /\ ahead'[c] = LineOf(lock)
      /\ \A d \in Callers \ {c} : calls'[d] = calls[d] /\ ahead'[d] = ahead[d]
  OBVIOUS
<1>2. kept \subseteq DOMAIN cache /\ \A k \in kept : cache[k].expires > now
  BY DEF Purged
<1>3. /\ DOMAIN next = CallFields
      /\ next.stage \in {"waiting", "fetching", "answered"}
      /\ next.stage # "answered" => next.window = call.window /\ next.lock = lock
      /\ next.stage = "fetching" => next.started = now /\ LockFree(lock) /\ key \notin kept
  <2>1. CASE LockFree(lock)
    BY <1>2, <2>1, EnteredCall
  <2>2. CASE ~LockFree(lock)
    <3>1. {"stage", "lock", "window"} \subseteq DOMAIN call
      BY DEF CallFields, NotAsked
    <3> QED BY <2>2, <3>1
  <2> QED BY <2>1, <2>2
<1> HIDE DEF next
<1>4. \A d \in AtALock' : d \in Callers /\ (d # c => d \in AtALock)
  BY <1>1 DEF AtALock
<1>5. \A d \in Callers : Fetching(d)' => d = c \/ Fetching(d)
  BY <1>1 DEF Fetching
<1>6. LiveTypes'
  <2>1. strained' \in BOOLEAN
    OBVIOUS
  <2>2. \A k \in DOMAIN cache' : cache'[k].expires \in Nat
    BY <1>2 DEF FetchIInv, LiveTypes
  <2>3. \A d \in Callers : DOMAIN calls'[d] = CallFields
    BY <1>1, <1>3 DEF FetchIInv, LiveTypes, next
  <2>4. \A d \in Callers : Fetching(d)' => calls'[d].started \in Nat
    BY <1>1, <1>3 DEF FetchIInv, LiveTypes, Fetching, next
  <2> QED BY <1>1, <2>1, <2>2, <2>3, <2>4 DEF FetchIInv, LiveTypes
<1>7. FetchingIsFirst'
  <2>1. Fetching(c)' => ahead'[c] = {}
    BY <1>1, <1>3 DEF Fetching, LockFree, next
  <2> QED BY <1>1, <1>5, <2>1 DEF FetchIInv, FetchingIsFirst
<1>8. LinesAreTotal'
  <2>1. \A d \in AtALock' : d # c /\ c \in AtALock' /\ calls'[c].lock = calls'[d].lock => d \in ahead'[c]
    BY <1>1, <1>3, <1>4 DEF AtALock, LineOf, next
  <2> QED BY <1>1, <1>4, <2>1 DEF FetchIInv, LinesAreTotal
<1>9. LocksAreCurrent' /\ KeptIsFresh' /\ FetchedIsNotKept'
  <2> SUFFICES ASSUME ~strained' PROVE LocksAreCurrent' /\ KeptIsFresh' /\ FetchedIsNotKept'
    BY DEF LocksAreCurrent, KeptIsFresh, FetchedIsNotKept
  <2>1. ~strained /\ \A k \in DOMAIN cache \ kept : ~(cache[k].expires > now)
    OBVIOUS
  <2>2. \A d \in Callers \ {c} : KeyOf(d)' = KeyOf(d) /\ calls'[d].lock = calls[d].lock
    BY <1>1 DEF KeyOf
  <2>3. c \in AtALock' => KeyOf(c)' = key /\ calls'[c].lock = lock
    BY <1>3 DEF AtALock, KeyOf, next
  <2>4. \A d \in AtALock : KeyOf(d) \in DOMAIN locks' /\ locks'[KeyOf(d)] = calls[d].lock
    BY <2>1 DEF FetchIInv, LocksAreCurrent, KeptIsFresh
  <2>5. LocksAreCurrent'
    BY <1>4, <2>2, <2>3, <2>4 DEF LocksAreCurrent
  <2>6. KeptIsFresh'
    BY <1>2, <1>4 DEF KeptIsFresh
  <2>7. FetchedIsNotKept'
    BY <1>2, <1>3, <1>5, <2>1, <2>2, <2>3 DEF FetchIInv, FetchedIsNotKept, Fetching, AtALock, next
  <2> QED BY <2>5, <2>6, <2>7
<1> QED BY <1>6, <1>7, <1>8, <1>9 DEF FetchIInv

LEMMA AskStep ==
  ASSUME FetchIInv, NEW c \in Callers, NEW periods, Ask(c, periods)
  PROVE  FetchIInv'
<1> DEFINE window == LiveWindow(periods)
           asked == [NotAsked EXCEPT !.periods = periods, !.window = window]
<1>1. DOMAIN asked = CallFields /\ asked.window = window
  BY DEF CallFields, NotAsked
<1>2. CASE window = None
  <2> DEFINE call == [asked EXCEPT !.stage = "answered", !.through = EndOfDay(today - 1)]
  <2>1. DOMAIN call = CallFields /\ call.stage = "answered"
    BY <1>1 DEF CallFields, NotAsked
  <2>2. /\ calls' = [calls EXCEPT ![c] = call] /\ UNCHANGED <<now, cache, locks, ahead, strained>>
        /\ calls[c].stage = "idle"
    BY <1>2 DEF Ask
  <2> QED BY <2>1, <2>2, DoneStep
<1>3. CASE window # None /\ Days(window) > MaxDays
  <2>1. /\ calls' = [calls EXCEPT ![c] = Over] /\ UNCHANGED <<now, cache, locks, ahead, strained>>
        /\ calls[c].stage = "idle"
    BY <1>3 DEF Ask
  <2> QED BY <2>1, OverIsOver, DoneStep
<1>4. CASE window # None /\ ~(Days(window) > MaxDays)
  <2> DEFINE entries(kept) == [k \in kept |-> cache[k]]
             known(kept) == [k \in DOMAIN locks \ (DOMAIN cache \ kept) |-> locks[k]]
             key == CacheKey(window)
             used(kept) == {known(kept)[k] : k \in DOMAIN known(kept)} \union {calls[d].lock : d \in AtALock}
             lock(kept) == IF key \in DOMAIN known(kept) THEN known(kept)[key]
                           ELSE Smallest((0..Cardinality(used(kept))) \ used(kept))
             call(kept) == [asked EXCEPT !.lock = lock(kept)]
  <2>1. /\ calls[c].stage = "idle" /\ now' = now
        /\ \E kept \in Purged :
             /\ cache' = entries(kept)
             /\ locks' = [k \in DOMAIN known(kept) \union {key} |->
                            IF k = key THEN lock(kept) ELSE known(kept)[k]]
             /\ strained' = (strained \/ \E k \in DOMAIN cache \ kept : cache[k].expires > now)
             /\ calls' = [calls EXCEPT ![c] =
                            IF LockFree(lock(kept)) THEN Entered(call(kept), entries(kept))
                            ELSE [asked EXCEPT !.stage = "waiting", !.lock = lock(kept)]]
             /\ ahead' = [ahead EXCEPT ![c] = LineOf(lock(kept))]
    BY <1>4 DEF Ask
  <2>2. PICK kept \in Purged :
             /\ cache' = entries(kept)
             /\ locks' = [k \in DOMAIN known(kept) \union {key} |->
                            IF k = key THEN lock(kept) ELSE known(kept)[k]]
             /\ strained' = (strained \/ \E k \in DOMAIN cache \ kept : cache[k].expires > now)
             /\ calls' = [calls EXCEPT ![c] =
                            IF LockFree(lock(kept)) THEN Entered(call(kept), entries(kept))
                            ELSE [asked EXCEPT !.stage = "waiting", !.lock = lock(kept)]]
             /\ ahead' = [ahead EXCEPT ![c] = LineOf(lock(kept))]
    BY <2>1
  <2>3. /\ DOMAIN call(kept) = CallFields /\ key = CacheKey(call(kept).window)
        /\ call(kept).lock = lock(kept)
    BY <1>1 DEF CallFields, NotAsked
  <2>4. [asked EXCEPT !.stage = "waiting", !.lock = lock(kept)]
          = [call(kept) EXCEPT !.stage = "waiting"]
    BY <1>1 DEF CallFields, NotAsked
  <2>5. key \in DOMAIN known(kept) => lock(kept) = known(kept)[key]
    OBVIOUS
  <2> HIDE DEF asked, key, entries, known, lock, call
  <2>6. PICK l, asks : l = lock(kept) /\ asks = call(kept)
    OBVIOUS
  <2>7. /\ DOMAIN cache' = kept /\ \A k \in kept : cache'[k] = cache[k]
        /\ cache' = entries(kept)
    BY <2>2 DEF entries
  <2>8. /\ key \in DOMAIN locks' /\ locks'[key] = l
        /\ \A k \in DOMAIN locks \ (DOMAIN cache \ kept) : k \in DOMAIN locks' /\ locks'[k] = locks[k]
    BY <2>2, <2>5, <2>6 DEF known
  <2>9. /\ DOMAIN calls' = Callers /\ \A d \in Callers \ {c} : calls'[d] = calls[d]
        /\ LockFree(l) => calls'[c] = Entered(asks, cache')
        /\ ~LockFree(l) => calls'[c] = [asks EXCEPT !.stage = "waiting"]
    BY <2>2, <2>4, <2>6 DEF FetchIInv, LiveTypes
  <2>10. /\ DOMAIN ahead' = Callers /\ \A d \in Callers \ {c} : ahead'[d] = ahead[d]
         /\ ahead'[c] = LineOf(l)
    BY <2>2, <2>6 DEF FetchIInv, LiveTypes
  <2>11. DOMAIN asks = CallFields /\ CacheKey(asks.window) = key /\ asks.lock = l
    BY <2>3, <2>6
  <2>12. /\ strained' \in BOOLEAN
         /\ ~strained' => ~strained /\ \A k \in DOMAIN cache \ kept : ~(cache[k].expires > now)
    BY <2>2, Zenon
  <2>13. kept \in Purged /\ now' = now
    BY <2>1, <2>2
  <2> QED BY <2>7, <2>8, <2>9, <2>10, <2>11, <2>12, <2>13, JoinStep
<1> QED BY <1>2, <1>3, <1>4

LEMMA AcquireStep ==
  ASSUME FetchIInv, NEW c \in Callers, Acquire(c)
  PROVE  FetchIInv'
<1> DEFINE entered == Entered(calls[c], cache)
<1>1. /\ calls[c].stage = "waiting" /\ ahead[c] = {} /\ calls' = [calls EXCEPT ![c] = entered]
      /\ UNCHANGED <<now, cache, locks, strained>>
  BY DEF Acquire
<1>2. /\ DOMAIN entered = CallFields /\ entered.stage \in {"fetching", "answered"}
      /\ entered.stage = "fetching" =>
           /\ entered.window = calls[c].window /\ entered.lock = calls[c].lock /\ entered.started = now
           /\ ~(KeyOf(c) \in DOMAIN cache /\ cache[KeyOf(c)].expires > now)
  BY EnteredCall DEF FetchIInv, LiveTypes, KeyOf
<1>3. entered.stage # "fetching" => ahead' = Leaves(c)
  BY DEF Acquire
<1>4. entered.stage = "fetching" => ahead' = ahead
  BY DEF Acquire
<1> HIDE DEF entered
<1>5. CASE entered.stage = "answered"
  BY <1>1, <1>2, <1>3, <1>5, DoneStep
<1>6. CASE entered.stage = "fetching"
  <2>1. /\ DOMAIN calls' = Callers /\ calls'[c] = entered
        /\ \A d \in Callers \ {c} : calls'[d] = calls[d]
    BY <1>1 DEF FetchIInv, LiveTypes
  <2>2. /\ AtALock' = AtALock
        /\ \A d \in Callers : calls'[d].lock = calls[d].lock /\ KeyOf(d)' = KeyOf(d)
        /\ \A d \in Callers : Fetching(d)' => d = c \/ Fetching(d)
    BY <1>1, <1>2, <1>6, <2>1 DEF AtALock, KeyOf, Fetching
  <2>3. c \in AtALock
    BY <1>1 DEF AtALock
  <2>4. LiveTypes'
    BY <1>1, <1>2, <1>4, <1>6, <2>1 DEF FetchIInv, LiveTypes, Fetching
  <2>5. FetchingIsFirst' /\ LinesAreTotal'
    BY <1>1, <1>4, <1>6, <2>2 DEF FetchIInv, FetchingIsFirst, LinesAreTotal, AtALock
  <2>6. LocksAreCurrent' /\ KeptIsFresh'
    BY <1>1, <2>2 DEF FetchIInv, LocksAreCurrent, KeptIsFresh, AtALock
  <2>7. FetchedIsNotKept'
    BY <1>1, <1>2, <1>6, <2>2, <2>3 DEF FetchIInv, FetchedIsNotKept, KeptIsFresh
  <2> QED BY <2>4, <2>5, <2>6, <2>7 DEF FetchIInv
<1> QED BY <1>2, <1>5, <1>6

\* Another page, or another attempt: the caller keeps its lock and its window.
LEMMA KeepStep ==
  ASSUME FetchIInv, NEW c \in Callers, Fetching(c),
         NEW call, DOMAIN call = CallFields, call.stage = "fetching", call.window = calls[c].window,
         call.lock = calls[c].lock, call.started = calls[c].started,
         calls' = [calls EXCEPT ![c] = call],
         UNCHANGED <<now, cache, locks, ahead, strained>>
  PROVE  FetchIInv'
<1>1. /\ DOMAIN calls' = Callers /\ calls'[c] = call
      /\ \A d \in Callers \ {c} : calls'[d] = calls[d]
  BY DEF FetchIInv, LiveTypes
<1>2. /\ AtALock' = AtALock
      /\ \A d \in Callers : /\ calls'[d].lock = calls[d].lock /\ KeyOf(d)' = KeyOf(d)
                            /\ calls'[d].started = calls[d].started
                            /\ Fetching(d)' = Fetching(d)
  BY <1>1 DEF AtALock, KeyOf, Fetching
<1>3. LiveTypes'
  BY <1>1, <1>2 DEF FetchIInv, LiveTypes
<1>4. FetchingIsFirst' /\ LinesAreTotal'
  BY <1>2 DEF FetchIInv, FetchingIsFirst, LinesAreTotal, AtALock
<1>5. LocksAreCurrent' /\ KeptIsFresh' /\ FetchedIsNotKept'
  BY <1>2 DEF FetchIInv, LocksAreCurrent, KeptIsFresh, FetchedIsNotKept, AtALock
<1> QED BY <1>3, <1>4, <1>5 DEF FetchIInv

LEMMA ReadStep ==
  ASSUME FetchIInv, NEW c \in Callers,
         ReadAll(c) \/ ReadPage(c) \/ PostAgain(c) \/ FetchFails(c) \/ Cancel(c)
  PROVE  FetchIInv'
<1>1. ASSUME GiveUp(c) PROVE FetchIInv'
  BY <1>1, OverIsOver, DoneStep DEF GiveUp
<1>2. CASE ReadAll(c)
  BY <1>2, CompleteStep DEF ReadAll
<1>3. CASE FetchFails(c) \/ Cancel(c)
  BY <1>1, <1>3 DEF FetchFails, Cancel
<1>4. {"stage", "window", "lock", "started", "attempt", "pages", "total"} \subseteq DOMAIN calls[c]
  BY DEF FetchIInv, LiveTypes, CallFields, NotAsked
<1>5. DOMAIN calls[c] = CallFields
  BY DEF FetchIInv, LiveTypes
<1>6. CASE PostAgain(c)
  <2> DEFINE call == [calls[c] EXCEPT !.attempt = @ + 1]
  <2>1. /\ Fetching(c) /\ calls' = [calls EXCEPT ![c] = call]
        /\ UNCHANGED <<now, cache, locks, ahead, strained>>
    BY <1>6 DEF PostAgain
  <2>2. /\ DOMAIN call = CallFields /\ call.stage = calls[c].stage /\ call.window = calls[c].window
        /\ call.lock = calls[c].lock /\ call.started = calls[c].started
    BY <1>4, <1>5
  <2> HIDE DEF call
  <2> QED BY <2>1, <2>2, KeepStep DEF Fetching
<1>7. CASE ReadPage(c)
  <2> DEFINE total == IF calls[c].pages = 0 THEN Query(calls[c].window) ELSE calls[c].total
             call == [calls[c] EXCEPT !.total = total, !.pages = @ + 1, !.attempt = 1]
  <2>1. /\ Fetching(c)
        /\ \/ Complete(c, total)
           \/ GiveUp(c)
           \/ calls' = [calls EXCEPT ![c] = call] /\ UNCHANGED <<now, cache, locks, ahead, strained>>
    BY <1>7 DEF ReadPage
  <2>2. /\ DOMAIN call = CallFields /\ call.stage = calls[c].stage /\ call.window = calls[c].window
        /\ call.lock = calls[c].lock /\ call.started = calls[c].started
    BY <1>4, <1>5
  <2> HIDE DEF call, total
  <2> QED BY <1>1, <2>1, <2>2, CompleteStep, KeepStep DEF Fetching
<1> QED BY <1>2, <1>3, <1>6, <1>7

LEMMA TickStep ==
  ASSUME FetchIInv, Tick
  PROVE  FetchIInv'
<1>1. UNCHANGED <<calls, ahead, cache, locks>> /\ AtALock' = AtALock /\ now' = now + 1
  BY DEF Tick, AtALock
<1>2. /\ strained' \in BOOLEAN /\ now' \in Nat
      /\ ~strained' => ~strained /\ \A c \in AtALock : KeyOf(c) \in DOMAIN cache => cache[KeyOf(c)].expires > now'
  <2>1. strained' = (strained \/ \E c \in AtALock :
                                    KeyOf(c) \in DOMAIN cache /\ cache[KeyOf(c)].expires <= now + 1)
    BY DEF Tick, KeyOf
  <2>2. now' \in Nat /\ \A k \in DOMAIN cache : cache[k].expires \in Nat
    BY <1>1 DEF FetchIInv, LiveTypes
  <2>3. ASSUME ~strained'
        PROVE  ~strained /\ \A c \in AtALock : KeyOf(c) \in DOMAIN cache => ~(cache[KeyOf(c)].expires <= now + 1)
    BY <2>1, <2>3, Zenon
  <2>4. strained' \in BOOLEAN
    BY <2>1
  <2> QED BY <1>1, <2>2, <2>3, <2>4
<1>3. LiveTypes'
  BY <1>1, <1>2 DEF FetchIInv, LiveTypes, Fetching
<1>4. FetchingIsFirst' /\ LinesAreTotal'
  BY <1>1 DEF FetchIInv, FetchingIsFirst, LinesAreTotal, Fetching
<1>5. LocksAreCurrent' /\ FetchedIsNotKept'
  BY <1>1, <1>2 DEF FetchIInv, LocksAreCurrent, FetchedIsNotKept, Fetching, KeyOf
<1>6. KeptIsFresh'
  BY <1>1, <1>2 DEF KeptIsFresh, KeyOf
<1> QED BY <1>3, <1>4, <1>5, <1>6 DEF FetchIInv

LEMMA StepPreservesFetchIInv == FetchIInv /\ [Next]_pipelineVars => FetchIInv'
<1> SUFFICES ASSUME FetchIInv, [Next]_pipelineVars PROVE FetchIInv'
  OBVIOUS
<1>1. ASSUME UNCHANGED <<now, cache, locks, ahead, calls, strained>> PROVE FetchIInv'
  BY <1>1 DEF FetchIInv, LiveTypes, FetchingIsFirst, LinesAreTotal, LocksAreCurrent, KeptIsFresh,
              FetchedIsNotKept, AtALock, Fetching, KeyOf
<1>2. CASE LiveStep
  BY <1>1, <1>2, AskStep, AcquireStep, ReadStep, TickStep DEF LiveStep, LiveNext, Report, Midnight
<1>3. CASE UNCHANGED pipelineVars
  BY <1>1, <1>3 DEF pipelineVars, liveVars
<1>4. CASE \/ \E kind \in Kinds : PutSource(kind)
           \/ LoadDataset \/ LoadLive \/ LoadFails \/ LoadBundle \/ BundleFails \/ AnalysisStep
  BY <1>1, <1>4
  DEF PutSource, LoadDataset, LoadLive, LoadFails, LoadBundle, BundleFails, AnalysisStep, liveVars
<1> QED BY <1>2, <1>3, <1>4 DEF Next

LEMMA FetchInvariance == Spec => []FetchIInv
<1> QED BY InitFetchIInv, StepPreservesFetchIInv, PTL DEF Spec

\* However the callers of a process fail, are cancelled and ask again, no two of them
\* fetch one window at once and none fetches what is kept: for any number of callers,
\* any windows, lifetime of a response and size of the cache.
THEOREM FetchesAreShared == Spec => []OneFetchPerWindow
<1>1. FetchIInv => OneFetchPerWindow
  <2> SUFFICES ASSUME FetchIInv, ~strained, NEW c \in Callers, Fetching(c)
               PROVE  /\ \A d \in Callers \ {c} : Fetching(d) => KeyOf(d) # KeyOf(c)
                      /\ KeyOf(c) \notin DOMAIN cache
    BY DEF OneFetchPerWindow, KeyOf
  <2>1. KeyOf(c) \notin DOMAIN cache
    BY DEF FetchIInv, FetchedIsNotKept
  <2> QED BY <2>1, OneHolder
<1> QED BY <1>1, FetchInvariance, PTL
-----------------------------------------------------------------------------
(* Sorts and filters. *)

\* Least elements: numbers are well-founded,
LEMMA LeastNatural ==
  ASSUME NEW T \in SUBSET Nat, T # {}
  PROVE  \E x \in T : \A y \in T : x <= y
<1> DEFINE R == OpToRel(<, Nat)
<1>1. IsWellFoundedOn(R, Nat)
  BY NatLessThanWellFounded
<1>2. \A x, y \in Nat : y < x => <<y, x>> \in R
  BY DEF OpToRel
<1> HIDE DEF R
<1>3. PICK x \in T : \A y \in T : ~ (<<y, x>> \in R)
  BY <1>1, WFMin
<1>4. \A y \in T : ~(y < x)
  <2> TAKE y \in T
  <2>1. x \in Nat /\ y \in Nat
    BY <1>3
  <2> QED BY <2>1, <1>2, <1>3, Zenon
<1> QED BY <1>3, <1>4

\* so that a set with 0 and each successor is all of them.
LEMMA EveryNatural ==
  ASSUME NEW P \in SUBSET Nat, 0 \in P, \A n \in P : n + 1 \in P
  PROVE  P = Nat
<1> SUFFICES ASSUME Nat \ P # {} PROVE FALSE
  OBVIOUS
<1>1. PICK n \in Nat \ P : \A y \in Nat \ P : n <= y
  BY LeastNatural
<1>2. n # 0 /\ n - 1 \in Nat /\ n - 1 < n
  BY <1>1
<1>3. n - 1 \in P /\ (n - 1) + 1 = n
  BY <1>1, <1>2
<1> QED BY <1>1, <1>3

LEMMA UpTo ==
  ASSUME NEW n \in Nat
  PROVE  IsFiniteSet(1..n) /\ Cardinality(1..n) = n
<1>1. IsFiniteSet(1..n) /\ Cardinality(1..n) = IF 1 > n THEN 0 ELSE n - 1 + 1
  BY FS_Interval
<1> QED BY <1>1

\* A strict order of all of S.
Orders(before, S) ==
  /\ \A x, y \in S : <<x, y>> \in before => <<y, x>> \notin before
  /\ \A x, y \in S : x # y => <<x, y>> \in before \/ <<y, x>> \in before
  /\ \A x, y, z \in S : <<x, y>> \in before /\ <<y, z>> \in before => <<x, z>> \in before

\* A sort lists every element once, in the order.
Lists(order, S, before) ==
  /\ Cardinality(S) \in Nat
  /\ order \in [1..Cardinality(S) -> S]
  /\ \A l, m \in 1..Cardinality(S) : l < m => <<order[l], order[m]>> \in before
  /\ \A x \in S : \E m \in 1..Cardinality(S) : order[m] = x

LEMMA OrderingLists ==
  ASSUME NEW S, IsFiniteSet(S), NEW before, Orders(before, S)
  PROVE  Lists(Ordering(S, before), S, before)
<1> DEFINE n == Cardinality(S)
           Below(x) == {y \in S : <<y, x>> \in before}
           place == [x \in S |-> Cardinality(Below(x)) + 1]
           order == [m \in 1..n |-> CHOOSE x \in S : Cardinality(Below(x)) = m - 1]
<1>0. n \in Nat /\ IsFiniteSet(1..n) /\ Cardinality(1..n) = n
  BY FS_CardinalityType, UpTo
<1>1. ASSUME NEW x \in S
      PROVE  /\ IsFiniteSet(Below(x)) /\ Cardinality(Below(x)) \in Nat
             /\ Cardinality(Below(x)) < n
  <2>1. Below(x) \in SUBSET (S \ {x})
    BY DEF Orders
  <2>2. IsFiniteSet(S \ {x}) /\ Cardinality(S \ {x}) = n - 1
    BY FS_RemoveElement
  <2>3. IsFiniteSet(Below(x)) /\ Cardinality(Below(x)) <= n - 1
    <3> HIDE DEF Below, n
    <3> QED BY <2>1, <2>2, FS_Subset
  <2>4. Cardinality(Below(x)) \in Nat
    BY <2>3, FS_CardinalityType
  <2> HIDE DEF n, Below
  <2> QED BY <1>0, <2>3, <2>4
<1>2. ASSUME NEW x \in S, NEW y \in S, <<x, y>> \in before
      PROVE  Cardinality(Below(x)) < Cardinality(Below(y))
  <2>1. Below(x) \in SUBSET (Below(y) \ {x}) /\ x \in Below(y)
    BY <1>2 DEF Orders
  <2>2. IsFiniteSet(Below(y))
    BY <1>1
  <2>3. /\ IsFiniteSet(Below(y) \ {x})
        /\ Cardinality(Below(y) \ {x}) = Cardinality(Below(y)) - 1
    BY <2>1, <2>2, FS_RemoveElement
  <2>4. Cardinality(Below(x)) <= Cardinality(Below(y) \ {x})
    BY <2>1, <2>3, FS_Subset
  <2>5. Cardinality(Below(x)) \in Nat /\ Cardinality(Below(y)) \in Nat
    BY <1>1
  <2> HIDE DEF Below
  <2> QED BY <2>3, <2>4, <2>5
<1>3. ASSUME NEW x \in S, NEW y \in S, Cardinality(Below(x)) = Cardinality(Below(y))
      PROVE  x = y
  <2>1. Cardinality(Below(x)) \in Nat /\ Cardinality(Below(y)) \in Nat
    BY <1>1
  <2>2. ~(Cardinality(Below(x)) < Cardinality(Below(y))) /\ ~(Cardinality(Below(y)) < Cardinality(Below(x)))
    BY <1>3, <2>1
  <2>3. <<x, y>> \notin before /\ <<y, x>> \notin before
    BY <1>2, <2>2
  <2> QED BY <2>3 DEF Orders
<1> HIDE DEF n, Below
<1>4. place \in [S -> 1..n]
  BY <1>0, <1>1
<1>5. \A x, y \in S : place[x] = place[y] => x = y
  <2> TAKE x \in S, y \in S
  <2>1. Cardinality(Below(x)) \in Nat /\ Cardinality(Below(y)) \in Nat
    BY <1>1
  <2> QED BY <2>1, <1>3
<1>6. \A x \in S : place[x] = Cardinality(Below(x)) + 1
  OBVIOUS
<1> HIDE DEF place
<1>7. place \in Surjection(S, 1..n)
  <2>1. place \in Injection(S, 1..n)
    BY <1>4, <1>5 DEF Injection, IsInjective
  <2> QED BY <1>0, <2>1, FS_Injection DEF n
<1>8. ASSUME NEW m \in 1..n
      PROVE  order[m] \in S /\ Cardinality(Below(order[m])) = m - 1
  <2>1. PICK x \in S : place[x] = m
    BY <1>7 DEF Surjection
  <2>2. Cardinality(Below(x)) \in Nat /\ Cardinality(Below(x)) = m - 1
    BY <1>0, <1>1, <1>6, <2>1
  <2> QED BY <2>2
<1>9. Ordering(S, before) = order
  BY DEF Ordering, n, Below
<1>10. order \in [1..n -> S]
  BY <1>8
<1> HIDE DEF order
<1>11. ASSUME NEW l \in 1..n, NEW m \in 1..n, l < m
       PROVE  <<order[l], order[m]>> \in before
  <2>1. order[l] \in S /\ order[m] \in S /\ Cardinality(Below(order[l])) = l - 1 /\ Cardinality(Below(order[m])) = m - 1
    BY <1>8
  <2>2. ~(Cardinality(Below(order[m])) < Cardinality(Below(order[l]))) /\ Cardinality(Below(order[l])) # Cardinality(Below(order[m]))
    BY <1>0, <1>11, <2>1
  <2>3. <<order[m], order[l]>> \notin before /\ order[l] # order[m]
    BY <1>2, <2>1, <2>2
  <2> QED BY <2>1, <2>3 DEF Orders
<1>12. \A x \in S : \E m \in 1..n : order[m] = x
  <2> TAKE x \in S
  <2>1. place[x] \in 1..n /\ Cardinality(Below(x)) \in Nat /\ Cardinality(Below(x)) = place[x] - 1
    BY <1>0, <1>1, <1>4, <1>6
  <2>2. order[place[x]] \in S /\ Cardinality(Below(order[place[x]])) = place[x] - 1
    BY <1>8, <2>1
  <2> QED BY <1>3, <2>1, <2>2
<1> QED BY <1>0, <1>9, <1>10, <1>11, <1>12 DEF Lists, n

\* A filter keeps the elements at its places, in their order, and nothing else.
Keeps(list, s, places) ==
  /\ Cardinality(places) \in Nat
  /\ DOMAIN list = 1..Cardinality(places)
  /\ \E from \in [1..Cardinality(places) -> places] :
       /\ \A l, m \in 1..Cardinality(places) : l < m => from[l] < from[m]
       /\ \A i \in places : \E m \in 1..Cardinality(places) : from[m] = i
       /\ \A m \in 1..Cardinality(places) : list[m] = s[from[m]]
       /\ list = [m \in 1..Cardinality(places) |-> s[from[m]]]

LEMMA Filtered ==
  ASSUME NEW n \in Nat, NEW places \in SUBSET (1..n), NEW s
  PROVE  Keeps(ElementsAt(s, places), s, places) /\ Cardinality(places) <= n
<1> DEFINE k == Cardinality(places)
           before == {p \in places \X places : p[1] < p[2]}
           order == Ordering(places, before)
<1>1. IsFiniteSet(places) /\ k \in Nat /\ k <= n
  <2>0. IsFiniteSet(1..n) /\ Cardinality(1..n) = n
    BY UpTo
  <2>1. IsFiniteSet(places) /\ k <= n
    BY <2>0, FS_Subset
  <2>2. k \in Nat
    BY <2>1, FS_CardinalityType
  <2> QED BY <2>1, <2>2
<1>2. \A i, j \in places : <<i, j>> \in before <=> i < j
  OBVIOUS
<1>3. Orders(before, places)
  <2>1. places \in SUBSET Int
    OBVIOUS
  <2> HIDE DEF before
  <2> QED BY <1>2, <2>1 DEF Orders
<1> HIDE DEF before
<1>4. Lists(order, places, before)
  BY <1>1, <1>3, OrderingLists
<1>5. ElementsAt(s, places) = [m \in 1..k |-> s[order[m]]]
  BY DEF ElementsAt, before
<1> HIDE DEF order, k
<1>6. /\ order \in [1..k -> places]
      /\ \A l, m \in 1..k : l < m => <<order[l], order[m]>> \in before
      /\ \A i \in places : \E m \in 1..k : order[m] = i
  BY <1>4 DEF Lists, k
<1>7. \A l, m \in 1..k : l < m => order[l] < order[m]
  BY <1>2, <1>6
<1>8. DOMAIN ElementsAt(s, places) = 1..k /\ \A m \in 1..k : ElementsAt(s, places)[m] = s[order[m]]
  BY <1>5
<1> QED BY <1>1, <1>5, <1>6, <1>7, <1>8 DEF Keeps, k

LEMMA KeptPlace ==
  ASSUME NEW list, NEW s, NEW places, Keeps(list, s, places)
  PROVE  /\ \A m \in DOMAIN list : \E i \in places : list[m] = s[i]
         /\ \A i \in places : \E m \in DOMAIN list : list[m] = s[i]
<1>1. PICK from \in [1..Cardinality(places) -> places] :
        /\ \A i \in places : \E m \in 1..Cardinality(places) : from[m] = i
        /\ \A m \in 1..Cardinality(places) : list[m] = s[from[m]]
  BY DEF Keeps
<1> QED BY <1>1 DEF Keeps
-----------------------------------------------------------------------------
(* Lists, and what the comparison makes of them. *)


LEMMA ListOf ==
  ASSUME NEW n \in Nat, NEW s, DOMAIN s = 1..n, s = [i \in 1..n |-> s[i]]
  PROVE  IsList(s) /\ Len(s) = n
<1>1. s \in Seq({s[i] : i \in 1..n})
  <2>1. s \in [1..n -> {s[i] : i \in 1..n}]
    OBVIOUS
  <2> QED BY <2>1, SeqDef
<1>2. Len(s) \in Nat /\ DOMAIN s = 1..Len(s)
  BY <1>1
<1>3. Len(s) = n
  BY <1>2
<1> QED BY <1>3 DEF IsList

LEMMA Appended ==
  ASSUME NEW s, IsList(s), NEW x
  PROVE  /\ IsList(Append(s, x)) /\ Len(Append(s, x)) = Len(s) + 1
         /\ Append(s, x)[Len(s) + 1] = x
         /\ \A i \in 1..Len(s) : Append(s, x)[i] = s[i]
<1> DEFINE V == {s[i] : i \in 1..Len(s)} \cup {x}
<1>1. s \in Seq(V)
  <2>1. s \in [1..Len(s) -> V] /\ Len(s) \in Nat
    BY DEF IsList
  <2> QED BY <2>1
<1> HIDE DEF V
<1>2. x \in V
  BY DEF V
<1>3. /\ Append(s, x) \in Seq(V) /\ Len(Append(s, x)) = Len(s) + 1
      /\ Append(s, x)[Len(s) + 1] = x
      /\ \A i \in 1..Len(s) : Append(s, x)[i] = s[i]
  BY <1>1, <1>2
<1>4. IsList(Append(s, x))
  <2>1. /\ Append(s, x) \in [1..Len(Append(s, x)) -> V]
        /\ Len(Append(s, x)) \in Nat
    BY <1>3, LenProperties
  <2> QED BY <2>1 DEF IsList
<1> QED BY <1>3, <1>4

LEMMA KeptIsList ==
  ASSUME NEW list, NEW s, NEW places, Keeps(list, s, places)
  PROVE  IsList(list) /\ Len(list) = Cardinality(places)
<1> DEFINE k == Cardinality(places)
<1>1. PICK from \in [1..k -> places] : list = [m \in 1..k |-> s[from[m]]]
  BY DEF Keeps
<1>2. k \in Nat
  BY DEF Keeps
<1> HIDE DEF k
<1>3. DOMAIN list = 1..k /\ list = [m \in 1..k |-> list[m]]
  BY <1>1
<1>4. IsList(list) /\ Len(list) = k
  BY <1>2, <1>3, ListOf
<1> QED BY <1>4 DEF k

\* A list rearranged by a sort of its places.
Rearranged(s, order) == [i \in 1..Len(s) |-> s[order[i]]]

Sorts(list, s, order, before) ==
  /\ IsList(list) /\ Len(list) = Len(s)
  /\ \A m \in 1..Len(s) : order[m] \in 1..Len(s) /\ list[m] = s[order[m]]
  /\ \A l, m \in 1..Len(s) : l < m => <<order[l], order[m]>> \in before
  /\ \A l, m \in 1..Len(s) : order[l] = order[m] => l = m
  /\ \A i \in 1..Len(s) : \E m \in 1..Len(s) : order[m] = i

LEMMA Sorted ==
  ASSUME NEW s, IsList(s), NEW before, Orders(before, 1..Len(s))
  PROVE  Sorts(Rearranged(s, Ordering(1..Len(s), before)), s, Ordering(1..Len(s), before), before)
<1> DEFINE n == Len(s)
           order == Ordering(1..n, before)
<1>1. n \in Nat
  BY DEF IsList
<1>2. IsFiniteSet(1..n) /\ Cardinality(1..n) = n
  BY <1>1, UpTo
<1> HIDE DEF n
<1>3. Lists(order, 1..n, before)
  BY <1>2, OrderingLists DEF n
<1> HIDE DEF order
<1>4. /\ order \in [1..n -> 1..n]
      /\ \A l, m \in 1..n : l < m => <<order[l], order[m]>> \in before
      /\ \A i \in 1..n : \E m \in 1..n : order[m] = i
  BY <1>2, <1>3 DEF Lists
<1>5. \A i \in 1..n : <<i, i>> \notin before
  BY DEF Orders, n
<1>6. ASSUME NEW l \in 1..n, NEW m \in 1..n, order[l] = order[m] PROVE l = m
  <2>1. ~(l < m) /\ ~(m < l)
    BY <1>4, <1>5, <1>6
  <2> QED BY <1>1, <2>1
<1>7. Rearranged(s, order) = [i \in 1..n |-> s[order[i]]]
  BY DEF Rearranged, n
<1>8. IsList(Rearranged(s, order)) /\ Len(Rearranged(s, order)) = n
  BY <1>1, <1>7, ListOf
<1>9. \A m \in 1..n : Rearranged(s, order)[m] = s[order[m]]
  BY <1>7
<1>10. Sorts(Rearranged(s, order), s, order, before)
  BY <1>4, <1>6, <1>8, <1>9 DEF Sorts, n
<1> QED BY <1>10 DEF order, n

-----------------------------------------------------------------------------
(* What the comparison makes of the records. *)

GroupFields == {"key", "dimension", "service", "region", "resource", "owner", "skus", "services",
                "current", "baseline", "currentQuantity", "baselineQuantity", "daily"}


\* A group has whole sums and, if any, a resource of one of the records.
IsGroup(g, resources) ==
  /\ DOMAIN g = GroupFields
  /\ g.current \in Int /\ g.baseline \in Int
  /\ g.currentQuantity \in Int /\ g.baselineQuantity \in Int
  /\ g.resource \in resources \cup {None}

GroupsOK(groups, resources) ==
  /\ IsList(groups)
  /\ \A i \in 1..Len(groups) : IsGroup(groups[i], resources)
  /\ \A i, j \in 1..Len(groups) : groups[i].key = groups[j].key => i = j

LEMMA RecordAdded ==
  ASSUME NEW resources, NEW g, IsGroup(g, resources), NEW r, IsRecord(r), r.resource \in resources \cup {None},
         NEW inCurrent \in BOOLEAN
  PROVE  /\ IsGroup(AddRecord(g, r, inCurrent), resources) /\ AddRecord(g, r, inCurrent).key = g.key
         /\ AddRecord(g, r, inCurrent).current = g.current + (IF inCurrent THEN r.cost ELSE 0)
         /\ AddRecord(g, r, inCurrent).baseline = g.baseline + (r.cost - (IF inCurrent THEN r.cost ELSE 0))
<1> DEFINE spent == IF inCurrent THEN r.cost ELSE 0
           used == IF inCurrent THEN r.quantity ELSE 0
           services == AddTo(g.services, r.service, spent)
           daily == IF inCurrent THEN AddTo(g.daily, r.day, spent) ELSE g.daily
           naming == NamingService(g.service, services)
           skus == g.skus \union ({r.sku} \ {None})
           h == [g EXCEPT !.services = services, !.service = naming,
                   !.region = FirstOf(@, r.region), !.resource = FirstOf(@, r.resource),
                   !.owner = FirstOf(@, r.owner), !.skus = skus, !.current = @ + spent,
                   !.baseline = @ + r.cost - spent, !.currentQuantity = @ + used,
                   !.baselineQuantity = @ + r.quantity - used, !.daily = daily]
<1>1. AddRecord(g, r, inCurrent) = h
  BY DEF AddRecord
<1>2. spent \in Int /\ used \in Int /\ r.cost \in Int /\ r.quantity \in Int
  BY DEF IsRecord
<1>3. DOMAIN g = GroupFields
  BY DEF IsGroup
<1> HIDE DEF spent, used, services, daily, naming, skus
<1>4. /\ DOMAIN h = GroupFields /\ h.key = g.key
      /\ h.current = g.current + spent /\ h.baseline = g.baseline + r.cost - spent
      /\ h.currentQuantity = g.currentQuantity + used
      /\ h.baselineQuantity = g.baselineQuantity + r.quantity - used
      /\ h.resource = FirstOf(g.resource, r.resource)
  BY <1>3 DEF GroupFields
<1>5. FirstOf(g.resource, r.resource) \in resources \cup {None}
  BY DEF FirstOf, IsGroup
<1> HIDE DEF h
<1>6. IsGroup(h, resources)
  BY <1>2, <1>4, <1>5 DEF IsGroup
<1>7. h.current = g.current + spent /\ h.baseline = g.baseline + (r.cost - spent)
  BY <1>2, <1>4 DEF IsGroup
<1> QED BY <1>1, <1>4, <1>6, <1>7 DEF spent

LEMMA GroupedOK ==
  ASSUME NEW resources, NEW groups, GroupsOK(groups, resources),
         NEW r, IsRecord(r), r.resource \in resources \cup {None}, NEW by, NEW current, NEW baseline
  PROVE  GroupsOK(Grouped(groups, r, by, current, baseline), resources)
<1> DEFINE dimension == IF by = "finest" THEN FinestDimension(r) ELSE by
           key == DimensionKey(r, dimension)
           at == {i \in 1..Len(groups) : groups[i].key = key}
           inCurrent == PeriodContains(current, r.day)
           new == AddRecord(NewAggregate(key, dimension), r, inCurrent)
           added == [i \in 1..Len(groups) |-> IF i \in at THEN AddRecord(groups[i], r, inCurrent) ELSE groups[i]]
<1>1. Len(groups) \in Nat /\ IsList(groups)
  BY DEF GroupsOK, IsList
<1>2. inCurrent \in BOOLEAN
  BY DEF PeriodContains
<1>3. ASSUME at = {} PROVE GroupsOK(Append(groups, new), resources)
  <2> DEFINE fresh == NewAggregate(key, dimension)
  <2>1. IsGroup(fresh, resources) /\ fresh.key = key
    BY DEF NewAggregate, IsGroup, GroupFields
  <2> HIDE DEF fresh, inCurrent
  <2>2. IsGroup(AddRecord(fresh, r, inCurrent), resources) /\ AddRecord(fresh, r, inCurrent).key = key
    BY <1>2, <2>1, RecordAdded
  <2>3. IsGroup(new, resources) /\ new.key = key
    BY <2>2 DEF fresh
  <2> HIDE DEF new, key
  <2> DEFINE s == Append(groups, new)
  <2>4. /\ IsList(s) /\ Len(s) = Len(groups) + 1
        /\ s[Len(groups) + 1] = new
        /\ \A i \in 1..Len(groups) : s[i] = groups[i]
    BY <1>1, Appended
  <2> HIDE DEF s
  <2>5. \A i \in 1..Len(s) : (i \in 1..Len(groups) /\ s[i] = groups[i]) \/ (i = Len(groups) + 1 /\ s[i] = new)
    BY <1>1, <2>4
  <2>6. \A i \in 1..Len(groups) : groups[i].key # key
    BY <1>3
  <2>7. \A i \in 1..Len(s) : IsGroup(s[i], resources)
    BY <2>3, <2>5 DEF GroupsOK
  <2>8. ASSUME NEW i \in 1..Len(s), NEW j \in 1..Len(s), s[i].key = s[j].key PROVE i = j
    BY <2>3, <2>5, <2>6, <2>8 DEF GroupsOK
  <2>9. GroupsOK(s, resources)
    BY <2>4, <2>7, <2>8 DEF GroupsOK
  <2> QED BY <2>9 DEF s
<1>4. GroupsOK(added, resources)
  <2> HIDE DEF inCurrent, at
  <2>1. IsList(added) /\ Len(added) = Len(groups)
    BY <1>1, ListOf
  <2>2. \A i \in 1..Len(groups) : IsGroup(groups[i], resources)
    BY DEF GroupsOK
  <2>3. ASSUME NEW i \in 1..Len(groups)
        PROVE  IsGroup(added[i], resources) /\ added[i].key = groups[i].key
    <3>1. IsGroup(AddRecord(groups[i], r, inCurrent), resources) /\ AddRecord(groups[i], r, inCurrent).key = groups[i].key
      BY <1>2, <2>2, RecordAdded
    <3> QED BY <2>2, <3>1
  <2> HIDE DEF added
  <2> QED BY <2>1, <2>3 DEF GroupsOK
<1>5. \/ Grouped(groups, r, by, current, baseline) = groups
      \/ at = {} /\ Grouped(groups, r, by, current, baseline) = Append(groups, new)
      \/ Grouped(groups, r, by, current, baseline) = added
  BY DEF Grouped
<1> HIDE DEF at, new, added
<1> QED BY <1>3, <1>4, <1>5

\* The groups after each of the records.
LEMMA GroupsAfter ==
  ASSUME NEW records, IsList(records), NEW by, NEW current, NEW baseline
  PROVE  \E after : /\ Groups(records, by, current, baseline) = after[Len(records)]
                    /\ after[0] = <<>>
                    /\ \A n \in 1..Len(records) : after[n] = Grouped(after[n - 1], records[n], by, current, baseline)
<1> DEFINE N == Len(records)
           More(groups, n) == Grouped(groups, records[n], by, current, baseline)
           Body(g, n) == IF n = 0 THEN <<>> ELSE More(g[n - 1], n)
           Made(g, m) == g = [n \in 0..m |-> Body(g, n)]
<1>0. N \in Nat
  BY DEF IsList
<1>1. \E g : Made(g, N)
  <2> DEFINE P == {m \in Nat : \E g : Made(g, m)}
  <2>1. 0 \in P
    <3> DEFINE g == [n \in 0..0 |-> <<>>]
    <3>1. g = [n \in 0..0 |-> Body(g, n)]
      OBVIOUS
    <3> QED BY <3>1
  <2>2. ASSUME NEW m \in P PROVE m + 1 \in P
    <3> HIDE DEF More
    <3>1. PICK g : g = [n \in 0..m |-> Body(g, n)]
      OBVIOUS
    <3> DEFINE h == [n \in 0..(m + 1) |-> IF n = m + 1 THEN More(g[m], m + 1) ELSE g[n]]
    <3>2. \A n \in 0..(m + 1) : h[n] = Body(h, n)
      <4> TAKE n \in 0..(m + 1)
      <4>1. CASE n = m + 1
        BY <4>1
      <4>2. CASE n \in 0..m
        <5>1. h[n] = g[n] /\ g[n] = Body(g, n)
          BY <3>1, <4>2
        <5>2. n # 0 => h[n - 1] = g[n - 1]
          BY <4>2
        <5> QED BY <5>1, <5>2
      <4> QED BY <4>1, <4>2
    <3>3. h = [n \in 0..(m + 1) |-> Body(h, n)]
      BY <3>2
    <3> HIDE DEF h, Body
    <3>4. \E f : Made(f, m + 1)
      BY <3>3
    <3> QED BY <3>4
  <2> HIDE DEF Made
  <2>3. P = Nat
    <3> HIDE DEF P
    <3>1. P \in SUBSET Nat
      BY DEF P
    <3> QED BY <2>1, <2>2, <3>1, EveryNatural
  <2> QED BY <1>0, <2>3
<1> DEFINE after == CHOOSE g : Made(g, N)
<1>2. Made(after, N)
  BY <1>1
<1>3. Groups(records, by, current, baseline) = after[N]
  BY DEF Groups
<1>4. /\ after[0] = <<>>
      /\ \A n \in 1..N : after[n] = Grouped(after[n - 1], records[n], by, current, baseline)
  <2>1. \A n \in 0..N : after[n] = Body(after, n)
    BY <1>2
  <2> HIDE DEF after, N
  <2> QED BY <1>0, <2>1
<1> HIDE DEF after
<1> QED BY <1>3, <1>4

\* The groups that a comparison makes, by induction over the records.
LEMMA GroupsMade ==
  ASSUME NEW resources, NEW records, IsList(records),
         \A i \in 1..Len(records) : IsRecord(records[i]) /\ records[i].resource \in resources \cup {None},
         NEW by, NEW current, NEW baseline
  PROVE  GroupsOK(Groups(records, by, current, baseline), resources)
<1> DEFINE N == Len(records)
<1>0. N \in Nat
  BY DEF IsList
<1>1. PICK after : /\ Groups(records, by, current, baseline) = after[N]
                   /\ after[0] = <<>>
                   /\ \A n \in 1..N : after[n] = Grouped(after[n - 1], records[n], by, current, baseline)
  BY GroupsAfter
<1> HIDE DEF N
<1> DEFINE Q == {m \in Nat : m <= N => GroupsOK(after[m], resources)}
<1>2. 0 \in Q
  <2>1. IsList(<<>>) /\ Len(<<>>) = 0
    BY DEF IsList
  <2>2. GroupsOK(<<>>, resources)
    BY <2>1 DEF GroupsOK
  <2> QED BY <1>1, <2>2
<1>3. ASSUME NEW m \in Q PROVE m + 1 \in Q
  <2> SUFFICES ASSUME m + 1 <= N PROVE GroupsOK(after[m + 1], resources)
    OBVIOUS
  <2>1. m + 1 \in 1..N /\ (m + 1) - 1 = m /\ GroupsOK(after[m], resources)
    BY <1>0
  <2>2. after[m + 1] = Grouped(after[m], records[m + 1], by, current, baseline)
    BY <1>1, <2>1
  <2>3. IsRecord(records[m + 1]) /\ records[m + 1].resource \in resources \cup {None}
    BY <2>1 DEF N
  <2> QED BY <2>1, <2>2, <2>3, GroupedOK
<1>4. Q = Nat
  <2> HIDE DEF Q
  <2>1. Q \in SUBSET Nat
    BY DEF Q
  <2> QED BY <1>2, <1>3, <2>1, EveryNatural
<1> QED BY <1>0, <1>1, <1>4


LEMMA RoundedIsWhole ==
  ASSUME NEW a \in Int, NEW b \in Int, b > 0
  PROVE  RoundDiv(a, b) \in Int
<1>1. a \div b \in Int
  OBVIOUS
<1> QED BY <1>1 DEF RoundDiv

LEMMA DaysCounted ==
  ASSUME NEW p, IsPeriod(p)
  PROVE  Days(p) \in Int /\ Days(p) > 0
BY DEF IsPeriod, Days

\* Sets of whole numbers in a range have a least one.
LEMMA LeastInteger ==
  ASSUME NEW first \in Int, NEW T \in SUBSET Int, T # {}, \A x \in T : first <= x
  PROVE  \E x \in T : \A y \in T : x <= y
<1> DEFINE shifted == {x - first : x \in T}
<1>0. \A x \in T : x - first \in Nat
  OBVIOUS
<1>1. shifted \in SUBSET Nat /\ shifted # {}
  BY <1>0
<1> HIDE DEF shifted
<1>2. PICK d \in shifted : \A e \in shifted : d <= e
  BY <1>1, LeastNatural
<1>3. PICK x \in T : d = x - first
  BY DEF shifted
<1>4. \A y \in T : x <= y
  <2> TAKE y \in T
  <2>1. y - first \in shifted
    BY DEF shifted
  <2>2. d <= y - first
    BY <1>2, <2>1
  <2> QED BY <1>3, <2>2
<1> QED BY <1>4

LEMMA SpikeIsADay ==
  ASSUME NEW g, NEW current, IsPeriod(current), NEW baseline, NEW floor
  PROVE  FirstSpike(g, current, baseline, floor) \in Int \cup {None}
<1> DEFINE cost(day) == SumSeq([i \in 1..Len(g.daily) |->
                                  IF g.daily[i].name = day THEN g.daily[i].cost ELSE 0])
           spikes == {day \in current.start..current.end :
                        cost(day) > floor /\ 2 * Days(baseline) * cost(day) > 3 * g.baseline}
<1>1. FirstSpike(g, current, baseline, floor)
        = IF spikes = {} THEN None ELSE CHOOSE day \in spikes : \A other \in spikes : day <= other
  BY DEF FirstSpike
<1>2. spikes \in SUBSET Int /\ current.start \in Int /\ \A x \in spikes : current.start <= x
  BY DEF IsPeriod
<1> HIDE DEF spikes
<1>3. spikes # {} => \E day \in spikes : \A other \in spikes : day <= other
  BY <1>2, LeastInteger
<1> QED BY <1>1, <1>2, <1>3

\* A unit cost is a fraction, or not known.
IsUnitCost(u) == u = None \/ (u[1] \in Int /\ u[2] \in Int /\ u[2] > 0)

IsCandidate(c, resources) ==
  /\ c.change \in Int
  /\ c.percent \in Int \cup {None}
  /\ c.quantityPercent \in Int \cup {None}
  /\ c.used \in BOOLEAN
  /\ IsUnitCost(c.unitBefore) /\ IsUnitCost(c.unitNow)
  /\ c.spike \in Int \cup {None}
  /\ c.resource \in resources \cup {None}

LEMMA CandidateOK ==
  ASSUME NEW resources, NEW g, IsGroup(g, resources), NEW current, IsPeriod(current),
         NEW baseline, IsPeriod(baseline), NEW config
  PROVE  /\ IsCandidate(Candidate(g, current, baseline, config), resources)
         /\ Candidate(g, current, baseline, config).key = g.key
<1> DEFINE c == Candidate(g, current, baseline, config)
           expected == Expected(g.baseline, current, baseline)
<1>1. /\ g.current \in Int /\ g.baseline \in Int /\ g.currentQuantity \in Int
      /\ g.baselineQuantity \in Int /\ g.resource \in resources \cup {None}
  BY DEF IsGroup
<1>2. Days(current) \in Int /\ Days(current) > 0 /\ Days(baseline) \in Int /\ Days(baseline) > 0
  BY DaysCounted
<1>3. expected \in Int
  <2>1. g.baseline * Days(current) \in Int
    BY <1>1, <1>2
  <2> QED BY <1>2, <2>1, RoundedIsWhole DEF Expected
<1>4. Percent(g.current, expected) \in Int \cup {None}
  <2> HIDE DEF expected
  <2>1. CASE expected <= 0
    BY <2>1 DEF Percent
  <2>2. CASE expected > 0
    <3>1. (g.current - expected) * 100000 \in Int
      BY <1>1, <1>3
    <3>2. RoundDiv((g.current - expected) * 100000, expected) \in Int
      BY <1>3, <2>2, <3>1, RoundedIsWhole
    <3> QED BY <3>2 DEF Percent
  <2> QED BY <1>3, <2>1, <2>2
<1>5. c.quantityPercent \in Int \cup {None}
  <2> DEFINE above == (g.currentQuantity * Days(baseline) - g.baselineQuantity * Days(current)) * 100000
             below == g.baselineQuantity * Days(current)
  <2>1. c.quantityPercent = IF g.baselineQuantity <= 0 THEN None ELSE RoundDiv(above, below)
    BY DEF Candidate
  <2>2. above \in Int /\ below \in Int
    BY <1>1, <1>2
  <2>3. g.baselineQuantity > 0 => below > 0
    BY <1>1, <1>2
  <2> HIDE DEF above, below, c
  <2>4. CASE g.baselineQuantity > 0
    BY <2>1, <2>2, <2>3, <2>4, RoundedIsWhole
  <2>5. CASE g.baselineQuantity <= 0
    BY <2>1, <2>5
  <2> QED BY <1>1, <2>4, <2>5
<1>6. IsUnitCost(UnitCost(g.baseline, g.baselineQuantity)) /\ IsUnitCost(UnitCost(g.current, g.currentQuantity))
  BY <1>1 DEF UnitCost, IsUnitCost
<1>7. FirstSpike(g, current, baseline, config.spikeFloor) \in Int \cup {None}
  BY SpikeIsADay
<1> HIDE DEF expected
<1>8. /\ c.change = g.current - expected /\ c.percent = Percent(g.current, expected)
      /\ c.used \in BOOLEAN /\ c.key = g.key /\ c.resource = g.resource
      /\ c.unitBefore = UnitCost(g.baseline, g.baselineQuantity)
      /\ c.unitNow = UnitCost(g.current, g.currentQuantity)
      /\ c.spike = FirstSpike(g, current, baseline, config.spikeFloor)
  BY DEF Candidate, expected
<1>9. c.change \in Int
  BY <1>1, <1>3, <1>8
<1> HIDE DEF c
<1>10. IsCandidate(c, resources)
  BY <1>1, <1>4, <1>5, <1>6, <1>7, <1>8, <1>9 DEF IsCandidate
<1> QED BY <1>8, <1>10 DEF c

\* Candidates with whole figures, no two for one key.
CandidatesOK(candidates, resources) ==
  /\ IsList(candidates)
  /\ \A i \in 1..Len(candidates) : IsCandidate(candidates[i], resources)
  /\ \A i, j \in 1..Len(candidates) : candidates[i].key = candidates[j].key => i = j

LEMMA SortedByChange ==
  ASSUME NEW resources, NEW groups, GroupsOK(groups, resources)
  PROVE  GroupsOK(ByRawChange(groups), resources)
<1> DEFINE n == Len(groups)
           change(i) == groups[i].current - groups[i].baseline
           before == {p \in (1..n) \X (1..n) : \/ change(p[1]) > change(p[2])
                                               \/ change(p[1]) = change(p[2]) /\ p[1] < p[2]}
           order == Ordering(1..n, before)
           sorted == Rearranged(groups, order)
<1>1. ByRawChange(groups) = sorted
  BY DEF ByRawChange, Rearranged
<1>2. Orders(before, 1..n)
  <2>1. \A i \in 1..n : change(i) \in Int
    BY DEF GroupsOK, IsGroup
  <2> HIDE DEF change
  <2>2. \A i, j \in 1..n : <<i, j>> \in before <=> change(i) > change(j) \/ (change(i) = change(j) /\ i < j)
    OBVIOUS
  <2> HIDE DEF before, n
  <2>3. 1..n \in SUBSET Int
    OBVIOUS
  <2> QED BY <2>1, <2>2, <2>3 DEF Orders
<1>3. IsList(groups)
  BY DEF GroupsOK
<1> HIDE DEF before
<1>4. Sorts(sorted, groups, order, before)
  BY <1>2, <1>3, Sorted
<1> HIDE DEF order, sorted
<1> HIDE DEF n
<1>5. /\ IsList(sorted) /\ Len(sorted) = n
      /\ \A m \in 1..n : order[m] \in 1..n /\ sorted[m] = groups[order[m]]
      /\ \A l, m \in 1..n : order[l] = order[m] => l = m
  BY <1>4 DEF Sorts, n
<1>6. /\ \A i \in 1..n : IsGroup(groups[i], resources)
      /\ \A i, j \in 1..n : groups[i].key = groups[j].key => i = j
  BY DEF GroupsOK, n
<1>7. \A m \in 1..n : IsGroup(sorted[m], resources)
  BY <1>5, <1>6
<1>8. ASSUME NEW l \in 1..n, NEW m \in 1..n, sorted[l].key = sorted[m].key PROVE l = m
  <2>1. groups[order[l]].key = groups[order[m]].key
    BY <1>5, <1>8
  <2> QED BY <1>5, <1>6, <2>1
<1>9. GroupsOK(sorted, resources)
  BY <1>5, <1>7, <1>8 DEF GroupsOK
<1> QED BY <1>1, <1>9

\* What a comparison shows are the candidates of its groups that matter, the first of them.
LEMMA AllCandidatesOK ==
  ASSUME NEW resources, NEW records, IsList(records),
         \A i \in 1..Len(records) : IsRecord(records[i]) /\ records[i].resource \in resources \cup {None},
         NEW current, IsPeriod(current), NEW baseline, IsPeriod(baseline), NEW config
  PROVE  CandidatesOK(AllCandidates(records, current, baseline, config), resources)
<1> DEFINE groups == ByRawChange(Groups(records, "finest", current, baseline))
           all == [i \in 1..Len(groups) |-> Candidate(groups[i], current, baseline, config)]
<1>1. GroupsOK(Groups(records, "finest", current, baseline), resources)
  BY GroupsMade
<1>2. GroupsOK(groups, resources)
  BY <1>1, SortedByChange
<1>3. AllCandidates(records, current, baseline, config) = all
  BY DEF AllCandidates
<1> HIDE DEF groups
<1>4. Len(groups) \in Nat
  BY <1>2 DEF GroupsOK, IsList
<1>5. IsList(all) /\ Len(all) = Len(groups)
  BY <1>4, ListOf
<1>6. ASSUME NEW i \in 1..Len(groups)
      PROVE  IsCandidate(all[i], resources) /\ all[i].key = groups[i].key
  <2>1. IsGroup(groups[i], resources)
    BY <1>2 DEF GroupsOK
  <2>2. /\ IsCandidate(Candidate(groups[i], current, baseline, config), resources)
        /\ Candidate(groups[i], current, baseline, config).key = groups[i].key
    BY <2>1, CandidateOK
  <2> QED BY <2>2
<1> HIDE DEF all
<1>7. \A i, j \in 1..Len(groups) : groups[i].key = groups[j].key => i = j
  BY <1>2 DEF GroupsOK
<1>8. CandidatesOK(all, resources)
  BY <1>5, <1>6, <1>7 DEF CandidatesOK
<1> QED BY <1>3, <1>8

\* A part of the candidates, in their order, is as good.
LEMMA CandidatesKept ==
  ASSUME NEW resources, NEW all, CandidatesOK(all, resources), NEW places \in SUBSET (1..Len(all))
  PROVE  CandidatesOK(ElementsAt(all, places), resources)
<1> DEFINE list == ElementsAt(all, places)
           k == Cardinality(places)
<1>1. Len(all) \in Nat
  BY DEF CandidatesOK, IsList
<1>2. Keeps(list, all, places)
  BY <1>1, Filtered
<1> HIDE DEF list
<1>3. IsList(list) /\ Len(list) = k
  BY <1>2, KeptIsList
<1>4. PICK from \in [1..k -> places] :
        /\ \A l, m \in 1..k : l < m => from[l] < from[m]
        /\ \A m \in 1..k : list[m] = all[from[m]]
  BY <1>2 DEF Keeps
<1>5. k \in Nat
  BY <1>2 DEF Keeps
<1> HIDE DEF k
<1>6. \A m \in 1..k : from[m] \in 1..Len(all) /\ list[m] = all[from[m]]
  BY <1>4
<1>7. ASSUME NEW l \in 1..k, NEW m \in 1..k, list[l].key = list[m].key PROVE l = m
  <2>1. all[from[l]].key = all[from[m]].key
    BY <1>6, <1>7
  <2>2. from[l] = from[m]
    BY <1>6, <2>1 DEF CandidatesOK
  <2>3. from[l] \in Int /\ from[m] \in Int
    BY <1>6
  <2>4. ~(l < m) /\ ~(m < l)
    BY <1>4, <2>2, <2>3
  <2> QED BY <1>5, <2>4
<1>8. \A m \in 1..k : IsCandidate(list[m], resources)
  BY <1>6 DEF CandidatesOK
<1>9. CandidatesOK(list, resources)
  BY <1>3, <1>7, <1>8 DEF CandidatesOK
<1> QED BY <1>9 DEF list

LEMMA CandidatesCut ==
  ASSUME NEW resources, NEW all, CandidatesOK(all, resources), NEW limit \in Nat
  PROVE  CandidatesOK(SubSeq(all, 1, Smaller(Len(all), limit)), resources)
<1> DEFINE n == Smaller(Len(all), limit)
           list == SubSeq(all, 1, n)
           V == {all[i] : i \in 1..n}
<1>1. Len(all) \in Nat
  BY DEF CandidatesOK, IsList
<1>2. n \in Nat /\ n <= Len(all)
  BY <1>1 DEF Smaller
<1> HIDE DEF n
<1>3. \A i \in 1..n : all[i] \in V
  OBVIOUS
<1> HIDE DEF V
<1>4. /\ list \in Seq(V) /\ Len(list) = IF 1 <= n THEN n - 1 + 1 ELSE 0
      /\ \A i \in 1..(n - 1 + 1) : list[i] = all[1 + i - 1]
  BY <1>2, <1>3, SubSeqProperties
<1> HIDE DEF list
<1>5. Len(list) = n /\ \A i \in 1..n : i \in 1..Len(all) /\ list[i] = all[i]
  BY <1>1, <1>2, <1>4
<1>6. IsList(list)
  <2>1. list \in [1..Len(list) -> V] /\ Len(list) \in Nat
    BY <1>4, LenProperties
  <2> QED BY <2>1 DEF IsList
<1>7. CandidatesOK(list, resources)
  BY <1>5, <1>6 DEF CandidatesOK
<1> QED BY <1>7 DEF list, n

LEMMA ComparedOK ==
  ASSUME NEW resources, NEW records, IsList(records),
         \A i \in 1..Len(records) : IsRecord(records[i]) /\ records[i].resource \in resources \cup {None},
         NEW current, IsPeriod(current), NEW baseline, IsPeriod(baseline), NEW config, config.maxCandidates \in Nat
  PROVE  CandidatesOK(CompareProvider(records, current, baseline, config).candidates, resources)
<1> DEFINE all == AllCandidates(records, current, baseline, config)
           material == ElementsAt(all, {i \in 1..Len(all) : IsMaterial(all[i], config)})
<1>1. CandidatesOK(all, resources)
  BY AllCandidatesOK
<1>2. CandidatesOK(material, resources)
  <2> HIDE DEF all
  <2>1. {i \in 1..Len(all) : IsMaterial(all[i], config)} \in SUBSET (1..Len(all))
    OBVIOUS
  <2> QED BY <1>1, <2>1, CandidatesKept
<1>3. CompareProvider(records, current, baseline, config).candidates
        = SubSeq(material, 1, Smaller(Len(material), config.maxCandidates))
  BY DEF CompareProvider
<1> HIDE DEF material
<1> QED BY <1>2, <1>3, CandidatesCut

-----------------------------------------------------------------------------
(* Which rule is cited. *)

LEMMA MostRecentChosen ==
  ASSUME NEW rules, NEW n \in Nat, NEW among \in SUBSET (1..n), among # {},
         \A i \in among : rules[i].from \in Int \cup {None}
  PROVE  /\ MostRecent(rules, among) \in among
         /\ \A j \in among : rules[j].from # None /\ rules[MostRecent(rules, among)].from # None =>
              rules[j].from <= rules[MostRecent(rules, among)].from
<1> DEFINE start(i) == IF rules[i].from = None THEN 0 ELSE rules[i].from
           before == {p \in among \X among : start(p[1]) > start(p[2]) \/ (start(p[1]) = start(p[2]) /\ p[1] < p[2])}
           newest == {i \in among : \A j \in among : start(j) <= start(i)}
<1>a. \A i \in among : i \in Nat
  OBVIOUS
<1>b. ASSUME NEW i \in among PROVE start(i) \in Int
  <2>1. rules[i].from = None \/ rules[i].from \in Int
    OBVIOUS
  <2> QED BY <2>1
<1>1. \A i \in among : start(i) \in Int /\ i \in Nat
  BY <1>a, <1>b
<1>2. IsFiniteSet(among)
  <2>1. IsFiniteSet(1..n)
    BY UpTo
  <2> QED BY <2>1, FS_Subset
<1>3. \A i, j \in among : <<i, j>> \in before <=> start(i) > start(j) \/ (start(i) = start(j) /\ i < j)
  OBVIOUS
<1>4. \A i \in among : rules[i].from # None => start(i) = rules[i].from
  OBVIOUS
<1>5. MostRecent(rules, among) = CHOOSE i \in newest : \A j \in newest : i <= j
  BY DEF MostRecent
<1> HIDE DEF start, before
<1>6. Orders(before, among)
  BY <1>1, <1>3 DEF Orders
<1>7. newest # {}
  <2> DEFINE order == Ordering(among, before)
             k == Cardinality(among)
  <2>1. Lists(order, among, before)
    BY <1>2, <1>6, OrderingLists
  <2> HIDE DEF order
  <2>2. /\ k \in Nat /\ order \in [1..k -> among]
        /\ \A l, m \in 1..k : l < m => <<order[l], order[m]>> \in before
        /\ \A x \in among : \E m \in 1..k : order[m] = x
    BY <2>1 DEF Lists
  <2> HIDE DEF k
  <2>3. 1 \in 1..k
    <3>1. PICK x \in among : TRUE
      OBVIOUS
    <3>2. PICK m \in 1..k : order[m] = x
      BY <2>2, <3>1
    <3> QED BY <2>2
  <2>4. order[1] \in among
    BY <2>2, <2>3
  <2>5. \A x \in among : x = order[1] \/ <<order[1], x>> \in before
    <3> TAKE x \in among
    <3>1. PICK m \in 1..k : order[m] = x
      BY <2>2
    <3>2. m = 1 \/ 1 < m
      BY <2>2
    <3> QED BY <2>2, <2>3, <3>1, <3>2
  <2>6. \A x \in among : start(x) <= start(order[1])
    <3> TAKE x \in among
    <3>1. start(x) \in Int /\ start(order[1]) \in Int
      BY <1>1, <2>4
    <3>2. x = order[1] \/ start(order[1]) > start(x) \/ start(order[1]) = start(x)
      BY <1>3, <2>4, <2>5
    <3> QED BY <3>1, <3>2
  <2>7. order[1] \in newest
    BY <2>4, <2>6
  <2> QED BY <2>7
<1>8. newest \in SUBSET Nat
  BY <1>1
<1>9. \E i \in newest : \A j \in newest : i <= j
  <2> HIDE DEF newest
  <2> QED BY <1>7, <1>8, LeastNatural
<1>10. MostRecent(rules, among) \in newest
  <2> HIDE DEF newest
  <2> QED BY <1>5, <1>9
<1> QED BY <1>4, <1>10

\* A rule of this rank and date.
Rivals(c, rules) ==
  {i \in 1..Len(rules) : /\ rules[i].services = c.rule.services
                         /\ rules[i].categories = c.rule.categories
                         /\ rules[i].service = c.rule.service}

RuleInForce(c, rules) ==
  LET inForce == {i \in Rivals(c, rules) : EffectiveOn(rules[i], c.date)}
  IN  IF c.from = None THEN inForce = {}
      ELSE EffectiveOn(c.rule, c.date) /\ \A i \in inForce : rules[i].from <= c.from


\* A citation repeats when its rule came into force, and names the date it was looked up for.
Dated(c, date) == c.date = date /\ c.from = c.rule.from /\ c.from \in Int \cup {None}

LEMMA SelectedInForce ==
  ASSUME NEW rules, RulesDated(rules), NEW service, NEW category, NEW date, date # None,
         NEW on, NEW maxAge
  PROVE  LET c == Select(rules, service, category, date, on, maxAge)
         IN  c.found => RuleInForce(c, rules) /\ Dated(c, date)
<1> DEFINE c == Select(rules, service, category, date, on, maxAge)
           pool == Pool(rules, service, category)
           effective == {i \in pool : EffectiveOn(rules[i], date)}
           undated == {i \in pool : rules[i].from = None}
           first == CHOOSE i \in undated : \A j \in undated : i <= j
           cite(i) == Citation(rules[i], date, on, maxAge)
<1>1. Len(rules) \in Nat /\ \A i \in 1..Len(rules) : rules[i].from \in Int \cup {None}
  BY DEF RulesDated, IsList
<1>2. pool \in SUBSET (1..Len(rules))
  BY DEF Pool
<1>3. ASSUME NEW k \in pool, NEW i \in Rivals(cite(k), rules) PROVE i \in pool
  <2>1. /\ i \in 1..Len(rules) /\ k \in 1..Len(rules)
        /\ rules[i].services = rules[k].services /\ rules[i].categories = rules[k].categories
        /\ rules[i].service = rules[k].service
    BY <1>2 DEF Rivals, Citation
  <2>2. /\ MatchScore(rules[i], service, category) = MatchScore(rules[k], service, category)
        /\ IsGeneric(rules[i]) = IsGeneric(rules[k])
    BY <2>1 DEF MatchScore, IsGeneric
  <2> DEFINE scored == {j \in 1..Len(rules) : MatchScore(rules[j], service, category) > 0}
  <2>3. CASE scored # {}
    <3>1. pool = {j \in scored : \A l \in scored : MatchScore(rules[l], service, category) <= MatchScore(rules[j], service, category)}
      BY <2>3 DEF Pool
    <3> QED BY <2>1, <2>2, <3>1
  <2>4. CASE scored = {}
    <3>1. pool = {j \in 1..Len(rules) : IsGeneric(rules[j])}
      BY <2>4 DEF Pool
    <3> QED BY <2>1, <2>2, <3>1
  <2> QED BY <2>3, <2>4
<1>4. \A k : /\ cite(k).date = date /\ cite(k).rule = rules[k] /\ cite(k).from = rules[k].from
  BY DEF Citation
<1> HIDE DEF pool
<1>5. ASSUME effective # {}
      PROVE  RuleInForce(cite(MostRecent(rules, effective)), rules) /\ Dated(cite(MostRecent(rules, effective)), date)
  <2> DEFINE k == MostRecent(rules, effective)
  <2>1. /\ k \in effective
        /\ \A j \in effective : rules[j].from # None /\ rules[k].from # None => rules[j].from <= rules[k].from
    <3> HIDE DEF k
    <3>1. effective \in SUBSET (1..Len(rules)) /\ \A i \in effective : rules[i].from \in Int \cup {None}
      BY <1>1, <1>2
    <3> HIDE DEF effective
    <3> QED BY <1>1, <1>5, <3>1, MostRecentChosen DEF k
  <2> HIDE DEF k
  <2>2. \A i \in effective : rules[i].from # None /\ i \in pool
    BY DEF EffectiveOn
  <2>3. \A i \in Rivals(cite(k), rules) : EffectiveOn(rules[i], date) => i \in effective
    BY <1>3, <2>1
  <2>4. EffectiveOn(rules[k], date)
    BY <2>1
  <2>7. Dated(cite(k), date)
    <3>1. rules[k].from \in Int \cup {None}
      BY <1>1, <1>2, <2>1
    <3> HIDE DEF cite
    <3> QED BY <1>4, <3>1 DEF Dated
  <2> HIDE DEF effective
  <2>5. \A i \in Rivals(cite(k), rules) : EffectiveOn(rules[i], date) => rules[i].from <= rules[k].from
    BY <2>1, <2>2, <2>3
  <2> HIDE DEF cite
  <2>6. RuleInForce(cite(k), rules)
    BY <1>4, <2>1, <2>2, <2>4, <2>5 DEF RuleInForce
  <2> QED BY <2>6, <2>7 DEF k
<1>6. ASSUME effective = {}, undated # {} PROVE RuleInForce(cite(first), rules) /\ Dated(cite(first), date)
  <2>1. first \in undated
    <3>a. undated \in SUBSET (1..Len(rules))
      BY <1>2
    <3> HIDE DEF undated
    <3>1. undated \in SUBSET Nat
      BY <1>1, <3>a
    <3>2. \E i \in undated : \A j \in undated : i <= j
      BY <1>6, <3>1, LeastNatural
    <3> QED BY <3>2
  <2> HIDE DEF first
  <2>2. \A i \in Rivals(cite(first), rules) : i \in pool
    BY <1>3, <2>1
  <2>3. \A i \in Rivals(cite(first), rules) : ~EffectiveOn(rules[i], date)
    BY <1>6, <2>2
  <2>4. rules[first].from = None
    BY <2>1
  <2> HIDE DEF cite
  <2>5. Dated(cite(first), date)
    BY <1>4, <2>4 DEF Dated
  <2>6. RuleInForce(cite(first), rules)
    BY <1>4, <2>3, <2>4 DEF RuleInForce
  <2> QED BY <2>5, <2>6
<1>7. c.found => \/ effective # {} /\ c = cite(MostRecent(rules, effective))
                 \/ effective = {} /\ undated # {} /\ c = cite(first)
  BY DEF Select, NotFound, pool
<1> HIDE DEF c, effective, undated, first
<1>8. c.found => RuleInForce(c, rules) /\ Dated(c, date)
  BY <1>5, <1>6, <1>7
<1> QED BY <1>8 DEF c

\* Every rule a finding of the playbooks cites.
CitedBy(found) == UNION {found[i].rules : i \in 1..Len(found)}

LEMMA PlaybooksFind ==
  ASSUME NEW candidates, IsList(candidates), NEW wanted, NEW limit \in Nat, NEW specs, NEW bundles,
         NEW rules, NEW on, NEW maxAge, NEW current, NEW cent
  PROVE  LET found == RunPlaybooks(candidates, wanted, limit, specs, bundles, rules, on, maxAge, current, cent)
         IN  /\ IsList(found)
             /\ \A i \in 1..Len(found) : \E j \in 1..Len(candidates) :
                  LET c == candidates[j]
                      spec == SelectPlaybook(c, specs, bundles[c.key], current)
                  IN  found[i] = BuildFinding(c, spec, bundles[c.key],
                                   Select(rules, c.service, spec.category, RuleDate(c, current), on, maxAge),
                                   current, cent)
<1> DEFINE places == {i \in 1..Len(candidates) : wanted = {} \/ candidates[i].key \in wanted}
           asked == ElementsAt(candidates, places)
           spec(c) == SelectPlaybook(c, specs, bundles[c.key], current)
           finding(c) == BuildFinding(c, spec(c), bundles[c.key],
                           Select(rules, c.service, spec(c).category, RuleDate(c, current), on, maxAge),
                           current, cent)
           n == Smaller(Len(asked), limit)
           found == [i \in 1..n |-> finding(asked[i])]
<1>1. RunPlaybooks(candidates, wanted, limit, specs, bundles, rules, on, maxAge, current, cent) = found
  BY DEF RunPlaybooks
<1>2. Len(candidates) \in Nat /\ places \in SUBSET (1..Len(candidates))
  BY DEF IsList
<1> HIDE DEF finding, places
<1>3. Keeps(asked, candidates, places)
  BY <1>2, Filtered
<1> HIDE DEF asked
<1>4. IsList(asked) /\ DOMAIN asked = 1..Len(asked)
  <2>1. IsList(asked) /\ Len(asked) = Cardinality(places)
    BY <1>3, KeptIsList
  <2> QED BY <1>3, <2>1 DEF Keeps
<1>5. n \in Nat /\ n <= Len(asked)
  BY <1>4 DEF IsList, Smaller
<1> HIDE DEF n
<1>6. IsList(found) /\ Len(found) = n
  BY <1>5, ListOf
<1>7. ASSUME NEW i \in 1..n PROVE \E j \in 1..Len(candidates) : found[i] = finding(candidates[j])
  <2>1. i \in DOMAIN asked
    BY <1>4, <1>5 DEF IsList
  <2>2. PICK j \in places : asked[i] = candidates[j]
    BY <1>3, <2>1, KeptPlace
  <2>3. found[i] = finding(candidates[j])
    BY <2>2
  <2> QED BY <1>2, <2>3
<1> HIDE DEF found
<1>8. IsList(found) /\ \A i \in 1..Len(found) : \E j \in 1..Len(candidates) : found[i] = finding(candidates[j])
  BY <1>6, <1>7
<1> QED BY <1>1, <1>8 DEF finding, found

LEMMA CitedInForce ==
  ASSUME NEW candidates, IsList(candidates), NEW wanted, NEW limit \in Nat, NEW specs, NEW bundles,
         NEW rules, RulesDated(rules), NEW on, NEW maxAge, NEW current, current.end \in Int, NEW cent
  PROVE  \A c \in CitedBy(RunPlaybooks(candidates, wanted, limit, specs, bundles, rules, on, maxAge,
                                       current, cent)) : RuleInForce(c, rules)
<1> DEFINE found == RunPlaybooks(candidates, wanted, limit, specs, bundles, rules, on, maxAge, current, cent)
           spec(c) == SelectPlaybook(c, specs, bundles[c.key], current)
           rule(c) == Select(rules, c.service, spec(c).category, RuleDate(c, current), on, maxAge)
           finding(c) == BuildFinding(c, spec(c), bundles[c.key], rule(c), current, cent)
<1>1. \A i \in 1..Len(found) : \E j \in 1..Len(candidates) : found[i] = finding(candidates[j])
  BY PlaybooksFind
<1>2. \A c : RuleDate(c, current) # None
  BY NoneAssumption DEF RuleDate
<1>3. \A c : rule(c).found => RuleInForce(rule(c), rules)
  <2> TAKE c
  <2> QED BY <1>2, SelectedInForce
<1> HIDE DEF rule, spec
<1>4. \A c : finding(c).rules = IF rule(c).found THEN {rule(c)} ELSE {}
  BY DEF BuildFinding
<1> HIDE DEF found, finding
<1>5. ASSUME NEW c \in CitedBy(found) PROVE RuleInForce(c, rules)
  <2>1. PICK i \in 1..Len(found) : c \in found[i].rules
    BY DEF CitedBy
  <2>2. PICK j \in 1..Len(candidates) : found[i] = finding(candidates[j])
    BY <1>1
  <2>3. found[i].rules = IF rule(candidates[j]).found THEN {rule(candidates[j])} ELSE {}
    BY <1>4, <2>2
  <2>4. rule(candidates[j]).found /\ c = rule(candidates[j])
    BY <2>1, <2>3
  <2>5. RuleInForce(rule(candidates[j]), rules)
    BY <1>3, <2>4
  <2> QED BY <2>4, <2>5
<1> QED BY <1>5 DEF found

-----------------------------------------------------------------------------
(* Bills stay bills, from a file or a ledger to the records of a report. *)

LEMMA KeptList ==
  ASSUME NEW s, IsList(s), NEW places \in SUBSET (1..Len(s))
  PROVE  /\ IsList(ElementsAt(s, places))
         /\ \A m \in 1..Len(ElementsAt(s, places)) : \E i \in places : ElementsAt(s, places)[m] = s[i]
<1>1. Keeps(ElementsAt(s, places), s, places)
  BY Filtered DEF IsList
<1>2. IsList(ElementsAt(s, places)) /\ Len(ElementsAt(s, places)) = Cardinality(places)
  BY <1>1, KeptIsList
<1>3. \A m \in 1..Cardinality(places) : \E i \in places : ElementsAt(s, places)[m] = s[i]
  BY <1>1, KeptPlace DEF Keeps
<1> QED BY <1>2, <1>3

LEMMA KeptBill ==
  ASSUME NEW records, IsBill(records), NEW places \in SUBSET (1..Len(records))
  PROVE  IsBill(ElementsAt(records, places))
<1>1. IsList(records) /\ \A i \in 1..Len(records) : IsRecord(records[i])
  BY DEF IsBill
<1>2. /\ IsList(ElementsAt(records, places))
      /\ \A m \in 1..Len(ElementsAt(records, places)) : \E i \in places : ElementsAt(records, places)[m] = records[i]
  BY <1>1, KeptList
<1> QED BY <1>1, <1>2 DEF IsBill

RecordFields == {"service", "region", "resource", "owner", "actor", "sku", "day", "cost", "billed",
                 "quantity", "account", "category", "currency"}

\* A record of a parser, whatever names it has.
IsParsed(r) == DOMAIN r = RecordFields /\ IsRecord(r) /\ IsUnsplit(r) /\ r.billed \in Int

LEMMA RecordMade ==
  ASSUME NEW row, IsRow(row), NEW service, NEW category, NEW billed \in Int, NEW effective \in Int
  PROVE  LET r == NewRecord(row, service, category, billed, effective)
         IN  IsParsed(r) /\ r.service = FirstOf(service, "unknown") /\ r.resource = row.resource
<1> DEFINE r == NewRecord(row, service, category, billed, effective)
<1>1. row.day \in Int /\ Amount(row.quantity) \in Int
  BY DEF IsRow, Amount, FirstOf
<1>2. /\ DOMAIN r = RecordFields
      /\ r.cost = effective /\ r.quantity = Amount(row.quantity) /\ r.day = row.day /\ r.billed = billed
      /\ r.service = FirstOf(service, "unknown") /\ r.resource = row.resource
  BY DEF NewRecord, RecordFields
<1>3. IsUnsplit(r)
  BY DEF NewRecord, IsUnsplit
<1> HIDE DEF r
<1>4. IsParsed(r)
  <2>1. r.service # None
    BY <1>2, NoneAssumption DEF FirstOf
  <2> QED BY <1>1, <1>2, <1>3, <2>1 DEF IsParsed, IsRecord
<1> QED BY <1>2, <1>4 DEF r

\* The service of a parsed row is one that the row names.
ParsedFrom(r, row) ==
  /\ IsParsed(r) /\ r.resource = row.resource
  /\ r.service # "unknown" => r.service \in {row.service, row.product} \ {None}

LEMMA ParsedOK ==
  ASSUME NEW format \in {"aws", "azure", "gcp"}, NEW rows, IsLedger(rows)
  PROVE  /\ IsList(Parse(format, rows)) /\ Len(Parse(format, rows)) = Len(rows)
         /\ \A i \in 1..Len(rows) : ParsedFrom(Parse(format, rows)[i], rows[i])
<1> DEFINE record(row) == CASE format = "aws"   -> AwsRecord(row)
                            [] format = "azure" -> AzureRecord(row)
                            [] format = "gcp"   -> GcpRecord(row)
           parsed == [i \in 1..Len(rows) |-> record(rows[i])]
<1>1. Parse(format, rows) = parsed
  BY DEF Parse
<1>2. Len(rows) \in Nat /\ \A i \in 1..Len(rows) : IsRow(rows[i])
  BY DEF IsLedger, IsList
<1>3. ASSUME NEW row, IsRow(row) PROVE ParsedFrom(record(row), row)
  <2>1. /\ Amount(row.cost) \in Int /\ FirstOf(row.amortized, Amount(row.cost)) \in Int
        /\ Amount(row.credits) \in Int
    BY <1>3 DEF IsRow, Amount, FirstOf
  <2>2. Amount(row.cost) + Amount(row.credits) \in Int
    BY <2>1
  <2>3. \A service : FirstOf(service, "unknown") # "unknown" => service # None /\ FirstOf(service, "unknown") = service
    BY DEF FirstOf
  <2>4. FirstOf(row.service, row.product) \in {row.service, row.product}
    BY DEF FirstOf
  <2>5. CASE format = "aws"
    <3>1. record(row) = NewRecord(row, FirstOf(row.service, row.product), ChargeCategory(AwsChargeTypes, row.kind),
                                  Amount(row.cost), FirstOf(row.amortized, Amount(row.cost)))
      BY <2>5 DEF AwsRecord
    <3> HIDE DEF record
    <3>2. /\ IsParsed(record(row)) /\ record(row).service = FirstOf(FirstOf(row.service, row.product), "unknown")
          /\ record(row).resource = row.resource
      BY <1>3, <2>1, <3>1, RecordMade
    <3> QED BY <2>3, <2>4, <3>2 DEF ParsedFrom
  <2>6. CASE format = "azure"
    <3>1. record(row) = NewRecord(row, row.service, ChargeCategory(AzureChargeTypes, row.kind),
                                  Amount(row.cost), FirstOf(row.amortized, Amount(row.cost)))
      BY <2>6 DEF AzureRecord
    <3> HIDE DEF record
    <3>2. /\ IsParsed(record(row)) /\ record(row).service = FirstOf(row.service, "unknown")
          /\ record(row).resource = row.resource
      BY <1>3, <2>1, <3>1, RecordMade
    <3> QED BY <2>3, <3>2 DEF ParsedFrom
  <2>7. CASE format = "gcp"
    <3>1. record(row) = NewRecord(row, row.service, IF Amount(row.cost) >= 0 THEN "usage" ELSE "credit",
                                  Amount(row.cost), Amount(row.cost) + Amount(row.credits))
      BY <2>7 DEF GcpRecord
    <3> HIDE DEF record
    <3>2. /\ IsParsed(record(row)) /\ record(row).service = FirstOf(row.service, "unknown")
          /\ record(row).resource = row.resource
      BY <1>3, <2>1, <2>2, <3>1, RecordMade
    <3> QED BY <2>3, <3>2 DEF ParsedFrom
  <2> HIDE DEF record
  <2> QED BY <2>5, <2>6, <2>7
<1> HIDE DEF record
<1>4. IsList(parsed) /\ Len(parsed) = Len(rows)
  BY <1>2, ListOf
<1>5. \A i \in 1..Len(rows) : ParsedFrom(parsed[i], rows[i])
  BY <1>2, <1>3
<1> QED BY <1>1, <1>4, <1>5

\* A record that is kept for a dataset has names of the alphabet.
IsStored(r) == IsParsed(r) /\ r.service \in Listed /\ r.resource \in Listed \cup {None}
AreStored(s) == IsList(s) /\ \A i \in 1..Len(s) : IsStored(s[i])

LEMMA BucketAdded ==
  ASSUME NEW buckets, AreStored(buckets), NEW r, IsStored(r)
  PROVE  AreStored(AddToBucket(buckets, r))
<1> DEFINE at == {i \in 1..Len(buckets) : AggregationKey(buckets[i]) = AggregationKey(r)}
           sum(b) == [b EXCEPT !.quantity = @ + r.quantity, !.billed = @ + r.billed, !.cost = @ + r.cost]
           added == [i \in 1..Len(buckets) |-> IF i \notin at THEN buckets[i] ELSE sum(buckets[i])]
<1>1. AddToBucket(buckets, r) = Append(buckets, r) \/ AddToBucket(buckets, r) = added
  BY DEF AddToBucket
<1>2. IsList(buckets) /\ Len(buckets) \in Nat /\ \A i \in 1..Len(buckets) : IsStored(buckets[i])
  BY DEF AreStored, IsList
<1>3. AreStored(Append(buckets, r))
  <2>1. /\ IsList(Append(buckets, r)) /\ Len(Append(buckets, r)) = Len(buckets) + 1
        /\ Append(buckets, r)[Len(buckets) + 1] = r
        /\ \A i \in 1..Len(buckets) : Append(buckets, r)[i] = buckets[i]
    BY <1>2, Appended
  <2>2. \A i \in 1..(Len(buckets) + 1) : i \in 1..Len(buckets) \/ i = Len(buckets) + 1
    BY <1>2
  <2> QED BY <1>2, <2>1, <2>2 DEF AreStored
<1>4. ASSUME NEW b, IsStored(b) PROVE IsStored(sum(b))
  <2>1. /\ b.quantity \in Int /\ b.billed \in Int /\ b.cost \in Int
        /\ r.quantity \in Int /\ r.billed \in Int /\ r.cost \in Int
    BY <1>4 DEF IsStored, IsParsed, IsRecord
  <2>2. DOMAIN b = RecordFields
    BY <1>4 DEF IsStored, IsParsed
  <2>3. /\ DOMAIN sum(b) = RecordFields
        /\ sum(b).quantity = b.quantity + r.quantity /\ sum(b).billed = b.billed + r.billed
        /\ sum(b).cost = b.cost + r.cost /\ sum(b).day = b.day
        /\ sum(b).service = b.service /\ sum(b).resource = b.resource
    BY <2>2 DEF RecordFields
  <2>4. IsUnsplit(sum(b))
    BY <1>4, <2>2 DEF IsStored, IsParsed, IsUnsplit, RecordFields
  <2> HIDE DEF sum
  <2> QED BY <1>4, <2>1, <2>3, <2>4 DEF IsStored, IsParsed, IsRecord
<1>5. AreStored(added)
  <2> HIDE DEF at, sum
  <2>1. IsList(added) /\ Len(added) = Len(buckets)
    BY <1>2, ListOf
  <2>2. \A i \in 1..Len(buckets) : IsStored(added[i])
    BY <1>2, <1>4
  <2> HIDE DEF added
  <2> QED BY <2>1, <2>2 DEF AreStored
<1> HIDE DEF added
<1> QED BY <1>1, <1>3, <1>5

\* The buckets after every record, by induction over the records.
Buckets(records) ==
  LET after[n \in 0..Len(records)] == IF n = 0 THEN <<>> ELSE AddToBucket(after[n - 1], records[n])
  IN  after[Len(records)]

LEMMA BucketsAfter ==
  ASSUME NEW records, Len(records) \in Nat
  PROVE  \E after : /\ Buckets(records) = after[Len(records)]
                    /\ after[0] = <<>>
                    /\ \A n \in 1..Len(records) : after[n] = AddToBucket(after[n - 1], records[n])
<1> DEFINE N == Len(records)
           Body(g, n) == IF n = 0 THEN <<>> ELSE AddToBucket(g[n - 1], records[n])
           Made(g, m) == g = [n \in 0..m |-> Body(g, n)]
<1>0. N \in Nat
  OBVIOUS
<1>1. \E g : Made(g, N)
  <2> DEFINE P == {m \in Nat : \E g : Made(g, m)}
  <2>1. 0 \in P
    <3> DEFINE g == [n \in 0..0 |-> <<>>]
    <3>1. g = [n \in 0..0 |-> Body(g, n)]
      OBVIOUS
    <3> QED BY <3>1
  <2>2. ASSUME NEW m \in P PROVE m + 1 \in P
    <3>1. PICK g : g = [n \in 0..m |-> Body(g, n)]
      OBVIOUS
    <3> DEFINE h == [n \in 0..(m + 1) |-> IF n = m + 1 THEN AddToBucket(g[m], records[m + 1]) ELSE g[n]]
    <3>2. \A n \in 0..(m + 1) : h[n] = Body(h, n)
      <4> TAKE n \in 0..(m + 1)
      <4>1. CASE n = m + 1
        BY <4>1
      <4>2. CASE n \in 0..m
        <5>1. h[n] = g[n] /\ g[n] = Body(g, n)
          BY <3>1, <4>2
        <5>2. n # 0 => h[n - 1] = g[n - 1]
          BY <4>2
        <5> QED BY <5>1, <5>2
      <4> QED BY <4>1, <4>2
    <3>3. h = [n \in 0..(m + 1) |-> Body(h, n)]
      BY <3>2
    <3> HIDE DEF h, Body
    <3>4. \E f : Made(f, m + 1)
      BY <3>3
    <3> QED BY <3>4
  <2> HIDE DEF Made
  <2>3. P = Nat
    <3> HIDE DEF P
    <3>1. P \in SUBSET Nat
      BY DEF P
    <3> QED BY <2>1, <2>2, <3>1, EveryNatural
  <2> QED BY <1>0, <2>3
<1> DEFINE after == CHOOSE g : Made(g, N)
<1>2. Made(after, N)
  BY <1>1
<1>3. Buckets(records) = after[N]
  BY DEF Buckets
<1>4. /\ after[0] = <<>>
      /\ \A n \in 1..N : after[n] = AddToBucket(after[n - 1], records[n])
  <2>1. \A n \in 0..N : after[n] = Body(after, n)
    BY <1>2
  <2> HIDE DEF after, N
  <2> QED BY <1>0, <2>1
<1> HIDE DEF after
<1> QED BY <1>3, <1>4

LEMMA BucketsMade ==
  ASSUME NEW records, AreStored(records)
  PROVE  AreStored(Buckets(records))
<1> DEFINE N == Len(records)
<1>0. N \in Nat
  BY DEF AreStored, IsList
<1>1. PICK after : /\ Buckets(records) = after[N]
                   /\ after[0] = <<>>
                   /\ \A n \in 1..N : after[n] = AddToBucket(after[n - 1], records[n])
  BY <1>0, BucketsAfter
<1>3. Buckets(records) = after[N]
  BY <1>1
<1>4. /\ after[0] = <<>>
      /\ \A n \in 1..N : after[n] = AddToBucket(after[n - 1], records[n])
  BY <1>1
<1> HIDE DEF N
<1> DEFINE Q == {m \in Nat : m <= N => AreStored(after[m])}
<1>5. 0 \in Q
  <2>1. IsList(<<>>) /\ Len(<<>>) = 0
    BY DEF IsList
  <2>2. AreStored(<<>>)
    BY <2>1 DEF AreStored
  <2> QED BY <1>4, <2>2
<1>6. ASSUME NEW m \in Q PROVE m + 1 \in Q
  <2> SUFFICES ASSUME m + 1 <= N PROVE AreStored(after[m + 1])
    OBVIOUS
  <2>1. m + 1 \in 1..N /\ (m + 1) - 1 = m /\ AreStored(after[m])
    BY <1>0
  <2>2. after[m + 1] = AddToBucket(after[m], records[m + 1])
    BY <1>4, <2>1
  <2>3. IsStored(records[m + 1])
    BY <2>1 DEF N, AreStored
  <2> QED BY <2>1, <2>2, <2>3, BucketAdded
<1>7. Q = Nat
  <2> HIDE DEF Q
  <2>1. Q \in SUBSET Nat
    BY DEF Q
  <2> QED BY <1>5, <1>6, <2>1, EveryNatural
<1> QED BY <1>0, <1>3, <1>7

\* The sort key is one of whole numbers, and orders the buckets.
LEMMA SortKeyed ==
  ASSUME NEW r, IsStored(r)
  PROVE  SortKey(r)[1] \in Int /\ SortKey(r)[2] \in Int /\ SortKey(r)[3] \in Int
<1>1. \A name \in Listed : Alphabetical(name) \in Int
  <2> TAKE name \in Listed
  <2>1. \E i \in DOMAIN Alphabet : Alphabet[i] = name
    BY DEF Listed
  <2>2. Alphabetical(name) \in DOMAIN Alphabet
    BY <2>1 DEF Alphabetical
  <2> QED BY <2>2, UploadsAssumption
<1>2. r.service \in Listed /\ FirstOf(r.resource, r.service) \in Listed /\ r.day \in Int
  BY DEF IsStored, IsParsed, IsRecord, FirstOf
<1> QED BY <1>1, <1>2 DEF SortKey

LEMMA SortOrders ==
  ASSUME NEW buckets, AreStored(buckets)
  PROVE  Orders({p \in (1..Len(buckets)) \X (1..Len(buckets)) :
                   \/ SortsBefore(SortKey(buckets[p[1]]), SortKey(buckets[p[2]]))
                   \/ SortKey(buckets[p[1]]) = SortKey(buckets[p[2]]) /\ p[1] < p[2]}, 1..Len(buckets))
<1> DEFINE places == 1..Len(buckets)
           key(i) == SortKey(buckets[i])
           less(i, j) == \/ SortsBefore(key(i), key(j))
                         \/ key(i) = key(j) /\ i < j
           before == {p \in places \X places : less(p[1], p[2])}
<1>1. \A i \in places : key(i)[1] \in Int /\ key(i)[2] \in Int /\ key(i)[3] \in Int
  BY SortKeyed DEF AreStored
<1>2. \A i, j \in places : key(i) = key(j) <=>
        key(i)[1] = key(j)[1] /\ key(i)[2] = key(j)[2] /\ key(i)[3] = key(j)[3]
  BY DEF SortKey
<1>3. \A i, j \in places : SortsBefore(key(i), key(j)) <=>
        \/ key(i)[1] < key(j)[1]
        \/ key(i)[1] = key(j)[1] /\ key(i)[2] < key(j)[2]
        \/ key(i)[1] = key(j)[1] /\ key(i)[2] = key(j)[2] /\ key(i)[3] < key(j)[3]
  <2> TAKE i, j \in places
  <2> HIDE DEF key
  <2>1. /\ \A m \in 1..(1 - 1) : key(i)[m] = key(j)[m]
        /\ (\A m \in 1..(2 - 1) : key(i)[m] = key(j)[m]) <=> key(i)[1] = key(j)[1]
        /\ (\A m \in 1..(3 - 1) : key(i)[m] = key(j)[m]) <=> key(i)[1] = key(j)[1] /\ key(i)[2] = key(j)[2]
    OBVIOUS
  <2>2. \A n \in 1..3 : n = 1 \/ n = 2 \/ n = 3
    OBVIOUS
  <2>3. 1 \in 1..3 /\ 2 \in 1..3 /\ 3 \in 1..3
    OBVIOUS
  <2>4. SortsBefore(key(i), key(j)) =>
        \/ key(i)[1] < key(j)[1]
        \/ key(i)[1] = key(j)[1] /\ key(i)[2] < key(j)[2]
        \/ key(i)[1] = key(j)[1] /\ key(i)[2] = key(j)[2] /\ key(i)[3] < key(j)[3]
    BY <2>1, <2>2 DEF SortsBefore
  <2>5. ASSUME \/ key(i)[1] < key(j)[1]
               \/ key(i)[1] = key(j)[1] /\ key(i)[2] < key(j)[2]
               \/ key(i)[1] = key(j)[1] /\ key(i)[2] = key(j)[2] /\ key(i)[3] < key(j)[3]
        PROVE  SortsBefore(key(i), key(j))
    BY <2>1, <2>3, <2>5 DEF SortsBefore
  <2> QED BY <2>4, <2>5
<1>4. \A i, j \in places : <<i, j>> \in before <=> less(i, j)
  <2> HIDE DEF less
  <2> QED OBVIOUS
<1>5. \A i, j : less(i, j) <=> SortsBefore(key(i), key(j)) \/ (key(i) = key(j) /\ i < j)
  <2> HIDE DEF key
  <2> QED OBVIOUS
<1>6. \A i \in places : i \in Int
  OBVIOUS
<1> HIDE DEF key, before, places, less
<1>7. Orders(before, places)
  <2>1. \A i, j \in places : <<i, j>> \in before <=>
          \/ key(i)[1] < key(j)[1]
          \/ key(i)[1] = key(j)[1] /\ key(i)[2] < key(j)[2]
          \/ key(i)[1] = key(j)[1] /\ key(i)[2] = key(j)[2] /\ key(i)[3] < key(j)[3]
          \/ key(i)[1] = key(j)[1] /\ key(i)[2] = key(j)[2] /\ key(i)[3] = key(j)[3] /\ i < j
    <3> TAKE i, j \in places
    <3>1. <<i, j>> \in before <=> less(i, j)
      BY <1>4
    <3>2. less(i, j) <=> SortsBefore(key(i), key(j)) \/ (key(i) = key(j) /\ i < j)
      BY <1>5
    <3>3. key(i) = key(j) <=> key(i)[1] = key(j)[1] /\ key(i)[2] = key(j)[2] /\ key(i)[3] = key(j)[3]
      BY <1>2
    <3>4. SortsBefore(key(i), key(j)) <=>
            \/ key(i)[1] < key(j)[1]
            \/ key(i)[1] = key(j)[1] /\ key(i)[2] < key(j)[2]
            \/ key(i)[1] = key(j)[1] /\ key(i)[2] = key(j)[2] /\ key(i)[3] < key(j)[3]
      BY <1>3
    <3> QED BY <3>1, <3>2, <3>3, <3>4
  <2> QED BY <1>1, <1>6, <2>1 DEF Orders
<1> QED BY <1>7 DEF key, before, places, less

LEMMA AggregatedOK ==
  ASSUME NEW records, AreStored(records)
  PROVE  IsBill(AggregateCostRecords(records))
<1> DEFINE buckets == Buckets(records)
           before == {p \in (1..Len(buckets)) \X (1..Len(buckets)) :
                        \/ SortsBefore(SortKey(buckets[p[1]]), SortKey(buckets[p[2]]))
                        \/ SortKey(buckets[p[1]]) = SortKey(buckets[p[2]]) /\ p[1] < p[2]}
           order == Ordering(1..Len(buckets), before)
           sorted == Rearranged(buckets, order)
<1>1. AggregateCostRecords(records) = sorted
  BY DEF AggregateCostRecords, Buckets, Rearranged
<1>2. AreStored(buckets)
  BY BucketsMade
<1> HIDE DEF buckets
<1>3. Orders(before, 1..Len(buckets))
  BY <1>2, SortOrders
<1> HIDE DEF before
<1>4. Sorts(sorted, buckets, order, before)
  BY <1>2, <1>3, Sorted DEF AreStored
<1> HIDE DEF sorted, order
<1>5. /\ IsList(sorted)
      /\ \A m \in 1..Len(sorted) : IsStored(sorted[m])
  BY <1>2, <1>4 DEF Sorts, AreStored
<1> QED BY <1>1, <1>5 DEF IsBill, IsStored, IsParsed

\* The rows of a file that are stored, before they are put together.
UsableOf(file) ==
  LET records == Parse(file.format, file.rows)
  IN  ElementsAt(records, {i \in 1..Len(records) : Usable(records[i])})

LEMMA UsableStored ==
  ASSUME NEW file, file.kind = "cost", IsLedger(file.rows),
         \A i \in 1..Len(file.rows) : NamesListed(file.rows[i]),
         ParseSource(file).accepted
  PROVE  AreStored(UsableOf(file)) /\ ParseSource(file).items = AggregateCostRecords(UsableOf(file))
<1> DEFINE records == Parse(file.format, file.rows)
           places == {i \in 1..Len(records) : Usable(records[i])}
           usable == ElementsAt(records, places)
<1>1. \A code : ~Refused(code).accepted
  BY DEF Refused
<1>2. ParseSource(file) = ParseCostSource(file)
  BY <1>1 DEF ParseSource
<1>3. file.format \in {"aws", "azure", "gcp"} /\ ParseSource(file).items = AggregateCostRecords(usable)
  BY <1>1, <1>2 DEF ParseCostSource
<1>4. /\ IsList(records) /\ Len(records) = Len(file.rows)
      /\ \A i \in 1..Len(file.rows) : ParsedFrom(records[i], file.rows[i])
  BY <1>3, ParsedOK
<1> HIDE DEF records
<1>5. IsList(usable) /\ \A m \in 1..Len(usable) : \E i \in places : usable[m] = records[i]
  <2>1. places \in SUBSET (1..Len(records))
    OBVIOUS
  <2> HIDE DEF places
  <2> QED BY <1>4, <2>1, KeptList
<1>6. ASSUME NEW i \in places PROVE IsStored(records[i])
  <2>1. i \in 1..Len(file.rows) /\ Usable(records[i])
    BY <1>4
  <2>2. ParsedFrom(records[i], file.rows[i]) /\ NamesListed(file.rows[i])
    BY <1>4, <2>1
  <2>3. records[i].service # "unknown"
    BY <2>1 DEF Usable
  <2> QED BY <2>2, <2>3 DEF ParsedFrom, NamesListed, IsStored
<1> HIDE DEF places, usable
<1>7. AreStored(usable)
  BY <1>5, <1>6 DEF AreStored
<1> QED BY <1>3, <1>7 DEF UsableOf, records, places, usable

LEMMA StoredOK ==
  ASSUME NEW file, file.kind = "cost", IsLedger(file.rows),
         \A i \in 1..Len(file.rows) : NamesListed(file.rows[i]),
         ParseSource(file).accepted
  PROVE  IsBill(ParseSource(file).items)
BY UsableStored, AggregatedOK

\* A bill is taken only in the slot of its own provider.
LEMMA SlotIsProvider ==
  ASSUME NEW file, file.kind = "cost", ParseSource(file).accepted
  PROVE  file.slot \in {"aws", "azure", "gcp"}
<1>1. \A code : ~Refused(code).accepted
  BY DEF Refused
<1>2. ParseSource(file) = ParseCostSource(file)
  BY <1>1 DEF ParseSource
<1> QED BY <1>1, <1>2 DEF ParseCostSource

LEMMA TrailStored ==
  ASSUME NEW file, file.kind = "audit", IsList(file.rows), ParseSource(file).accepted
  PROVE  IsList(ParseSource(file).items)
<1> DEFINE rows == file.rows
           places == {i \in 1..Len(rows) : HasRequired(rows[i])}
           sound == ElementsAt(rows, places)
<1>1. \A code : ~Refused(code).accepted
  BY DEF Refused
<1>2. ParseSource(file) = ParseAuditSource(file)
  BY <1>1 DEF ParseSource
<1>3. ParseSource(file).items = EvidenceItems(file)
  BY <1>1, <1>2 DEF ParseAuditSource
<1>4. IsList(sound)
  <2>1. places \in SUBSET (1..Len(rows))
    OBVIOUS
  <2> HIDE DEF places
  <2> QED BY <2>1, KeptList
<1>5. EvidenceItems(file) = IF file.format = "cloudtrail"
                            THEN [i \in 1..Len(sound) |-> CloudTrailEvent(sound[i])] ELSE rows
  BY DEF EvidenceItems
<1> HIDE DEF sound, rows
<1>6. Len(sound) \in Nat
  BY <1>4 DEF IsList
<1>7. IsList([i \in 1..Len(sound) |-> CloudTrailEvent(sound[i])])
  BY <1>6, ListOf
<1>8. IsList(EvidenceItems(file))
  BY <1>5, <1>7 DEF rows
<1> QED BY <1>3, <1>8

\* What a provider answers: rows again, one per group.
LEMMA ViewedRow ==
  ASSUME NEW row, IsRow(row), ledger.format \in {"aws", "azure", "gcp"}
  PROVE  IsRow(View(row))
<1>1. /\ DOMAIN row = RowFields /\ row.day \in Int
      /\ {row.cost, row.amortized, row.credits, row.quantity} \subseteq Int \union {None}
  BY DEF IsRow
<1>2. CASE ledger.format = "azure"
  <2>1. View(row) = AzureView(row)
    BY <1>2 DEF View
  <2>2. /\ DOMAIN AzureView(row) = RowFields /\ AzureView(row).day = row.day /\ AzureView(row).cost = row.cost
        /\ AzureView(row).amortized = None /\ AzureView(row).credits = None /\ AzureView(row).quantity = None
    BY <1>1 DEF AzureView, RowFields
  <2> QED BY <1>1, <2>1, <2>2 DEF IsRow
<1>3. CASE ledger.format = "aws"
  <2>1. View(row) = AwsView(row)
    BY <1>3 DEF View
  <2>2. /\ DOMAIN AwsView(row) = RowFields /\ AwsView(row).day = row.day /\ AwsView(row).cost = row.cost
        /\ AwsView(row).amortized = row.amortized /\ AwsView(row).credits = None
        /\ AwsView(row).quantity = row.quantity
    BY <1>1 DEF AwsView, RowFields
  <2> QED BY <1>1, <2>1, <2>2 DEF IsRow
<1>4. CASE ledger.format = "gcp"
  <2>1. View(row) = GcpView(row)
    BY <1>4 DEF View
  <2>2. /\ DOMAIN GcpView(row) = RowFields /\ GcpView(row).day = row.day /\ GcpView(row).cost = row.cost
        /\ GcpView(row).amortized = None /\ GcpView(row).credits = row.credits
        /\ GcpView(row).quantity = row.quantity
    BY <1>1 DEF GcpView, RowFields
  <2> QED BY <1>1, <2>1, <2>2 DEF IsRow
<1> QED BY <1>2, <1>3, <1>4

LEMMA RowAdded ==
  ASSUME NEW groups, IsLedger(groups), NEW r, IsRow(r)
  PROVE  IsLedger(AddToGroup(groups, r))
<1> DEFINE at == {i \in 1..Len(groups) : GroupOf(groups[i]) = GroupOf(r)}
           last(g) == IF g.ends = None THEN r.ends ELSE Larger(g.ends, Amount(r.ends))
           sum(g) == [g EXCEPT !.cost = SumOf(@, r.cost), !.amortized = SumOf(@, r.amortized),
                               !.credits = SumOf(@, r.credits), !.quantity = SumOf(@, r.quantity),
                               !.ends = IF @ = None THEN r.ends ELSE Larger(@, Amount(r.ends))]
           added == [i \in 1..Len(groups) |-> IF i \notin at THEN groups[i] ELSE sum(groups[i])]
<1>1. AddToGroup(groups, r) = Append(groups, r) \/ AddToGroup(groups, r) = added
  BY DEF AddToGroup
<1>2. IsList(groups) /\ Len(groups) \in Nat /\ \A i \in 1..Len(groups) : IsRow(groups[i])
  BY DEF IsLedger, IsList
<1>3. IsLedger(Append(groups, r))
  <2>1. /\ IsList(Append(groups, r)) /\ Len(Append(groups, r)) = Len(groups) + 1
        /\ Append(groups, r)[Len(groups) + 1] = r
        /\ \A i \in 1..Len(groups) : Append(groups, r)[i] = groups[i]
    BY <1>2, Appended
  <2>2. \A i \in 1..(Len(groups) + 1) : i \in 1..Len(groups) \/ i = Len(groups) + 1
    BY <1>2
  <2> QED BY <1>2, <2>1, <2>2 DEF IsLedger
<1>4. ASSUME NEW g, IsRow(g) PROVE IsRow(sum(g))
  <2>1. ASSUME NEW a \in Int \union {None}, NEW b \in Int \union {None} PROVE SumOf(a, b) \in Int \union {None}
    BY DEF SumOf, Amount, FirstOf
  <2>2. DOMAIN g = RowFields
    BY <1>4 DEF IsRow
  <2>3. /\ DOMAIN sum(g) = RowFields /\ sum(g).day = g.day
        /\ sum(g).cost = SumOf(g.cost, r.cost) /\ sum(g).amortized = SumOf(g.amortized, r.amortized)
        /\ sum(g).credits = SumOf(g.credits, r.credits) /\ sum(g).quantity = SumOf(g.quantity, r.quantity)
    BY <2>2 DEF RowFields
  <2>4. /\ g.cost \in Int \union {None} /\ r.cost \in Int \union {None}
        /\ g.amortized \in Int \union {None} /\ r.amortized \in Int \union {None}
        /\ g.credits \in Int \union {None} /\ r.credits \in Int \union {None}
        /\ g.quantity \in Int \union {None} /\ r.quantity \in Int \union {None}
    BY <1>4 DEF IsRow
  <2> HIDE DEF sum
  <2>5. /\ sum(g).cost \in Int \union {None} /\ sum(g).amortized \in Int \union {None}
        /\ sum(g).credits \in Int \union {None} /\ sum(g).quantity \in Int \union {None}
    <3>1. SumOf(g.cost, r.cost) \in Int \union {None} /\ SumOf(g.amortized, r.amortized) \in Int \union {None}
      BY <2>1, <2>4
    <3>2. SumOf(g.credits, r.credits) \in Int \union {None} /\ SumOf(g.quantity, r.quantity) \in Int \union {None}
      BY <2>1, <2>4
    <3> QED BY <2>3, <3>1, <3>2
  <2> QED BY <1>4, <2>3, <2>5 DEF IsRow
<1>5. IsLedger(added)
  <2> HIDE DEF at, sum
  <2>1. IsList(added) /\ Len(added) = Len(groups)
    BY <1>2, ListOf
  <2>2. \A i \in 1..Len(groups) : IsRow(added[i])
    BY <1>2, <1>4
  <2> HIDE DEF added
  <2> QED BY <2>1, <2>2 DEF IsLedger
<1> HIDE DEF added
<1> QED BY <1>1, <1>3, <1>5

\* The rows by group, by induction over the rows.
GroupsOf(rows) ==
  LET after[n \in 0..Len(rows)] == IF n = 0 THEN <<>> ELSE AddToGroup(after[n - 1], View(rows[n]))
  IN  after[Len(rows)]

\* What the groups are after each row.
Takes(after, rows) ==
  /\ after[0] = <<>>
  /\ \A n \in 1..Len(rows) : after[n] = AddToGroup(after[n - 1], View(rows[n]))

LEMMA RowsTaken ==
  ASSUME NEW rows, IsLedger(rows)
  PROVE  \E after : Takes(after, rows) /\ GroupsOf(rows) = after[Len(rows)]
<1> DEFINE N == Len(rows)
           Body(g, n) == IF n = 0 THEN <<>> ELSE AddToGroup(g[n - 1], View(rows[n]))
           Made(g, m) == g = [n \in 0..m |-> Body(g, n)]
<1>0. N \in Nat
  BY DEF IsLedger, IsList
<1>1. \E g : Made(g, N)
  <2> DEFINE P == {m \in Nat : \E g : Made(g, m)}
  <2>1. 0 \in P
    <3> DEFINE g == [n \in 0..0 |-> <<>>]
    <3>1. g = [n \in 0..0 |-> Body(g, n)]
      OBVIOUS
    <3> QED BY <3>1
  <2>2. ASSUME NEW m \in P PROVE m + 1 \in P
    <3>1. PICK g : g = [n \in 0..m |-> Body(g, n)]
      OBVIOUS
    <3> DEFINE h == [n \in 0..(m + 1) |-> IF n = m + 1 THEN AddToGroup(g[m], View(rows[m + 1])) ELSE g[n]]
    <3>2. \A n \in 0..(m + 1) : h[n] = Body(h, n)
      <4> TAKE n \in 0..(m + 1)
      <4>1. CASE n = m + 1
        BY <4>1
      <4>2. CASE n \in 0..m
        <5>1. h[n] = g[n] /\ g[n] = Body(g, n)
          BY <3>1, <4>2
        <5>2. n # 0 => h[n - 1] = g[n - 1]
          BY <4>2
        <5> QED BY <5>1, <5>2
      <4> QED BY <4>1, <4>2
    <3>3. h = [n \in 0..(m + 1) |-> Body(h, n)]
      BY <3>2
    <3> HIDE DEF h, Body
    <3>4. \E f : Made(f, m + 1)
      BY <3>3
    <3> QED BY <3>4
  <2> HIDE DEF Made
  <2>3. P = Nat
    <3> HIDE DEF P
    <3>1. P \in SUBSET Nat
      BY DEF P
    <3> QED BY <2>1, <2>2, <3>1, EveryNatural
  <2> QED BY <1>0, <2>3
<1> DEFINE after == CHOOSE g : Made(g, N)
<1>2. Made(after, N)
  BY <1>1
<1>3. GroupsOf(rows) = after[N]
  BY DEF GroupsOf
<1>4. /\ after[0] = <<>>
      /\ \A n \in 1..N : after[n] = AddToGroup(after[n - 1], View(rows[n]))
  <2>1. \A n \in 0..N : after[n] = Body(after, n)
    BY <1>2
  <2> HIDE DEF after, N
  <2> QED BY <1>0, <2>1
<1> HIDE DEF after
<1>5. Takes(after, rows) /\ GroupsOf(rows) = after[Len(rows)]
  BY <1>3, <1>4 DEF Takes
<1> QED BY <1>5

LEMMA RowsGrouped ==
  ASSUME NEW rows, IsLedger(rows), ledger.format \in {"aws", "azure", "gcp"}
  PROVE  IsLedger(GroupsOf(rows))
<1> DEFINE N == Len(rows)
<1>0. N \in Nat
  BY DEF IsLedger, IsList
<1>1. PICK after : Takes(after, rows) /\ GroupsOf(rows) = after[N]
  BY RowsTaken
<1>4. /\ after[0] = <<>>
      /\ \A n \in 1..N : after[n] = AddToGroup(after[n - 1], View(rows[n]))
  BY <1>1 DEF Takes
<1> HIDE DEF N
<1> DEFINE Q == {m \in Nat : m <= N => IsLedger(after[m])}
<1>5. 0 \in Q
  <2>1. IsList(<<>>) /\ Len(<<>>) = 0
    BY DEF IsList
  <2>2. IsLedger(<<>>)
    BY <2>1 DEF IsLedger
  <2> QED BY <1>4, <2>2
<1>6. ASSUME NEW m \in Q PROVE m + 1 \in Q
  <2> SUFFICES ASSUME m + 1 <= N PROVE IsLedger(after[m + 1])
    OBVIOUS
  <2>1. m + 1 \in 1..N /\ (m + 1) - 1 = m /\ IsLedger(after[m])
    BY <1>0
  <2>2. after[m + 1] = AddToGroup(after[m], View(rows[m + 1]))
    BY <1>4, <2>1
  <2>3. IsRow(View(rows[m + 1]))
    BY <2>1, ViewedRow DEF N, IsLedger
  <2> QED BY <2>1, <2>2, <2>3, RowAdded
<1>7. Q = Nat
  <2> HIDE DEF Q
  <2>1. Q \in SUBSET Nat
    BY DEF Q
  <2> QED BY <1>5, <1>6, <2>1, EveryNatural
<1> QED BY <1>0, <1>1, <1>7


LEMMA QueryOK ==
  ASSUME NEW window, IsLedger(ledger.rows), ledger.format \in {"aws", "azure", "gcp"}
  PROVE  IsLedger(Query(window))
<1> DEFINE rows == ledger.rows
           places == Visible(window)
           visible == ElementsAt(rows, places)
<1>1. Query(window) = GroupsOf(visible)
  BY DEF Query, GroupsOf
<1>2. places \in SUBSET (1..Len(rows)) /\ IsList(rows) /\ \A i \in 1..Len(rows) : IsRow(rows[i])
  BY DEF IsLedger, Visible
<1> HIDE DEF places, rows
<1>3. IsList(visible) /\ \A m \in 1..Len(visible) : \E i \in places : visible[m] = rows[i]
  BY <1>2, KeptList
<1> HIDE DEF visible
<1>4. IsLedger(visible)
  BY <1>2, <1>3 DEF IsLedger
<1> QED BY <1>1, <1>4, RowsGrouped

\* An answer to a caller is a bill.
LEMMA AnsweredBill ==
  ASSUME NEW call, NEW rows, IsLedger(rows), ledger.format \in {"aws", "azure", "gcp"}
  PROVE  IsBill(Answered(call, rows).records)
<1> DEFINE records == Parse(ledger.format, rows)
           through == LiveThrough(rows, records, call.window)
           places == {i \in 1..Len(records) : /\ records[i].day <= DayOf(through)
                                              /\ \E p \in call.periods : PeriodContains(p, records[i].day)}
<1>1. Answered(call, rows).records = ElementsAt(records, places)
  BY DEF Answered, NotAsked
<1>2. /\ IsList(records) /\ Len(records) = Len(rows)
      /\ \A i \in 1..Len(rows) : ParsedFrom(records[i], rows[i])
  BY ParsedOK
<1>3. IsBill(records)
  <2> HIDE DEF records
  <2> QED BY <1>2 DEF IsBill, ParsedFrom, IsParsed
<1>4. places \in SUBSET (1..Len(records))
  OBVIOUS
<1> HIDE DEF records, places
<1> QED BY <1>1, <1>3, <1>4, KeptBill

-----------------------------------------------------------------------------
(* What a report is made of stays what it should be, from where the data comes from to     *)
(* the candidates a worker explains.                                                       *)

ResourcesOf(records) == {records[i].resource : i \in 1..Len(records)}

\* A comparison has been made, and is still what the report is about.
Ready == stage \in {"compared", "investigated", "published"}
Investigated == stage \in {"investigated", "published"}

FileOK(file) ==
  /\ file.kind = "cost" /\ IsLedger(file.rows)
  /\ \A i \in 1..Len(file.rows) : NamesListed(file.rows[i])

FilesOK ==
  /\ DOMAIN sources = Kinds
  /\ files["cost"] # None => FileOK(files["cost"])
  /\ files["audit"] # None => files["audit"].kind = "audit" /\ IsList(files["audit"].rows)
  /\ "cost" \in Stored => IsBill(sources["cost"].items) /\ AreSpecs(PlaybooksOf(files["cost"].slot))
  /\ "audit" \in Stored => IsList(sources["audit"].items)

CallOK(call) == IsBill(call.records) /\ (call.pages # 0 => IsLedger(call.total))

LiveOK ==
  origin = "live" =>
    /\ ledger.format \in {"aws", "azure", "gcp"} /\ IsLedger(ledger.rows)
    /\ \A k \in DOMAIN cache : IsLedger(cache[k].rows)
    /\ \A c \in Callers : CallOK(calls[c])

\* What there is to compare, compared.
Compared == ComparePeriods(<<CompareProvider(Selected, input.current, input.baseline, input.config)>>, input.config)

ComparedAre ==
  IF Ready THEN CandidatesOK(Candidates, ResourcesOf(input.records)) /\ comparison = Compared
  ELSE comparison = None

\* What the rules find in the candidates compared, with the bundle of each.
Explained ==
  RunPlaybooks(Candidates, {}, MaxFindings, input.specs,
               [key \in {Candidates[i].key : i \in 1..Len(Candidates)} |-> input.bundle],
               input.rules, input.today, ReviewAge, input.current, input.config.cent)

\* Findings are what an investigator answered to this comparison and this input.
FoundAre ==
  \/ ~Investigated /\ investigator = None /\ findings = <<>>
  \/ Investigated /\ investigator = "none" /\ findings = <<>>
  \/ Investigated /\ investigator = "rules" /\ input.bundle # None /\ findings = Explained
  \/ Investigated /\ investigator = "agent" /\ AreFindings(findings)

\* What the checks make of the findings.
Judged ==
  ValidateFindings(findings, KnownResources,
                   [key \in {findings[i].candidate : i \in 1..Len(findings)} |-> Measured(key)],
                   input.available, input.config)

\* A report is about the findings, the input and the comparison there are.
ReportedAre ==
  report # None =>
    /\ stage = "published"
    /\ report.findings = RankFindings(Judged.findings) /\ report.dropped = Judged.dropped

DataIInv == FilesOK /\ LiveOK /\ IsInput(input) /\ ComparedAre /\ FoundAre /\ ReportedAre

LEMMA NothingIsABill == IsBill(<<>>)
<1>1. IsList(<<>>) /\ Len(<<>>) = 0
  BY DEF IsList
<1> QED BY <1>1 DEF IsBill

LEMMA InitDataIInv == Init => DataIInv
<1> SUFFICES ASSUME Init PROVE DataIInv
  OBVIOUS
<1>1. IsInput(input)
  BY InputsAssumption DEF Init
<1>2. FilesOK
  <2>1. sources = [cost |-> None, audit |-> None] /\ (files = [cost |-> None, audit |-> None] \/ files \in Uploads)
    BY DEF Init, NoFiles
  <2>2. files["cost"] # None => FileOK(files["cost"])
    BY <2>1, UploadsAssumption DEF FileOK
  <2>3. DOMAIN sources = Kinds /\ sources["cost"] = None /\ sources["audit"] = None
    BY <2>1 DEF Kinds
  <2>4. files["audit"] # None => files["audit"].kind = "audit" /\ IsList(files["audit"].rows)
    BY <2>1, UploadsAssumption
  <2>5. "cost" \notin Stored /\ "audit" \notin Stored
    BY <2>3 DEF Stored
  <2> QED BY <2>2, <2>3, <2>4, <2>5 DEF FilesOK
<1>3. LiveOK
  <2>1. calls = [c \in Callers |-> NotAsked] /\ cache = [k \in {} |-> None]
    BY DEF Init, LiveInit
  <2>2. CallOK(NotAsked)
    BY NothingIsABill DEF CallOK, NotAsked
  <2>3. origin = "live" => ledger \in Ledgers
    BY DEF Init
  <2> QED BY <2>1, <2>2, <2>3, LedgersAssumption DEF LiveOK
<1>4. ComparedAre /\ FoundAre /\ ReportedAre
  BY DEF Init, ComparedAre, FoundAre, ReportedAre, Ready, Investigated
<1> QED BY <1>1, <1>2, <1>3, <1>4 DEF DataIInv

\* While nobody looks at the analysis it stays what it is,
LEMMA AnalysisKept ==
  ASSUME DataIInv, UNCHANGED <<input, stage, comparison, investigator, findings, report>>
  PROVE  ComparedAre' /\ FoundAre' /\ ReportedAre'
<1>1. Candidates' = Candidates /\ Ready' = Ready /\ Investigated' = Investigated
  BY DEF Candidates, Ready, Investigated
<1>2. ComparedAre'
  BY <1>1 DEF DataIInv, ComparedAre, Compared, Selected
<1>3. Explained' = Explained
  BY <1>1 DEF Explained
<1>4. FoundAre'
  BY <1>1, <1>3 DEF DataIInv, FoundAre
<1>5. Judged' = Judged
  BY <1>1 DEF Judged, KnownResources, Measured
<1>6. ReportedAre'
  BY <1>5 DEF DataIInv, ReportedAre
<1> QED BY <1>2, <1>4, <1>6

\* and before there is a comparison there are no findings.
LEMMA NothingFound ==
  ASSUME DataIInv, ~Investigated, ~Investigated', UNCHANGED <<investigator, findings, report>>
  PROVE  FoundAre' /\ ReportedAre'
<1> QED BY DEF DataIInv, FoundAre, ReportedAre, Investigated

\* A source is parsed when it is put.
LEMMA PutStep ==
  ASSUME DataIInv, NEW kind \in Kinds, PutSource(kind)
  PROVE  DataIInv'
<1>1. /\ files[kind] # None /\ sources' = [sources EXCEPT ![kind] = ParseSource(files[kind])]
      /\ UNCHANGED <<files, origin, input, stage, comparison, investigator, findings, report>>
      /\ UNCHANGED <<ledger, cache, calls>>
  BY DEF PutSource, vars, liveVars
<1>2. LiveOK' /\ IsInput(input)' /\ ComparedAre' /\ FoundAre' /\ ReportedAre'
  <2>1. LiveOK'
    BY <1>1 DEF DataIInv, LiveOK
  <2>2. ComparedAre' /\ FoundAre' /\ ReportedAre'
    BY <1>1, AnalysisKept
  <2> QED BY <1>1, <2>1, <2>2 DEF DataIInv
<1>3. FilesOK'
  <2>1. /\ DOMAIN sources' = Kinds /\ (files["cost"] # None => FileOK(files["cost"]))'
        /\ files'["audit"] # None => files'["audit"].kind = "audit" /\ IsList(files'["audit"].rows)
    BY <1>1 DEF DataIInv, FilesOK
  <2>2. CASE kind = "cost"
    <3>1. sources'["cost"] = ParseSource(files["cost"]) /\ sources'["audit"] = sources["audit"]
      BY <1>1, <2>2 DEF DataIInv, FilesOK, Kinds
    <3>2. FileOK(files["cost"])
      BY <1>1, <2>2 DEF DataIInv, FilesOK
    <3>3. ParseSource(files["cost"]).accepted =>
            IsBill(ParseSource(files["cost"]).items) /\ AreSpecs(PlaybooksOf(files["cost"].slot))
      BY <3>2, StoredOK, SlotIsProvider, PlaybooksAssumption DEF FileOK
    <3>4. "cost" \in Stored' => ParseSource(files["cost"]).accepted
      BY <3>1 DEF Stored
    <3>5. "audit" \in Stored' => "audit" \in Stored
      BY <3>1 DEF Stored
    <3> QED BY <1>1, <2>1, <3>1, <3>3, <3>4, <3>5 DEF DataIInv, FilesOK
  <2>3. CASE kind = "audit"
    <3>1. sources'["audit"] = ParseSource(files["audit"]) /\ sources'["cost"] = sources["cost"]
      BY <1>1, <2>3 DEF DataIInv, FilesOK, Kinds
    <3>2. files["audit"].kind = "audit" /\ IsList(files["audit"].rows)
      BY <1>1, <2>3 DEF DataIInv, FilesOK
    <3>3. ParseSource(files["audit"]).accepted => IsList(ParseSource(files["audit"]).items)
      BY <3>2, TrailStored
    <3>4. "audit" \in Stored' => ParseSource(files["audit"]).accepted
      BY <3>1 DEF Stored
    <3>5. "cost" \in Stored' => "cost" \in Stored
      BY <3>1 DEF Stored
    <3> QED BY <1>1, <2>1, <3>1, <3>3, <3>4, <3>5 DEF DataIInv, FilesOK
  <2> QED BY <2>2, <2>3 DEF Kinds
<1> QED BY <1>2, <1>3 DEF DataIInv

\* The input of a request is completed with records that are a bill.
LEMMA InputLoaded ==
  ASSUME IsInput(input), NEW records, IsBill(records), NEW i, DOMAIN i = InputFields,
         i.records = records, i.current = input.current, i.baseline = input.baseline,
         i.rules = input.rules, i.config = input.config,
         AreSpecs(i.specs), i.bundle # None => IsBundle(i.bundle)
  PROVE  IsInput(i)
<1> QED BY DEF IsInput

LEMMA BundleOK ==
  ASSUME NEW events, IsList(events), NEW through
  PROVE  IsBundle(Bundle(events, through))
<1> DEFINE told == [i \in 1..Len(events) |-> [name |-> events[i].name, resources |-> events[i].resources,
                                             day |-> events[i].day, untrusted |-> FALSE]]
<1>1. IsList(told)
  <2>1. Len(events) \in Nat
    BY DEF IsList
  <2> QED BY <2>1, ListOf
<1>2. IsList(<<>>)
  BY DEF IsList
<1>3. /\ Bundle(events, through).series = <<>> /\ Bundle(events, through).events = told
      /\ Bundle(events, through).recommendations = 0
  BY DEF Bundle
<1> QED BY <1>1, <1>2, <1>3 DEF IsBundle

LEMMA InPeriodsList ==
  ASSUME NEW items, IsList(items)
  PROVE  IsList(InPeriods(items))
<1> DEFINE places == {i \in 1..Len(items) : \E p \in Periods : PeriodContains(p, items[i].day)}
<1>1. places \in SUBSET (1..Len(items)) /\ InPeriods(items) = ElementsAt(items, places)
  BY DEF InPeriods
<1> HIDE DEF places
<1> QED BY <1>1, KeptList

LEMMA LoadDatasetStep ==
  ASSUME DataIInv, LoadDataset
  PROVE  DataIInv'
<1> DEFINE items == sources["cost"].items
           places == {i \in 1..Len(items) : \E p \in Periods : PeriodContains(p, items[i].day)}
           records == InPeriods(items)
           events == IF "audit" \in Stored THEN InPeriods(sources["audit"].items) ELSE <<>>
<1>1. /\ "cost" \in Stored /\ origin = "upload" /\ stage = "sourcing" /\ stage' = "loaded"
      /\ UNCHANGED <<files, origin, sources, comparison, investigator, findings, report>>
  BY DEF LoadDataset
<1>2. DOMAIN input = InputFields /\ IsInput(input)
  BY DEF DataIInv, IsInput
<1>3. IsBill(records)
  <2>1. IsBill(items)
    BY <1>1 DEF DataIInv, FilesOK
  <2>2. places \in SUBSET (1..Len(items)) /\ records = ElementsAt(items, places)
    BY DEF InPeriods
  <2> HIDE DEF items, places, records
  <2> QED BY <2>1, <2>2, KeptBill
<1>4. IsList(events)
  <2>1. IsList(<<>>)
    BY DEF IsList
  <2> QED BY <2>1, InPeriodsList DEF DataIInv, FilesOK
<1>5. /\ DOMAIN input' = InputFields /\ input'.records = records
      /\ input'.current = input.current /\ input'.baseline = input.baseline
      /\ input'.rules = input.rules /\ input'.config = input.config
      /\ input'.specs = PlaybooksOf(files.cost.slot)
      /\ input'.bundle = Bundle(events, DatasetThrough)
  BY <1>2 DEF LoadDataset, InputFields
<1>6. AreSpecs(input'.specs) /\ IsBundle(input'.bundle)
  <2>1. AreSpecs(PlaybooksOf(files.cost.slot))
    BY <1>1 DEF DataIInv, FilesOK
  <2> HIDE DEF events
  <2> QED BY <1>4, <1>5, <2>1, BundleOK
<1> HIDE DEF records, events
<1>7. IsInput(input')
  BY <1>2, <1>3, <1>5, <1>6, InputLoaded
<1>8. FilesOK' /\ LiveOK'
  BY <1>1 DEF DataIInv, FilesOK, LiveOK, Stored
<1>9. ComparedAre' /\ FoundAre' /\ ReportedAre'
  <2>1. ~Ready /\ ~Ready' /\ ~Investigated /\ ~Investigated'
    BY <1>1 DEF Ready, Investigated
  <2> QED BY <1>1, <2>1, NothingFound DEF DataIInv, ComparedAre
<1> QED BY <1>7, <1>8, <1>9 DEF DataIInv


\* A live input has the records of the answer the orchestrator got.
LEMMA LoadLiveStep ==
  ASSUME DataIInv, LoadLive
  PROVE  DataIInv'
<1>1. /\ origin = "live" /\ stage = "sourcing" /\ stage' = "loaded"
      /\ UNCHANGED <<files, origin, sources, comparison, investigator, findings, report, ledger, cache, calls>>
  BY DEF LoadLive, liveVars
<1>2. IsInput(input) /\ IsBill(calls["orchestrator"].records) /\ ledger.format \in {"aws", "azure", "gcp"}
  BY <1>1, CallersAssumption DEF DataIInv, LiveOK, CallOK
<1>3. /\ DOMAIN input' = InputFields /\ input'.records = calls["orchestrator"].records
      /\ input'.current = input.current /\ input'.baseline = input.baseline
      /\ input'.rules = input.rules /\ input'.config = input.config
      /\ input'.specs = PlaybooksOf(ledger.format) /\ input'.bundle = input.bundle
  BY <1>2 DEF LoadLive, InputFields, IsInput
<1>4. IsInput(input')
  <2>1. AreSpecs(input'.specs) /\ (input'.bundle # None => IsBundle(input'.bundle))
    BY <1>2, <1>3, PlaybooksAssumption DEF IsInput
  <2> QED BY <1>2, <1>3, <2>1, InputLoaded
<1>5. FilesOK' /\ LiveOK'
  BY <1>1 DEF DataIInv, FilesOK, LiveOK, Stored
<1>6. ComparedAre' /\ FoundAre' /\ ReportedAre'
  <2>1. ~Ready /\ ~Ready' /\ ~Investigated /\ ~Investigated'
    BY <1>1 DEF Ready, Investigated
  <2> QED BY <1>1, <2>1, NothingFound DEF DataIInv, ComparedAre
<1> QED BY <1>4, <1>5, <1>6 DEF DataIInv

\* The worker's bundle leaves what was compared; without it nothing is found.
LEMMA BundleStep ==
  ASSUME DataIInv, LoadBundle \/ BundleFails
  PROVE  DataIInv'
<1>1. /\ stage = "compared"
      /\ \/ stage' = "compared" /\ investigator' = investigator
         \/ stage' = "investigated" /\ investigator' = "none"
      /\ UNCHANGED <<files, origin, sources, comparison, findings, report, ledger, cache, calls>>
  BY DEF LoadBundle, BundleFails, liveVars
<1>2. /\ DOMAIN input' = InputFields /\ input'.records = input.records
      /\ input'.current = input.current /\ input'.baseline = input.baseline
      /\ input'.rules = input.rules /\ input'.config = input.config /\ input'.specs = input.specs
      /\ input'.accounts = input.accounts
      /\ \E through : input'.bundle = Bundle(<<>>, through)
  BY DEF LoadBundle, BundleFails, InputFields, DataIInv, IsInput
<1>3. IsInput(input')
  <2>1. IsInput(input) /\ IsBill(input.records) /\ AreSpecs(input'.specs)
    BY <1>2 DEF DataIInv, IsInput
  <2>2. IsBundle(input'.bundle)
    <3>1. IsList(<<>>)
      BY DEF IsList
    <3> QED BY <1>2, <3>1, BundleOK
  <2> QED BY <1>2, <2>1, <2>2, InputLoaded
<1>4. FilesOK' /\ LiveOK'
  BY <1>1 DEF DataIInv, FilesOK, LiveOK, Stored
<1>5. ComparedAre'
  <2>1. Compared' = Compared
    BY <1>2 DEF Compared, Selected
  <2>2. Ready /\ Ready' /\ Candidates' = Candidates /\ comparison' = comparison
    BY <1>1 DEF Ready, Candidates
  <2> QED BY <1>2, <2>1, <2>2 DEF DataIInv, ComparedAre, ResourcesOf
<1>6. FoundAre' /\ ReportedAre'
  BY <1>1 DEF DataIInv, FoundAre, ReportedAre, Investigated
<1> QED BY <1>3, <1>4, <1>5, <1>6 DEF DataIInv

\* The records that a comparison is about are some of those that were loaded.
LEMMA FilteredOK ==
  ASSUME NEW records, IsBill(records), NEW accounts
  PROVE  /\ IsList(FilterRecords(records, accounts))
         /\ \A i \in 1..Len(FilterRecords(records, accounts)) :
              /\ IsRecord(FilterRecords(records, accounts)[i])
              /\ FilterRecords(records, accounts)[i].resource \in ResourcesOf(records)
<1> DEFINE places == {i \in 1..Len(records) :
                        /\ accounts # {} => records[i].account \in accounts
                        /\ records[i].category \in {"usage", "purchase", "adjustment"}}
           kept == ElementsAt(records, places)
<1>1. FilterRecords(records, accounts) = kept
  BY DEF FilterRecords
<1>2. places \in SUBSET (1..Len(records))
  OBVIOUS
<1> HIDE DEF places
<1>3. IsList(kept) /\ \A m \in 1..Len(kept) : \E i \in places : kept[m] = records[i]
  BY <1>2, KeptList DEF IsBill
<1> HIDE DEF kept
<1>4. \A m \in 1..Len(kept) : IsRecord(kept[m]) /\ kept[m].resource \in ResourcesOf(records)
  BY <1>2, <1>3 DEF IsBill, ResourcesOf
<1> QED BY <1>1, <1>3, <1>4

LEMMA CompareStep ==
  ASSUME DataIInv, Compare, UNCHANGED <<liveVars, origin, files, sources>>
  PROVE  DataIInv'
<1> DEFINE made == CompareProvider(Selected, input.current, input.baseline, input.config)
<1>1. /\ stage = "loaded" /\ stage' = "compared" /\ comparison' = ComparePeriods(<<made>>, input.config)
      /\ UNCHANGED <<input, investigator, findings, report, files, origin, sources, ledger, cache, calls>>
  BY DEF Compare, liveVars
<1>2. Candidates' = made.candidates
  <2> HIDE DEF made
  <2>1. comparison'.providers = <<made>>
    BY <1>1 DEF ComparePeriods
  <2> QED BY <2>1 DEF Candidates
<1>3. CandidatesOK(made.candidates, ResourcesOf(input.records))
  <2>1. /\ IsBill(input.records) /\ IsPeriod(input.current) /\ IsPeriod(input.baseline)
        /\ input.config.maxCandidates \in Nat
    BY DEF DataIInv, IsInput
  <2>2. /\ IsList(Selected)
        /\ \A i \in 1..Len(Selected) :
             IsRecord(Selected[i]) /\ Selected[i].resource \in ResourcesOf(input.records) \cup {None}
    BY <2>1, FilteredOK DEF Selected
  <2> HIDE DEF made
  <2> QED BY <2>1, <2>2, ComparedOK DEF made
<1> HIDE DEF made
<1>4. FilesOK' /\ LiveOK' /\ IsInput(input)'
  BY <1>1 DEF DataIInv, FilesOK, LiveOK, Stored
<1>5. ComparedAre'
  <2>1. Ready' /\ Compared' = ComparePeriods(<<made>>, input.config)
    BY <1>1 DEF Ready, Compared, Selected, made
  <2> QED BY <1>1, <1>2, <1>3, <2>1 DEF ComparedAre
<1>6. FoundAre' /\ ReportedAre'
  <2>1. ~Investigated /\ ~Investigated'
    BY <1>1 DEF Investigated
  <2> QED BY <1>1, <2>1, NothingFound
<1> QED BY <1>4, <1>5, <1>6 DEF DataIInv

LEMMA InvestigateStep ==
  ASSUME DataIInv, input.bundle # None, InvestigateByRules \/ InvestigateByAgent,
         UNCHANGED <<liveVars, origin, files, sources>>
  PROVE  DataIInv'
<1>1. /\ stage = "compared" /\ stage' = "investigated"
      /\ UNCHANGED <<input, comparison, report, files, origin, sources, ledger, cache, calls>>
  BY DEF InvestigateByRules, InvestigateByAgent, liveVars
<1>2. FilesOK' /\ LiveOK' /\ IsInput(input)'
  BY <1>1 DEF DataIInv, FilesOK, LiveOK, Stored
<1>3. Candidates' = Candidates /\ ComparedAre'
  <2>1. Candidates' = Candidates /\ Ready /\ Ready' /\ Compared' = Compared
    BY <1>1 DEF Ready, Candidates, Compared, Selected
  <2> QED BY <1>1, <2>1 DEF DataIInv, ComparedAre
<1>4. FoundAre'
  <2>1. CASE InvestigateByRules
    <3>1. Explained' = Explained
      BY <1>1, <1>3 DEF Explained
    <3>2. findings' = Explained /\ investigator' = "rules"
      BY <2>1 DEF InvestigateByRules, Explained
    <3> QED BY <1>1, <3>1, <3>2 DEF FoundAre, Investigated
  <2>2. CASE InvestigateByAgent
    BY <1>1, <2>2 DEF InvestigateByAgent, FoundAre, Investigated
  <2> QED BY <2>1, <2>2
<1>5. ReportedAre'
  BY <1>1 DEF DataIInv, ReportedAre
<1> QED BY <1>2, <1>3, <1>4, <1>5 DEF DataIInv

LEMMA PublishStep ==
  ASSUME DataIInv, Publish, UNCHANGED <<liveVars, origin, files, sources>>
  PROVE  DataIInv'
<1>1. /\ stage = "investigated" /\ stage' = "published"
      /\ UNCHANGED <<input, comparison, investigator, findings, files, origin, sources, ledger, cache, calls>>
  BY DEF Publish, liveVars
<1>2. FilesOK' /\ LiveOK' /\ IsInput(input)'
  BY <1>1 DEF DataIInv, FilesOK, LiveOK, Stored
<1>3. Candidates' = Candidates /\ ComparedAre'
  <2>1. Candidates' = Candidates /\ Ready /\ Ready' /\ Compared' = Compared
    BY <1>1 DEF Ready, Candidates, Compared, Selected
  <2> QED BY <1>1, <2>1 DEF DataIInv, ComparedAre
<1>4. Explained' = Explained
  BY <1>1, <1>3 DEF Explained
<1>5. FoundAre'
  BY <1>1, <1>4 DEF DataIInv, FoundAre, Investigated
<1>6. Judged' = Judged
  BY <1>1, <1>3 DEF Judged, KnownResources, Measured
<1>7. report'.findings = RankFindings(Judged.findings) /\ report'.dropped = Judged.dropped
  BY DEF Publish, Judged
<1>8. ReportedAre'
  BY <1>1, <1>6, <1>7 DEF ReportedAre
<1> QED BY <1>2, <1>3, <1>5, <1>8 DEF DataIInv

\* A breakdown is another end.
LEMMA BreakdownStep ==
  ASSUME DataIInv, NEW d, GetCostBreakdown(d), UNCHANGED <<liveVars, origin, files, sources>>
  PROVE  DataIInv'
<1>1. /\ stage = "loaded" /\ stage' = "grouped"
      /\ UNCHANGED <<input, comparison, investigator, findings, report, files, origin, sources>>
      /\ UNCHANGED <<ledger, cache, calls>>
  BY DEF GetCostBreakdown, liveVars
<1>2. FilesOK' /\ LiveOK' /\ IsInput(input)'
  BY <1>1 DEF DataIInv, FilesOK, LiveOK, Stored
<1>3. ComparedAre' /\ FoundAre' /\ ReportedAre'
  <2>1. ~Ready /\ ~Ready' /\ ~Investigated /\ ~Investigated'
    BY <1>1 DEF Ready, Investigated
  <2> QED BY <1>1, <2>1, NothingFound DEF DataIInv, ComparedAre
<1> QED BY <1>2, <1>3 DEF DataIInv

\* A caller's turn: it is in order again, and what is kept are rows.
LEMMA CallReplaced ==
  ASSUME LiveOK, FetchIInv, NEW c \in Callers, NEW call, CallOK(call),
         calls' = [calls EXCEPT ![c] = call], UNCHANGED <<ledger, origin>>,
         \A k \in DOMAIN cache' : IsLedger(cache'[k].rows)
  PROVE  LiveOK'
<1>1. \A d \in Callers : calls'[d] = IF d = c THEN call ELSE calls[d]
  BY DEF FetchIInv, LiveTypes
<1>2. origin = "live" => \A d \in Callers : CallOK(calls'[d])
  BY <1>1 DEF LiveOK
<1>3. origin = "live" => ledger.format \in {"aws", "azure", "gcp"} /\ IsLedger(ledger.rows)
  BY DEF LiveOK
<1> QED BY <1>2, <1>3 DEF LiveOK

LEMMA AnsweredOK ==
  ASSUME LiveOK, origin = "live", NEW call, NEW rows, IsLedger(rows)
  PROVE  CallOK(Answered(call, rows))
<1>1. IsBill(Answered(call, rows).records)
  BY AnsweredBill DEF LiveOK
<1>2. Answered(call, rows).pages = 0
  BY DEF Answered, NotAsked
<1> QED BY <1>1, <1>2 DEF CallOK

LEMMA EnteredOK ==
  ASSUME LiveOK, origin = "live", NEW call, DOMAIN call = CallFields, CallOK(call), NEW entries,
         \A k \in DOMAIN entries : IsLedger(entries[k].rows)
  PROVE  CallOK(Entered(call, entries))
<1> DEFINE key == CacheKey(call.window)
           started == [call EXCEPT !.stage = "fetching", !.started = now, !.attempt = 1]
<1>1. CASE key \in DOMAIN entries /\ entries[key].expires > now
  <2>1. Entered(call, entries) = Answered(call, entries[key].rows)
    BY <1>1 DEF Entered
  <2> QED BY <1>1, <2>1, AnsweredOK
<1>2. CASE ~(key \in DOMAIN entries /\ entries[key].expires > now)
  <2>1. Entered(call, entries) = started
    BY <1>2 DEF Entered
  <2>2. started.records = call.records /\ started.pages = call.pages /\ started.total = call.total
    BY DEF CallFields, NotAsked
  <2> QED BY <2>1, <2>2 DEF CallOK
<1> QED BY <1>1, <1>2

LEMMA OverOK == CallOK(Over)
<1> QED BY NothingIsABill DEF Over, NotAsked, CallOK

LEMMA AskOK ==
  ASSUME LiveOK, FetchIInv, origin = "live", UNCHANGED origin, NEW c \in Callers, NEW periods, Ask(c, periods)
  PROVE  LiveOK'
<1> DEFINE window == LiveWindow(periods)
           call == [NotAsked EXCEPT !.periods = periods, !.window = window]
<1>1. UNCHANGED ledger
  BY DEF Ask
<1>2. ASSUME NEW lock PROVE DOMAIN [call EXCEPT !.lock = lock] = CallFields /\ CallOK([call EXCEPT !.lock = lock])
  BY NothingIsABill DEF NotAsked, CallFields, CallOK
<1>3. \A k \in DOMAIN cache : IsLedger(cache[k].rows)
  BY DEF LiveOK
<1>4. CASE window = None
  <2> DEFINE answered == [call EXCEPT !.stage = "answered", !.through = EndOfDay(today - 1)]
  <2>1. calls' = [calls EXCEPT ![c] = answered] /\ cache' = cache
    BY <1>4 DEF Ask
  <2>2. CallOK(answered)
    BY NothingIsABill DEF NotAsked, CallOK
  <2> HIDE DEF answered
  <2> QED BY <1>1, <1>3, <2>1, <2>2, CallReplaced
<1>5. CASE window # None /\ Days(window) > MaxDays
  <2>1. calls' = [calls EXCEPT ![c] = Over] /\ cache' = cache
    BY <1>5 DEF Ask
  <2> QED BY <1>1, <1>3, <2>1, OverOK, CallReplaced
<1>6. CASE window # None /\ ~(Days(window) > MaxDays)
  <2>1. PICK kept \in Purged : \E lock :
          LET entries == [k \in kept |-> cache[k]]
          IN  /\ cache' = entries
              /\ \/ calls' = [calls EXCEPT ![c] = Entered([call EXCEPT !.lock = lock], entries)]
                 \/ calls' = [calls EXCEPT ![c] = [call EXCEPT !.stage = "waiting", !.lock = lock]]
    BY <1>6 DEF Ask
  <2> DEFINE entries == [k \in kept |-> cache[k]]
  <2>2. PICK lock : \/ calls' = [calls EXCEPT ![c] = Entered([call EXCEPT !.lock = lock], entries)]
                    \/ calls' = [calls EXCEPT ![c] = [call EXCEPT !.stage = "waiting", !.lock = lock]]
    BY <2>1
  <2>3. kept \subseteq DOMAIN cache
    BY DEF Purged
  <2>4. \A k \in DOMAIN entries : IsLedger(entries[k].rows)
    BY <1>3, <2>3
  <2>5. cache' = entries
    BY <2>1
  <2> HIDE DEF entries
  <2>6. CallOK(Entered([call EXCEPT !.lock = lock], entries))
    <3>1. DOMAIN [call EXCEPT !.lock = lock] = CallFields /\ CallOK([call EXCEPT !.lock = lock])
      BY <1>2
    <3> HIDE DEF call
    <3> QED BY <2>4, <3>1, EnteredOK
  <2>7. CallOK([call EXCEPT !.stage = "waiting", !.lock = lock])
    BY NothingIsABill DEF NotAsked, CallOK
  <2> HIDE DEF call
  <2>8. \A k \in DOMAIN cache' : IsLedger(cache'[k].rows)
    BY <2>4, <2>5
  <2> QED BY <1>1, <2>2, <2>6, <2>7, <2>8, CallReplaced
<1> QED BY <1>4, <1>5, <1>6

LEMMA TurnOK ==
  ASSUME LiveOK, FetchIInv, origin = "live", UNCHANGED origin, NEW c \in Callers,
         Acquire(c) \/ ReadAll(c) \/ ReadPage(c) \/ PostAgain(c) \/ FetchFails(c) \/ Cancel(c)
  PROVE  LiveOK'
<1>1. /\ \A k \in DOMAIN cache : IsLedger(cache[k].rows)
      /\ ledger.format \in {"aws", "azure", "gcp"} /\ IsLedger(ledger.rows)
      /\ CallOK(calls[c])
  BY DEF LiveOK
<1>2. DOMAIN calls[c] = CallFields
  BY DEF FetchIInv, LiveTypes
<1>3. ASSUME GiveUp(c) PROVE LiveOK'
  <2>1. calls' = [calls EXCEPT ![c] = Over] /\ UNCHANGED <<ledger, cache>>
    BY <1>3 DEF GiveUp
  <2> QED BY <1>1, <2>1, OverOK, CallReplaced
<1>4. ASSUME NEW rows, IsLedger(rows), Complete(c, rows) PROVE LiveOK'
  <2>1. /\ calls' = [calls EXCEPT ![c] = Answered(calls[c], rows)] /\ UNCHANGED ledger
        /\ \A k \in DOMAIN cache' : cache'[k].rows = rows \/ (k \in DOMAIN cache /\ cache'[k] = cache[k])
    BY <1>4 DEF Complete
  <2>2. \A k \in DOMAIN cache' : IsLedger(cache'[k].rows)
    BY <1>1, <1>4, <2>1
  <2>3. CallOK(Answered(calls[c], rows))
    BY <1>4, AnsweredOK
  <2> QED BY <2>1, <2>2, <2>3, CallReplaced
<1>5. CASE Acquire(c)
  <2>1. calls' = [calls EXCEPT ![c] = Entered(calls[c], cache)] /\ UNCHANGED <<ledger, cache>>
    BY <1>5 DEF Acquire
  <2>2. CallOK(Entered(calls[c], cache))
    BY <1>1, <1>2, EnteredOK
  <2> QED BY <1>1, <2>1, <2>2, CallReplaced
<1>6. CASE ReadAll(c)
  BY <1>1, <1>4, <1>6, QueryOK DEF ReadAll
<1>7. CASE FetchFails(c) \/ Cancel(c)
  BY <1>3, <1>7 DEF FetchFails, Cancel
<1>8. CASE PostAgain(c)
  <2> DEFINE call == [calls[c] EXCEPT !.attempt = @ + 1]
  <2>1. calls' = [calls EXCEPT ![c] = call] /\ UNCHANGED <<ledger, cache>>
    BY <1>8 DEF PostAgain
  <2>2. CallOK(call)
    BY <1>1, <1>2 DEF CallOK, CallFields, NotAsked
  <2> HIDE DEF call
  <2> QED BY <1>1, <2>1, <2>2, CallReplaced
<1>9. CASE ReadPage(c)
  <2> DEFINE total == IF calls[c].pages = 0 THEN Query(calls[c].window) ELSE calls[c].total
             call == [calls[c] EXCEPT !.total = total, !.pages = @ + 1, !.attempt = 1]
  <2>1. \/ Complete(c, total)
        \/ GiveUp(c)
        \/ calls' = [calls EXCEPT ![c] = call] /\ UNCHANGED <<ledger, cache>>
    BY <1>9 DEF ReadPage
  <2>2. IsLedger(total)
    BY <1>1, QueryOK DEF CallOK
  <2> HIDE DEF total
  <2>3. CallOK(call)
    <3>1. call.records = calls[c].records /\ call.total = total
      BY <1>2 DEF CallFields, NotAsked
    <3> QED BY <1>1, <2>2, <3>1 DEF CallOK
  <2> HIDE DEF call
  <2> QED BY <1>1, <1>3, <1>4, <2>1, <2>2, <2>3, CallReplaced
<1> QED BY <1>5, <1>6, <1>7, <1>8, <1>9

LEMMA LiveDataStep ==
  ASSUME DataIInv, FetchIInv, LiveStep
  PROVE  DataIInv'
<1>1. /\ origin = "live"
      /\ UNCHANGED <<origin, files, sources, input, stage, comparison, investigator, findings, report>>
  BY DEF LiveStep, vars
<1>2. LiveOK
  BY DEF DataIInv
<1>3. LiveOK'
  <2>1. CASE \E c \in Callers : \E periods \in AskedNow(c) : Ask(c, periods)
    BY <1>1, <1>2, <2>1, AskOK
  <2>2. CASE \E c \in Callers : \/ Acquire(c) \/ ReadAll(c) \/ ReadPage(c) \/ PostAgain(c)
                                \/ FetchFails(c) \/ Cancel(c)
    BY <1>1, <1>2, <2>2, TurnOK
  <2>3. CASE Report \/ Tick \/ Midnight
    <3>1. UNCHANGED <<ledger, cache, calls>>
      BY <2>3 DEF Report, Tick, Midnight
    <3> QED BY <1>1, <1>2, <3>1 DEF LiveOK
  <2> QED BY <2>1, <2>2, <2>3 DEF LiveStep, LiveNext
<1>4. FilesOK' /\ IsInput(input)'
  BY <1>1 DEF DataIInv, FilesOK, Stored
<1>5. ComparedAre' /\ FoundAre' /\ ReportedAre'
  BY <1>1, AnalysisKept
<1> QED BY <1>3, <1>4, <1>5 DEF DataIInv

LEMMA DataStep == DataIInv /\ FetchIInv /\ [Next]_pipelineVars => DataIInv'
<1> SUFFICES ASSUME DataIInv, FetchIInv, [Next]_pipelineVars PROVE DataIInv'
  OBVIOUS
<1>1. CASE UNCHANGED pipelineVars
  <2>1. /\ UNCHANGED <<origin, files, sources, input, stage, comparison, investigator, findings>>
        /\ UNCHANGED <<report, ledger, cache, calls>>
    BY <1>1 DEF pipelineVars, vars, liveVars
  <2>2. FilesOK' /\ LiveOK' /\ IsInput(input)'
    BY <2>1 DEF DataIInv, FilesOK, LiveOK, Stored
  <2>3. ComparedAre' /\ FoundAre' /\ ReportedAre'
    BY <2>1, AnalysisKept
  <2> QED BY <2>2, <2>3 DEF DataIInv
<1>2. CASE \E kind \in Kinds : PutSource(kind)
  BY <1>2, PutStep
<1>3. CASE LoadDataset \/ LoadLive \/ LoadBundle \/ BundleFails
  BY <1>3, LoadDatasetStep, LoadLiveStep, BundleStep
<1>4. CASE LoadFails
  <2>1. /\ UNCHANGED <<origin, files, sources, input, comparison, investigator, findings>>
        /\ UNCHANGED <<report, ledger, cache, calls>> /\ stage = "sourcing" /\ stage' = "unavailable"
    BY <1>4 DEF LoadFails, liveVars
  <2>2. FilesOK' /\ LiveOK' /\ IsInput(input)'
    BY <2>1 DEF DataIInv, FilesOK, LiveOK, Stored
  <2>3. ComparedAre' /\ FoundAre' /\ ReportedAre'
    <3>1. ~Ready /\ ~Ready' /\ ~Investigated /\ ~Investigated'
      BY <2>1 DEF Ready, Investigated
    <3> QED BY <2>1, <3>1, NothingFound DEF DataIInv, ComparedAre
  <2> QED BY <2>2, <2>3 DEF DataIInv
<1>5. CASE AnalysisStep
  BY <1>5, CompareStep, InvestigateStep, PublishStep, BreakdownStep DEF AnalysisStep
<1>6. CASE LiveStep
  BY <1>6, LiveDataStep
<1> QED BY <1>1, <1>2, <1>3, <1>4, <1>5, <1>6 DEF Next

LEMMA DataInvariance == Spec => []DataIInv
<1> QED BY InitDataIInv, DataStep, FetchInvariance, PTL DEF Spec

\* Whatever was billed and however the data came, a rule the playbooks cite was in force
\* on the date it interprets, and none of its rank that began later was passed over.
THEOREM CitedRulesAreInForce == Spec => []RulesAreInForce
<1>1. DataIInv => RulesAreInForce
  <2> SUFFICES ASSUME DataIInv, investigator = "rules", NEW c \in Cited PROVE RuleInForce(c, input.rules)
    BY DEF RulesAreInForce, RuleInForce, Rivals
  <2>1. findings = Explained /\ Investigated
    BY NoneAssumption DEF DataIInv, FoundAre
  <2>2. /\ IsList(Candidates) /\ RulesDated(input.rules) /\ input.current.end \in Int
    BY <2>1 DEF DataIInv, IsInput, IsPeriod, ComparedAre, Ready, Investigated, CandidatesOK
  <2>3. \A d \in CitedBy(Explained) : RuleInForce(d, input.rules)
    BY <2>2, CitedInForce, LimitAssumption DEF Explained
  <2> QED BY <2>1, <2>3 DEF Cited, CitedBy
<1> QED BY <1>1, DataInvariance, PTL

-----------------------------------------------------------------------------
(* Sums over finite sets. *)

\* Every set of subsets that has the empty one, and a set when it has all that are one
\* element smaller, has them all.
LEMMA EverySubset ==
  ASSUME NEW S, IsFiniteSet(S), NEW Q \in SUBSET (SUBSET S), {} \in Q,
         \A T \in SUBSET S : T # {} /\ (\A x \in T : T \ {x} \in Q) => T \in Q
  PROVE  Q = SUBSET S
<1> DEFINE P == {n \in Nat : \A T \in SUBSET S : Cardinality(T) = n => T \in Q}
<1>1. 0 \in P
  <2>1. ASSUME NEW T \in SUBSET S, Cardinality(T) = 0 PROVE T \in Q
    <3>1. IsFiniteSet(T)
      BY FS_Subset
    <3>2. T = {}
      BY <2>1, <3>1, FS_EmptySet
    <3> QED BY <3>2
  <2> QED BY <2>1
<1>2. ASSUME NEW n \in P PROVE n + 1 \in P
  <2>1. ASSUME NEW T \in SUBSET S, Cardinality(T) = n + 1 PROVE T \in Q
    <3>1. IsFiniteSet(T)
      BY FS_Subset
    <3>2. T # {}
      <4>1. n \in Nat
        OBVIOUS
      <4> HIDE DEF P
      <4>2. Cardinality({}) = 0
        BY FS_EmptySet
      <4>3. n + 1 # 0
        BY <4>1
      <4>4. Cardinality(T) # Cardinality({})
        BY <2>1, <4>2, <4>3
      <4> QED BY <4>4
    <3>3. ASSUME NEW x \in T PROVE T \ {x} \in Q
      <4> HIDE DEF P
      <4>1. Cardinality(T \ {x}) = Cardinality(T) - 1
        BY <3>1, FS_RemoveElement
      <4>2. n \in Nat
        BY DEF P
      <4>3. Cardinality(T \ {x}) = n
        BY <2>1, <4>1, <4>2
      <4>4. T \ {x} \in SUBSET S
        OBVIOUS
      <4> QED BY <4>3, <4>4 DEF P
    <3> QED BY <3>2, <3>3
  <2>2. n + 1 \in Nat
    OBVIOUS
  <2> QED BY <2>1, <2>2
<1>3. P = Nat
  <2> HIDE DEF P
  <2>1. P \in SUBSET Nat
    BY DEF P
  <2> QED BY <1>1, <1>2, <2>1, EveryNatural
<1>4. ASSUME NEW T \in SUBSET S PROVE T \in Q
  <2>1. Cardinality(T) \in Nat
    BY FS_Subset, FS_CardinalityType
  <2> QED BY <1>3, <2>1
<1> QED BY <1>4

\* The sum of a function over a set, and the function on its subsets that makes it.
Total(f, S) == MapThenSumSet(LAMBDA x : f[x], S)
Some(S) == CHOOSE x \in S : TRUE
Summed(f, g, s) == IF s = {} THEN 0 ELSE f[Some(s)] + g[s \ {Some(s)}]
Sums(g, f, S) == g = [s \in SUBSET S |-> Summed(f, g, s)]

LEMMA SumsExist ==
  ASSUME NEW S, IsFiniteSet(S), NEW f
  PROVE  \E g : Sums(g, f, S)
<1> DEFINE D(n) == {s \in SUBSET S : Cardinality(s) <= n}
           P == {n \in Nat : \E g : \A s \in D(n) : g[s] = Summed(f, g, s)}
<1>1. \A s \in SUBSET S : /\ Cardinality(s) \in Nat /\ Cardinality(s) <= Cardinality(S)
                          /\ s # {} => Some(s) \in s /\ Cardinality(s \ {Some(s)}) = Cardinality(s) - 1
  <2> TAKE s \in SUBSET S
  <2>1. IsFiniteSet(s) /\ Cardinality(s) <= Cardinality(S)
    BY FS_Subset
  <2>2. Cardinality(s) \in Nat
    BY <2>1, FS_CardinalityType
  <2>3. s # {} => Some(s) \in s
    BY DEF Some
  <2> HIDE DEF Some
  <2> QED BY <2>1, <2>2, <2>3, FS_RemoveElement
<1>2. 0 \in P
  <2> DEFINE g == [s \in SUBSET S |-> 0]
  <2>1. ASSUME NEW s \in D(0) PROVE g[s] = Summed(f, g, s)
    <3>0. s \in SUBSET S /\ Cardinality(s) <= 0
      OBVIOUS
    <3> HIDE DEF D
    <3>1. Cardinality(s) \in Nat
      BY <1>1, <3>0
    <3>2. Cardinality(s) = 0 /\ IsFiniteSet(s)
      BY <3>0, <3>1, FS_Subset
    <3>3. s = {}
      BY <3>2, FS_EmptySet
    <3>4. g[s] = 0
      BY <3>0
    <3> QED BY <3>3, <3>4 DEF Summed
  <2> QED BY <2>1
<1>3. ASSUME NEW n \in P PROVE n + 1 \in P
  <2>1. PICK g : \A s \in D(n) : g[s] = Summed(f, g, s)
    OBVIOUS
  <2> DEFINE h == [s \in SUBSET S |-> IF s \in D(n) THEN g[s] ELSE Summed(f, g, s)]
  <2>2. ASSUME NEW s \in D(n + 1) PROVE h[s] = Summed(f, h, s)
    <3>1. h[s] = Summed(f, g, s)
      BY <2>1
    <3>2. CASE s = {}
      BY <3>1, <3>2 DEF Summed
    <3>3. CASE s # {}
      <4>1. s \ {Some(s)} \in D(n)
        BY <1>1, <3>3
      <4>2. h[s \ {Some(s)}] = g[s \ {Some(s)}]
        BY <4>1
      <4> HIDE DEF h
      <4> QED BY <3>1, <3>3, <4>2 DEF Summed
    <3> QED BY <3>2, <3>3
  <2> HIDE DEF h
  <2> QED BY <2>2
<1>4. P = Nat
  <2> HIDE DEF P
  <2>1. P \in SUBSET Nat
    BY DEF P
  <2> QED BY <1>2, <1>3, <2>1, EveryNatural
<1>5. PICK g : \A s \in D(Cardinality(S)) : g[s] = Summed(f, g, s)
  BY <1>1, <1>4
<1>6. D(Cardinality(S)) = SUBSET S
  BY <1>1
<1> DEFINE h == [s \in SUBSET S |-> g[s]]
<1>7. ASSUME NEW s \in SUBSET S PROVE h[s] = Summed(f, h, s)
  <2>1. s # {} => s \ {Some(s)} \in SUBSET S
    OBVIOUS
  <2> QED BY <1>5, <1>6, <2>1 DEF Summed
<1>8. Sums(h, f, S)
  BY <1>7 DEF Sums
<1> QED BY <1>8

LEMMA SumsAgree ==
  ASSUME NEW S, IsFiniteSet(S), NEW f, NEW g, Sums(g, f, S),
         NEW T \in SUBSET S, NEW e, NEW h, Sums(h, e, T), \A x \in T : f[x] = e[x]
  PROVE  \A s \in SUBSET T : g[s] = h[s]
<1> DEFINE Q == {s \in SUBSET T : g[s] = h[s]}
<1>1. /\ \A s \in SUBSET T : g[s] = Summed(f, g, s)
      /\ \A s \in SUBSET T : h[s] = Summed(e, h, s)
  BY DEF Sums
<1>2. {} \in Q
  BY <1>1 DEF Summed
<1>3. ASSUME NEW s \in SUBSET T, s # {}, \A x \in s : s \ {x} \in Q PROVE s \in Q
  <2>1. Some(s) \in s
    BY <1>3 DEF Some
  <2>2. g[s \ {Some(s)}] = h[s \ {Some(s)}] /\ f[Some(s)] = e[Some(s)]
    BY <1>3, <2>1
  <2> QED BY <1>1, <1>3, <2>2 DEF Summed
<1>4. Q = SUBSET T
  <2> HIDE DEF Q
  <2>1. Q \in SUBSET (SUBSET T)
    BY DEF Q
  <2>2. IsFiniteSet(T)
    BY FS_Subset
  <2> QED BY <1>2, <1>3, <2>1, <2>2, EverySubset
<1> QED BY <1>4

LEMMA TotalIs ==
  ASSUME NEW S, IsFiniteSet(S), NEW f, NEW g, Sums(g, f, S), NEW T \in SUBSET S
  PROVE  g[T] = Total(f, T)
<1> DEFINE h == CHOOSE h : Sums(h, f, T)
<1>1. IsFiniteSet(T)
  BY FS_Subset
<1>2. Sums(h, f, T)
  BY <1>1, SumsExist
<1>3. Total(f, T) = h[T]
  BY DEF Total, MapThenSumSet, MapThenFoldSet, Sums, Summed, Some
<1> HIDE DEF h
<1>4. T \in SUBSET T
  OBVIOUS
<1>5. \A x \in T : f[x] = f[x]
  OBVIOUS
<1>6. \A s \in SUBSET T : g[s] = h[s]
  BY <1>2, <1>5, SumsAgree
<1> QED BY <1>3, <1>4, <1>6

LEMMA TotalMade ==
  ASSUME NEW S, IsFiniteSet(S), NEW f
  PROVE  Total(f, S) = IF S = {} THEN 0 ELSE f[Some(S)] + Total(f, S \ {Some(S)})
<1>1. PICK g : Sums(g, f, S)
  BY SumsExist
<1>2. S \in SUBSET S /\ S \ {Some(S)} \in SUBSET S
  OBVIOUS
<1>3. g[S] = Total(f, S) /\ g[S \ {Some(S)}] = Total(f, S \ {Some(S)})
  BY <1>1, <1>2, TotalIs
<1>4. g[S] = Summed(f, g, S)
  BY <1>1, <1>2 DEF Sums
<1> QED BY <1>3, <1>4 DEF Summed

LEMMA TotalSame ==
  ASSUME NEW S, IsFiniteSet(S), NEW f, NEW e, \A x \in S : f[x] = e[x]
  PROVE  Total(f, S) = Total(e, S)
<1>1. PICK g : Sums(g, f, S)
  BY SumsExist
<1>2. PICK h : Sums(h, e, S)
  BY SumsExist
<1>3. S \in SUBSET S
  OBVIOUS
<1>4. g[S] = h[S]
  BY <1>1, <1>2, <1>3, SumsAgree
<1> QED BY <1>1, <1>2, <1>3, <1>4, TotalIs

LEMMA TotalWhole ==
  ASSUME NEW S, IsFiniteSet(S), NEW f, \A x \in S : f[x] \in Int
  PROVE  Total(f, S) \in Int
<1> DEFINE Q == {s \in SUBSET S : Total(f, s) \in Int}
<1>1. \A s \in SUBSET S : Total(f, s) = IF s = {} THEN 0 ELSE f[Some(s)] + Total(f, s \ {Some(s)})
  BY FS_Subset, TotalMade
<1>2. {} \in Q
  <2>1. {} \in SUBSET S
    OBVIOUS
  <2>2. Total(f, {}) = 0
    BY <1>1, <2>1
  <2> QED BY <2>1, <2>2
<1>3. ASSUME NEW s \in SUBSET S, s # {}, \A x \in s : s \ {x} \in Q PROVE s \in Q
  <2>1. Some(s) \in s
    BY <1>3 DEF Some
  <2>2. f[Some(s)] \in Int /\ Total(f, s \ {Some(s)}) \in Int
    BY <1>3, <2>1
  <2> QED BY <1>1, <1>3, <2>2
<1>4. Q = SUBSET S
  <2> HIDE DEF Q
  <2>1. Q \in SUBSET (SUBSET S)
    BY DEF Q
  <2> QED BY <1>2, <1>3, <2>1, EverySubset
<1> QED BY <1>4

\* It does not matter which element is added last.
LEMMA TotalStep ==
  ASSUME NEW S, IsFiniteSet(S), NEW f, \A x \in S : f[x] \in Int, NEW x \in S
  PROVE  Total(f, S) = f[x] + Total(f, S \ {x})
<1> DEFINE Q == {s \in SUBSET S : \A y \in s : Total(f, s) = f[y] + Total(f, s \ {y})}
<1>1. \A s \in SUBSET S : /\ Total(f, s) = IF s = {} THEN 0 ELSE f[Some(s)] + Total(f, s \ {Some(s)})
                          /\ Total(f, s) \in Int
  BY FS_Subset, TotalMade, TotalWhole
<1>2. {} \in Q
  OBVIOUS
<1>3. ASSUME NEW s \in SUBSET S, s # {}, \A y \in s : s \ {y} \in Q PROVE s \in Q
  <2> SUFFICES ASSUME NEW y \in s PROVE Total(f, s) = f[y] + Total(f, s \ {y})
    OBVIOUS
  <2> DEFINE z == Some(s)
  <2>1. z \in s
    BY <1>3 DEF Some
  <2>2. Total(f, s) = f[z] + Total(f, s \ {z})
    BY <1>1, <1>3
  <2> HIDE DEF z
  <2>3. CASE y = z
    BY <2>2, <2>3
  <2>4. CASE y # z
    <3>1. y \in s \ {z} /\ z \in s \ {y} /\ s \ {z} \in Q /\ s \ {y} \in Q
      BY <1>3, <2>1, <2>4
    <3>2. (s \ {z}) \ {y} = (s \ {y}) \ {z}
      OBVIOUS
    <3> DEFINE rest == (s \ {y}) \ {z}
    <3>3. Total(f, s \ {z}) = f[y] + Total(f, rest)
      BY <3>1, <3>2
    <3>4. Total(f, s \ {y}) = f[z] + Total(f, rest)
      BY <3>1
    <3>5. f[y] \in Int /\ f[z] \in Int /\ Total(f, rest) \in Int
      BY <1>1, <2>1
    <3> HIDE DEF rest
    <3> QED BY <2>2, <3>3, <3>4, <3>5
  <2> QED BY <2>3, <2>4
<1>4. Q = SUBSET S
  <2> HIDE DEF Q
  <2>1. Q \in SUBSET (SUBSET S)
    BY DEF Q
  <2> QED BY <1>2, <1>3, <2>1, EverySubset
<1> QED BY <1>4

\* Smaller summands have a smaller sum.
LEMMA TotalGrows ==
  ASSUME NEW S, IsFiniteSet(S), NEW f, NEW e, \A x \in S : f[x] \in Int /\ e[x] \in Int /\ f[x] <= e[x]
  PROVE  Total(f, S) <= Total(e, S)
<1> DEFINE Q == {s \in SUBSET S : Total(f, s) <= Total(e, s)}
<1>1. \A s \in SUBSET S : /\ Total(f, s) = IF s = {} THEN 0 ELSE f[Some(s)] + Total(f, s \ {Some(s)})
                          /\ Total(e, s) = IF s = {} THEN 0 ELSE e[Some(s)] + Total(e, s \ {Some(s)})
                          /\ Total(f, s) \in Int /\ Total(e, s) \in Int
  BY FS_Subset, TotalMade, TotalWhole
<1>2. {} \in Q
  <2>1. {} \in SUBSET S
    OBVIOUS
  <2>2. Total(f, {}) = 0 /\ Total(e, {}) = 0
    BY <1>1, <2>1
  <2> QED BY <2>1, <2>2
<1>3. ASSUME NEW s \in SUBSET S, s # {}, \A y \in s : s \ {y} \in Q PROVE s \in Q
  <2>1. Some(s) \in s
    BY <1>3 DEF Some
  <2>2. /\ Total(f, s \ {Some(s)}) <= Total(e, s \ {Some(s)})
        /\ Total(f, s \ {Some(s)}) \in Int /\ Total(e, s \ {Some(s)}) \in Int
        /\ f[Some(s)] \in Int /\ e[Some(s)] \in Int /\ f[Some(s)] <= e[Some(s)]
    BY <1>1, <1>3, <2>1
  <2> QED BY <1>1, <1>3, <2>2
<1>4. Q = SUBSET S
  <2> HIDE DEF Q
  <2>1. Q \in SUBSET (SUBSET S)
    BY DEF Q
  <2> QED BY <1>2, <1>3, <2>1, EverySubset
<1> QED BY <1>4

-----------------------------------------------------------------------------
(* What there is to know of a candidate can be counted, and what that earns is bounded. *)

LEMMA RoundedGrows ==
  ASSUME NEW a \in Int, NEW b \in Int, b > 0, a >= 0
  PROVE  RoundDiv(a, b) \in Int /\ RoundDiv(a, b) >= 0
<1>1. a \div b \in Int /\ a \div b >= 0
  OBVIOUS
<1> QED BY <1>1 DEF RoundDiv

LEMMA SeparationBounded ==
  ASSUME NEW c, c.percent \in Int \cup {None}
  PROVE  Separation(c) \in 0..1000
<1>1. c.percent # None => RoundDiv(c.percent, 300) \in Int
  BY RoundedIsWhole
<1> QED BY <1>1 DEF Separation, Larger, Smaller

LEMMA RateIsWhole ==
  ASSUME NEW spec, NEW c, IsUnitCost(c.unitBefore), IsUnitCost(c.unitNow)
  PROVE  /\ RateCoherence(spec, c) \in Int
         /\ ~(c.unitBefore # None /\ c.unitBefore[1] < 0) => RateCoherence(spec, c) \in 0..1000
<1> DEFINE was == c.unitBefore[1] * c.unitNow[2]
           is == c.unitNow[1] * c.unitBefore[2]
           quotient == IF was > 0 THEN RoundDiv(4000 * Magnitude(is - was), was)
                       ELSE 0 - RoundDiv(4000 * Magnitude(is - was), 0 - was)
           drift == Smaller(quotient, 1000)
<1>1. CASE c.unitBefore = None \/ c.unitNow = None
  <2> HIDE DEF was, is, quotient, drift
  <2>1. RateCoherence(spec, c) = 500
    BY <1>1 DEF RateCoherence
  <2> QED BY <2>1
<1>2. CASE c.unitBefore # None /\ c.unitNow # None
  <2>1. /\ c.unitBefore[1] \in Int /\ c.unitBefore[2] \in Int /\ c.unitBefore[2] > 0
        /\ c.unitNow[1] \in Int /\ c.unitNow[2] \in Int /\ c.unitNow[2] > 0
    BY <1>2 DEF IsUnitCost
  <2>2. was \in Int /\ is \in Int
    BY <2>1
  <2>3. c.unitBefore[1] >= 0 => was >= 0
    BY <2>1
  <2>4. RateCoherence(spec, c) = IF was = 0 THEN 500 ELSE IF spec.rate THEN drift ELSE 1000 - drift
    BY <1>2 DEF RateCoherence
  <2> DEFINE above == 4000 * Magnitude(is - was)
  <2>5. above \in Int /\ above >= 0
    <3> HIDE DEF was, is
    <3> QED BY <2>2 DEF Magnitude
  <2>6. quotient = IF was > 0 THEN RoundDiv(above, was) ELSE 0 - RoundDiv(above, 0 - was)
    OBVIOUS
  <2> HIDE DEF was, is, quotient, above
  <2>7. CASE was > 0
    <3>1. quotient \in Int /\ quotient >= 0
      BY <2>2, <2>5, <2>6, <2>7, RoundedGrows
    <3> QED BY <2>4, <3>1 DEF Smaller
  <2>8. CASE was < 0
    <3>1. 0 - was \in Int /\ 0 - was > 0
      BY <2>2, <2>8
    <3>2. RoundDiv(above, 0 - was) \in Int
      BY <2>5, <3>1, RoundedIsWhole
    <3>3. quotient \in Int
      BY <2>2, <2>6, <2>8, <3>2
    <3>4. RateCoherence(spec, c) \in Int
      BY <2>4, <3>3 DEF Smaller
    <3>5. c.unitBefore[1] < 0
      BY <2>1, <2>2, <2>3, <2>8
    <3> QED BY <1>2, <3>4, <3>5
  <2>9. CASE was = 0
    BY <2>4, <2>9
  <2> QED BY <2>2, <2>7, <2>8, <2>9
<1> QED BY <1>1, <1>2

\* The kinds of evidence that earn confidence.
Weighed == DOMAIN EvidenceWeight

LEMMA KindsWeighed ==
  /\ Weighed = {"usage", "inventory", "metric", "audit", "recommendation"}
  /\ IsFiniteSet(Weighed) /\ Weighed \subseteq EvidenceKinds
<1>1. Weighed = {"usage", "inventory", "metric", "audit", "recommendation"}
  BY DEF Weighed, EvidenceWeight
<1>2. IsFiniteSet({"usage", "inventory", "metric", "audit", "recommendation"})
  <2>1. IsFiniteSet({"usage"})
    BY FS_Singleton
  <2>2. IsFiniteSet({"usage", "inventory"})
    <3>1. {"usage", "inventory"} = {"usage"} \cup {"inventory"}
      OBVIOUS
    <3> QED BY <2>1, <3>1, FS_AddElement
  <2>3. IsFiniteSet({"usage", "inventory", "metric"})
    <3>1. {"usage", "inventory", "metric"} = {"usage", "inventory"} \cup {"metric"}
      OBVIOUS
    <3> QED BY <2>2, <3>1, FS_AddElement
  <2>4. IsFiniteSet({"usage", "inventory", "metric", "audit"})
    <3>1. {"usage", "inventory", "metric", "audit"} = {"usage", "inventory", "metric"} \cup {"audit"}
      OBVIOUS
    <3> QED BY <2>3, <3>1, FS_AddElement
  <2>5. IsFiniteSet({"usage", "inventory", "metric", "audit", "recommendation"})
    <3>1. {"usage", "inventory", "metric", "audit", "recommendation"} = {"usage", "inventory", "metric", "audit"} \cup {"recommendation"}
      OBVIOUS
    <3> QED BY <2>4, <3>1, FS_AddElement
  <2> QED BY <2>5
<1> QED BY <1>1, <1>2 DEF EvidenceKinds

\* Evidence can be counted.
IsEvidence(e) ==
  /\ e.usage \in Nat /\ e.inventory \in Nat /\ e.metric \in Nat /\ e.audit \in Nat
  /\ e.recommendation \in Nat /\ e.freshness \in Nat /\ e.cost = 1

LEMMA EventsList ==
  ASSUME NEW spec, NEW c, NEW bundle, IsList(bundle.events), NEW current
  PROVE  IsList(PlaybookEvents(spec, c, bundle, current))
<1> DEFINE Wanted(e) == /\ c.resource # None => c.resource \in e.resources
                        /\ spec.audits # {} => MatchesAny(e.name, spec.audits)
                        /\ PeriodContains(current, e.day)
           places == {i \in 1..Len(bundle.events) : Wanted(bundle.events[i])}
<1>1. PlaybookEvents(spec, c, bundle, current) = ElementsAt(bundle.events, places)
  BY DEF PlaybookEvents
<1>2. places \in SUBSET (1..Len(bundle.events))
  OBVIOUS
<1> HIDE DEF places
<1> QED BY <1>1, <1>2, KeptList

LEMMA EvidenceCounted ==
  ASSUME NEW spec, NEW c, NEW bundle, IsBundle(bundle), NEW current
  PROVE  IsEvidence(GatherEvidence(c, spec, bundle, current))
<1> DEFINE e == GatherEvidence(c, spec, bundle, current)
           series == SeriesFor(c, bundle)
           places == {i \in 1..Len(series) : spec.metrics = {} \/ MatchesAny(series[i].name, spec.metrics)}
           wanted == ElementsAt(series, places)
           metrics == IF wanted = <<>> THEN series ELSE wanted
           events == PlaybookEvents(spec, c, bundle, current)
           quoted == SubSeq(events, 1, Smaller(Len(events), 3))
           known == c.resource # None
<1>1. IsList(series)
  <2>1. IsList(<<>>)
    BY DEF IsList
  <2> QED BY <2>1 DEF SeriesFor, IsBundle
<1>2. IsList(wanted)
  <2> HIDE DEF series
  <2>1. places \in SUBSET (1..Len(series))
    OBVIOUS
  <2> HIDE DEF places
  <2> QED BY <1>1, <2>1, KeptList
<1>3. Len(metrics) \in Nat
  <2> HIDE DEF series, wanted
  <2> QED BY <1>1, <1>2 DEF IsList
<1>4. IsList(events)
  BY EventsList DEF IsBundle
<1>5. Len(quoted) \in Nat
  <2> HIDE DEF events
  <2> DEFINE n == Smaller(Len(events), 3)
             V == {events[i] : i \in 1..n}
  <2>1. Len(events) \in Nat
    BY <1>4 DEF IsList
  <2>2. n \in Nat
    BY <2>1 DEF Smaller
  <2> HIDE DEF n
  <2>3. \A i \in 1..n : events[i] \in V
    OBVIOUS
  <2> HIDE DEF V
  <2>4. quoted \in Seq(V)
    BY <2>2, <2>3, SubSeqProperties DEF n
  <2> HIDE DEF quoted
  <2> QED BY <2>4, LenProperties
<1>6. /\ e.usage = Points(c.used, 1) /\ e.inventory = Points(known /\ bundle.resource # None, 1)
      /\ e.metric = Smaller(Len(metrics), 3) /\ e.audit = Len(quoted) /\ e.cost = 1
      /\ e.recommendation = Points(known, Smaller(bundle.recommendations, 2))
      /\ e.freshness = Points(~bundle.complete, 1)
  BY DEF GatherEvidence
<1> HIDE DEF e, metrics, quoted
<1>7. e.metric \in Nat
  BY <1>3, <1>6 DEF Smaller
<1>8. e.usage \in Nat /\ e.inventory \in Nat /\ e.freshness \in Nat
  BY <1>6 DEF Points
<1>9. e.recommendation \in Nat
  BY <1>6 DEF Points, Smaller, IsBundle
<1>10. IsEvidence(e)
  BY <1>5, <1>6, <1>7, <1>8, <1>9 DEF IsEvidence
<1> QED BY <1>10 DEF e

LEMMA WeightsAddUp == Total(EvidenceWeight, Weighed) = 470
<1> DEFINE W == EvidenceWeight
           S4 == {"usage", "inventory", "metric", "audit"}
           S3 == {"usage", "inventory", "metric"}
           S2 == {"usage", "inventory"}
           S1 == {"usage"}
           S0 == {}
<1>1. /\ W["usage"] = 70 /\ W["inventory"] = 50 /\ W["metric"] = 120 /\ W["audit"] = 180
      /\ W["recommendation"] = 50
  BY DEF EvidenceWeight
<1>2. /\ S4 = Weighed \ {"recommendation"} /\ S3 = S4 \ {"audit"} /\ S2 = S3 \ {"metric"}
      /\ S1 = S2 \ {"inventory"} /\ S0 = S1 \ {"usage"}
  BY KindsWeighed
<1>3. /\ IsFiniteSet(Weighed) /\ IsFiniteSet(S4) /\ IsFiniteSet(S3) /\ IsFiniteSet(S2) /\ IsFiniteSet(S1)
      /\ IsFiniteSet(S0)
  <2>1. S4 \subseteq Weighed /\ S3 \subseteq Weighed /\ S2 \subseteq Weighed /\ S1 \subseteq Weighed
    BY KindsWeighed
  <2> QED BY <2>1, KindsWeighed, FS_Subset, FS_EmptySet
<1>4. \A k \in Weighed : W[k] \in Int
  BY <1>1, KindsWeighed
<1>5. "recommendation" \in Weighed /\ S4 \subseteq Weighed /\ S3 \subseteq Weighed /\ S2 \subseteq Weighed /\ S1 \subseteq Weighed
  BY KindsWeighed
<1> HIDE DEF W
<1>6. Total(W, Weighed) = W["recommendation"] + Total(W, S4)
  BY <1>2, <1>3, <1>4, <1>5, TotalStep
<1>7. Total(W, S4) = W["audit"] + Total(W, S3)
  <2>1. \A k \in S4 : W[k] \in Int
    BY <1>4, <1>5
  <2> QED BY <1>2, <1>3, <2>1, TotalStep
<1>8. Total(W, S3) = W["metric"] + Total(W, S2)
  <2>1. \A k \in S3 : W[k] \in Int
    BY <1>4, <1>5
  <2> QED BY <1>2, <1>3, <2>1, TotalStep
<1>9. Total(W, S2) = W["inventory"] + Total(W, S1)
  <2>1. \A k \in S2 : W[k] \in Int
    BY <1>4, <1>5
  <2> QED BY <1>2, <1>3, <2>1, TotalStep
<1>10. Total(W, S1) = W["usage"] + Total(W, S0)
  <2>1. \A k \in S1 : W[k] \in Int
    BY <1>4, <1>5
  <2> QED BY <1>2, <1>3, <2>1, TotalStep
<1>11. Total(W, S0) = 0
  BY <1>3, TotalMade
<1> HIDE DEF S4, S3, S2, S1, S0
<1>12. Total(W, Weighed) = 470
  BY <1>1, <1>6, <1>7, <1>8, <1>9, <1>10, <1>11
<1> QED BY <1>12 DEF W

\* What the kinds of evidence there are earn, and what more of a kind earns.
Earned(evidence) == MapThenSumSet(LAMBDA k : Points(evidence[k] > 0, EvidenceWeight[k]), DOMAIN EvidenceWeight)
Corroboration(evidence) == MapThenSumSet(LAMBDA k : 25 * Larger(evidence[k] - 1, 0), DOMAIN EvidenceWeight)

LEMMA EarnedBounded ==
  ASSUME NEW e, IsEvidence(e)
  PROVE  Earned(e) \in Int /\ Earned(e) <= 470
<1> DEFINE S == Weighed
           f == [k \in S |-> Points(e[k] > 0, EvidenceWeight[k])]
           iter == CHOOSE g : g = [s \in SUBSET S |-> IF s = {} THEN 0 ELSE Points(e[Some(s)] > 0, EvidenceWeight[Some(s)])
                                                                           + g[s \ {Some(s)}]]
<1>1. Earned(e) = iter[S]
  BY DEF Earned, MapThenSumSet, MapThenFoldSet, Some, Weighed
<1>2. IsFiniteSet(S)
  BY KindsWeighed
<1>3. \A s \in SUBSET S : s # {} => Some(s) \in S
  BY DEF Some
<1>4. ASSUME NEW g
      PROVE  Sums(g, f, S) <=> g = [s \in SUBSET S |-> IF s = {} THEN 0 ELSE Points(e[Some(s)] > 0, EvidenceWeight[Some(s)])
                                                                            + g[s \ {Some(s)}]]
  <2>1. ASSUME NEW s \in SUBSET S
        PROVE  Summed(f, g, s) = IF s = {} THEN 0 ELSE Points(e[Some(s)] > 0, EvidenceWeight[Some(s)]) + g[s \ {Some(s)}]
    BY <1>3 DEF Summed
  <2> HIDE DEF f
  <2> QED BY <2>1 DEF Sums
<1>5. \E g : g = [s \in SUBSET S |-> IF s = {} THEN 0 ELSE Points(e[Some(s)] > 0, EvidenceWeight[Some(s)])
                                                           + g[s \ {Some(s)}]]
  <2>1. PICK g : Sums(g, f, S)
    BY <1>2, SumsExist
  <2> QED BY <1>4, <2>1
<1>6. iter = [s \in SUBSET S |-> IF s = {} THEN 0 ELSE Points(e[Some(s)] > 0, EvidenceWeight[Some(s)])
                                                       + iter[s \ {Some(s)}]]
  BY <1>5
<1> HIDE DEF iter
<1>7. Sums(iter, f, S)
  BY <1>4, <1>6
<1>8. S \in SUBSET S
  OBVIOUS
<1> HIDE DEF f
<1>9. Earned(e) = Total(f, S)
  BY <1>1, <1>2, <1>7, <1>8, TotalIs
<1>10. \A k \in S : f[k] \in Int /\ EvidenceWeight[k] \in Int /\ f[k] <= EvidenceWeight[k]
  <2>1. \A k \in S : EvidenceWeight[k] \in Nat
    BY KindsWeighed DEF EvidenceWeight
  <2> QED BY <2>1 DEF f, Points
<1>11. Total(f, S) \in Int
  BY <1>2, <1>10, TotalWhole
<1>12. Total(f, S) <= Total(EvidenceWeight, S)
  BY <1>2, <1>10, TotalGrows
<1> QED BY <1>9, <1>11, <1>12, WeightsAddUp

LEMMA CorroborationIsWhole ==
  ASSUME NEW e, IsEvidence(e)
  PROVE  Corroboration(e) \in Int
<1> DEFINE S == Weighed
           f == [k \in S |-> 25 * Larger(e[k] - 1, 0)]
           iter == CHOOSE g : g = [s \in SUBSET S |-> IF s = {} THEN 0 ELSE 25 * Larger(e[Some(s)] - 1, 0) + g[s \ {Some(s)}]]
<1>1. Corroboration(e) = iter[S]
  BY DEF Corroboration, MapThenSumSet, MapThenFoldSet, Some, Weighed
<1>2. IsFiniteSet(S)
  BY KindsWeighed
<1>3. \A s \in SUBSET S : s # {} => Some(s) \in S
  BY DEF Some
<1>4. ASSUME NEW g
      PROVE  Sums(g, f, S) <=> g = [s \in SUBSET S |-> IF s = {} THEN 0 ELSE 25 * Larger(e[Some(s)] - 1, 0) + g[s \ {Some(s)}]]
  <2>1. ASSUME NEW s \in SUBSET S
        PROVE  Summed(f, g, s) = IF s = {} THEN 0 ELSE 25 * Larger(e[Some(s)] - 1, 0) + g[s \ {Some(s)}]
    BY <1>3 DEF Summed
  <2> HIDE DEF f
  <2> QED BY <2>1 DEF Sums
<1>5. \E g : g = [s \in SUBSET S |-> IF s = {} THEN 0 ELSE 25 * Larger(e[Some(s)] - 1, 0) + g[s \ {Some(s)}]]
  <2>1. PICK g : Sums(g, f, S)
    BY <1>2, SumsExist
  <2> QED BY <1>4, <2>1
<1>6. iter = [s \in SUBSET S |-> IF s = {} THEN 0 ELSE 25 * Larger(e[Some(s)] - 1, 0) + iter[s \ {Some(s)}]]
  BY <1>5
<1> HIDE DEF iter
<1>7. Sums(iter, f, S)
  BY <1>4, <1>6
<1>8. S \in SUBSET S
  OBVIOUS
<1> HIDE DEF f
<1>9. Corroboration(e) = Total(f, S)
  BY <1>1, <1>2, <1>7, <1>8, TotalIs
<1>10. \A k \in S : f[k] \in Int
  <2>1. \A k \in S : e[k] \in Int
    BY KindsWeighed DEF IsEvidence
  <2> QED BY <2>1 DEF f, Larger
<1>11. Total(f, S) \in Int
  BY <1>2, <1>10, TotalWhole
<1> QED BY <1>9, <1>11

\* The score: a whole number, and at most 865 unless the baseline is a credit.
LEMMA ScoreBounded ==
  ASSUME NEW spec, NEW e, IsEvidence(e), NEW c, c.percent \in Int \cup {None},
         IsUnitCost(c.unitBefore), IsUnitCost(c.unitNow)
  PROVE  /\ DerivedScore(spec, e, c) \in Int
         /\ ~(c.unitBefore # None /\ c.unitBefore[1] < 0) => DerivedScore(spec, e, c) <= 865
<1> DEFINE credit == c.unitBefore # None /\ c.unitBefore[1] < 0
           more == Smaller(Corroboration(e), 75)
           apart == RoundDiv(Separation(c), 10)
           rate == RoundDiv(60 * RateCoherence(spec, c), 1000)
           late == Points(e.freshness > 0, 100)
           doubt == Points(e.untrusted, 50)
<1>1. DerivedScore(spec, e, c) = 160 + Earned(e) + more + apart + rate - late - doubt
  BY DEF DerivedScore, Earned, Corroboration
<1>2. Earned(e) \in Int /\ Earned(e) <= 470
  BY EarnedBounded
<1>3. more \in Int /\ more <= 75
  <2>1. Corroboration(e) \in Int
    BY CorroborationIsWhole
  <2> HIDE DEF more
  <2> QED BY <2>1 DEF more, Smaller
<1>4. apart \in Int /\ apart <= 100
  <2>1. Separation(c) \in 0..1000
    BY SeparationBounded
  <2> QED BY <2>1 DEF RoundDiv
<1>5. rate \in Int /\ (~credit => rate <= 60)
  <2>1. RateCoherence(spec, c) \in Int /\ (~credit => RateCoherence(spec, c) \in 0..1000)
    BY RateIsWhole
  <2> HIDE DEF credit
  <2> QED BY <2>1 DEF RoundDiv
<1>6. late \in Nat /\ doubt \in Nat
  BY DEF Points
<1> HIDE DEF more, apart, rate, late, doubt, credit
<1>7. DerivedScore(spec, e, c) \in Int /\ (~credit => DerivedScore(spec, e, c) <= 865)
  BY <1>1, <1>2, <1>3, <1>4, <1>5, <1>6
<1> QED BY <1>7 DEF credit

\* Whatever is known of a candidate whose baseline is no credit, and however its playbook is
\* written, the score stays below the 0.865 the axes sum to.
THEOREM ScoresStayBelowCeiling == Spec => []ScoreStaysBelowCeiling
<1>1. DataIInv => ScoreStaysBelowCeiling
  <2> SUFFICES ASSUME DataIInv, investigator = "rules", NEW i \in 1..Len(Candidates),
                      ~(Candidates[i].unitBefore # None /\ Candidates[i].unitBefore[1] < 0)
               PROVE  DerivedScore(Chosen(Candidates[i]),
                                   GatherEvidence(Candidates[i], Chosen(Candidates[i]), input.bundle, input.current),
                                   Candidates[i]) <= 865
    BY DEF ScoreStaysBelowCeiling
  <2>1. Investigated /\ input.bundle # None
    BY NoneAssumption DEF DataIInv, FoundAre
  <2>2. IsBundle(input.bundle)
    BY <2>1 DEF DataIInv, IsInput
  <2>3. IsCandidate(Candidates[i], ResourcesOf(input.records))
    BY <2>1 DEF DataIInv, ComparedAre, Ready, Investigated, CandidatesOK
  <2>4. /\ Candidates[i].percent \in Int \cup {None}
        /\ IsUnitCost(Candidates[i].unitBefore) /\ IsUnitCost(Candidates[i].unitNow)
    BY <2>3 DEF IsCandidate
  <2>5. IsEvidence(GatherEvidence(Candidates[i], Chosen(Candidates[i]), input.bundle, input.current))
    BY <2>2, EvidenceCounted
  <2> QED BY <2>4, <2>5, ScoreBounded
<1> QED BY <1>1, DataInvariance, PTL

-----------------------------------------------------------------------------
(* What the rules find is a finding as the contract has it. *)

LEMMA IsThousandths ==
  ASSUME NEW x
  PROVE  x \in Thousandths <=> x \in Int /\ 0 <= x /\ x <= 1000
BY DEF Thousandths

LEMMA PlaybookChosen ==
  ASSUME NEW specs, AreSpecs(specs), NEW c, NEW bundle, NEW current
  PROVE  SelectPlaybook(c, specs, bundle, current).ceiling \in Thousandths
<1> DEFINE points(i) == MatchPoints(specs[i], c, bundle, current)
           fits == {i \in 1..Len(specs) : Applies(specs[i], c, bundle, current)}
           beats(i, j) == \/ points(i) > points(j)
                          \/ points(i) = points(j) /\ specs[i].priority < specs[j].priority
           best == {i \in fits : \A j \in fits : ~beats(j, i)}
<1>1. SelectPlaybook(c, specs, bundle, current)
        = IF fits = {} THEN FallbackPlaybook ELSE specs[CHOOSE i \in best : \A j \in best : i <= j]
  BY DEF SelectPlaybook
<1>2. \A i \in 1..Len(specs) : specs[i].priority \in Nat /\ specs[i].ceiling \in Thousandths /\ i \in Nat
  BY DEF AreSpecs, IsList
<1>3. ASSUME NEW i \in 1..Len(specs) PROVE points(i) \in Nat /\ points(i) <= 17
  BY DEF MatchPoints, Points
<1> HIDE DEF points
<1>4. fits \in SUBSET (1..Len(specs))
  OBVIOUS
<1> HIDE DEF fits
<1>5. ASSUME fits # {} PROVE \E i \in best : \A j \in best : i <= j
  <2> DEFINE left == {17 - points(i) : i \in fits}
  <2>0. \A i \in fits : 17 - points(i) \in Nat
    BY <1>3, <1>4
  <2>1. left \in SUBSET Nat /\ left # {}
    BY <1>5, <2>0
  <2> HIDE DEF left
  <2>2. PICK d \in left : \A x \in left : d <= x
    BY <2>1, LeastNatural
  <2>3. PICK top \in fits : d = 17 - points(top)
    BY DEF left
  <2>4. \A i \in fits : points(i) <= points(top)
    <3> TAKE i \in fits
    <3>1. 17 - points(i) \in left
      BY DEF left
    <3>2. d <= 17 - points(i)
      BY <2>2, <3>1
    <3> QED BY <1>3, <1>4, <2>3, <3>2
  <2> DEFINE tops == {i \in fits : points(i) = points(top)}
             ranks == {specs[i].priority : i \in tops}
  <2>5. ranks \in SUBSET Nat /\ ranks # {}
    BY <1>2, <1>4
  <2> HIDE DEF ranks
  <2>6. PICK r \in ranks : \A x \in ranks : r <= x
    BY <2>5, LeastNatural
  <2>7. PICK first \in tops : r = specs[first].priority
    BY DEF ranks
  <2>8. first \in best
    <3> SUFFICES ASSUME NEW j \in fits PROVE ~beats(j, first)
      OBVIOUS
    <3>1. points(j) <= points(first) /\ points(first) = points(top)
      BY <2>4
    <3>2. points(j) = points(first) => specs[j].priority \in ranks
      BY <3>1 DEF ranks
    <3>3. points(j) = points(first) => r <= specs[j].priority
      BY <2>6, <3>2
    <3>4. points(j) \in Nat /\ points(first) \in Nat /\ specs[j].priority \in Nat /\ r \in Nat
      BY <1>2, <1>3, <1>4, <2>5
    <3> QED BY <2>7, <3>1, <3>3, <3>4
  <2>9. best \in SUBSET Nat
    BY <1>2, <1>4
  <2> HIDE DEF best
  <2> QED BY <2>8, <2>9, LeastNatural
<1>6. fits # {} => \E i \in 1..Len(specs) : SelectPlaybook(c, specs, bundle, current) = specs[i]
  <2>1. best \in SUBSET (1..Len(specs))
    BY <1>4
  <2> HIDE DEF best
  <2> QED BY <1>1, <1>5, <2>1
<1>7. FallbackPlaybook.ceiling = 400 /\ 400 \in Thousandths
  BY DEF Thousandths, FallbackPlaybook, Playbook
<1>8. fits = {} => SelectPlaybook(c, specs, bundle, current) = FallbackPlaybook
  BY <1>1
<1>9. CASE fits # {}
  <2>1. PICK i \in 1..Len(specs) : SelectPlaybook(c, specs, bundle, current) = specs[i]
    BY <1>6, <1>9
  <2> QED BY <1>2, <2>1
<1>10. CASE fits = {}
  <2>1. SelectPlaybook(c, specs, bundle, current).ceiling = 400
    BY <1>7, <1>8, <1>10
  <2> QED BY <1>7, <2>1
<1> QED BY <1>9, <1>10

LEMMA RuleFinding ==
  ASSUME NEW spec, spec.ceiling \in Thousandths, NEW c, NEW resources, IsCandidate(c, resources),
         NEW bundle, IsBundle(bundle), NEW citation, NEW current, NEW cent \in Nat \ {0}
  PROVE  IsFinding(BuildFinding(c, spec, bundle, citation, current, cent))
<1> DEFINE e == GatherEvidence(c, spec, bundle, current)
           f == BuildFinding(c, spec, bundle, citation, current, cent)
           score == DerivedScore(spec, e, c)
           flat == ~IsQuantityDriven(c) /\ spec.category # "pricing_change"
<1>1. IsEvidence(e)
  BY EvidenceCounted
<1>2. c.percent \in Int \cup {None} /\ IsUnitCost(c.unitBefore) /\ IsUnitCost(c.unitNow) /\ c.change \in Int
  BY DEF IsCandidate
<1>3. score \in Int
  <2> HIDE DEF e
  <2> QED BY <1>1, <1>2, ScoreBounded
<1>4. RoundDiv(c.change, cent) \in Int
  BY <1>2, RoundedIsWhole
<1>5. /\ DOMAIN f = FindingFields /\ f.evidence = e /\ f.increase = cent * RoundDiv(c.change, cent)
      /\ f.confidence = Smaller(Smaller(ScoreConfidence(spec, e, c), RuleCap(citation)), IF flat THEN 700 ELSE 1000)
      /\ f.uncertain = (spec.fallback \/ RuleCap(citation) < 1000 \/ ~bundle.complete)
  BY DEF BuildFinding, FindingFields
<1> HIDE DEF e, f, score, flat
<1>6. f.increase \in Int
  BY <1>4, <1>5
<1>7. \A kind \in SourceKinds : f.evidence[kind] \in Nat
  BY <1>1, <1>5 DEF SourceKinds, IsEvidence
<1>8. f.uncertain \in BOOLEAN
  BY <1>5
<1>9. f.confidence \in Thousandths
  <2>1. ScoreConfidence(spec, e, c) \in Thousandths
    <3>1. spec.ceiling \in Int /\ 0 <= spec.ceiling /\ spec.ceiling <= 1000
      BY IsThousandths
    <3>2. ScoreConfidence(spec, e, c) = Larger(50, Smaller(score, spec.ceiling))
      BY DEF ScoreConfidence, score
    <3>3. Larger(50, Smaller(score, spec.ceiling)) \in Int
      BY <1>3, <3>1 DEF Larger, Smaller
    <3>4. 0 <= Larger(50, Smaller(score, spec.ceiling)) /\ Larger(50, Smaller(score, spec.ceiling)) <= 1000
      BY <1>3, <3>1 DEF Larger, Smaller
    <3> QED BY <3>2, <3>3, <3>4, IsThousandths
  <2>2. RuleCap(citation) \in Thousandths
    BY DEF RuleCap, Thousandths
  <2> QED BY <1>5, <2>1, <2>2 DEF Smaller, Thousandths
<1>10. IsFinding(f)
  BY <1>5, <1>6, <1>7, <1>8, <1>9 DEF IsFinding
<1> QED BY <1>10 DEF f

LEMMA FoundByRules ==
  ASSUME DataIInv, investigator = "rules"
  PROVE  /\ findings = Explained /\ Investigated /\ IsBundle(input.bundle) /\ IsList(findings)
         /\ \A i \in 1..Len(findings) : \E j \in 1..Len(Candidates) :
              LET c == Candidates[j]
                  spec == SelectPlaybook(c, input.specs, input.bundle, input.current)
              IN  findings[i] = BuildFinding(c, spec, input.bundle,
                                  Select(input.rules, c.service, spec.category, RuleDate(c, input.current),
                                         input.today, ReviewAge),
                                  input.current, input.config.cent)
<1> DEFINE bundles == [key \in {Candidates[i].key : i \in 1..Len(Candidates)} |-> input.bundle]
           spec(c, b) == SelectPlaybook(c, input.specs, b, input.current)
           finding(c, b) == BuildFinding(c, spec(c, b), b,
                              Select(input.rules, c.service, spec(c, b).category, RuleDate(c, input.current),
                                     input.today, ReviewAge),
                              input.current, input.config.cent)
<1>1. findings = Explained /\ Investigated /\ input.bundle # None
  BY NoneAssumption DEF DataIInv, FoundAre
<1>2. IsBundle(input.bundle)
  BY <1>1 DEF DataIInv, IsInput
<1>3. IsList(Candidates)
  BY <1>1 DEF DataIInv, ComparedAre, Ready, Investigated, CandidatesOK
<1>4. findings = RunPlaybooks(Candidates, {}, MaxFindings, input.specs, bundles, input.rules,
                              input.today, ReviewAge, input.current, input.config.cent)
  BY <1>1 DEF Explained
<1>5. \A j \in 1..Len(Candidates) : bundles[Candidates[j].key] = input.bundle
  OBVIOUS
<1> HIDE DEF bundles
<1>6. /\ IsList(findings)
      /\ \A i \in 1..Len(findings) : \E j \in 1..Len(Candidates) :
           findings[i] = finding(Candidates[j], bundles[Candidates[j].key])
  BY <1>3, <1>4, PlaybooksFind, LimitAssumption
<1> HIDE DEF finding
<1>7. \A i \in 1..Len(findings) : \E j \in 1..Len(Candidates) : findings[i] = finding(Candidates[j], input.bundle)
  BY <1>5, <1>6
<1> QED BY <1>1, <1>2, <1>6, <1>7 DEF finding

\* Whoever investigated, findings are what the contract asks for.
LEMMA FindingsOK ==
  ASSUME DataIInv
  PROVE  AreFindings(findings)
<1>1. CASE investigator = "rules"
  <2>1. IsBundle(input.bundle) /\ IsList(findings) /\ Investigated
    BY <1>1, FoundByRules
  <2>2. ASSUME NEW i \in 1..Len(findings) PROVE IsFinding(findings[i])
    <3>1. PICK j \in 1..Len(Candidates) :
            LET c == Candidates[j]
                spec == SelectPlaybook(c, input.specs, input.bundle, input.current)
            IN  findings[i] = BuildFinding(c, spec, input.bundle,
                                Select(input.rules, c.service, spec.category, RuleDate(c, input.current),
                                       input.today, ReviewAge),
                                input.current, input.config.cent)
      BY <1>1, <2>2, FoundByRules
    <3> DEFINE c == Candidates[j]
               spec == SelectPlaybook(c, input.specs, input.bundle, input.current)
               citation == Select(input.rules, c.service, spec.category, RuleDate(c, input.current),
                                  input.today, ReviewAge)
    <3>2. IsCandidate(c, ResourcesOf(input.records))
      BY <2>1 DEF DataIInv, ComparedAre, Ready, Investigated, CandidatesOK
    <3>3. spec.ceiling \in Thousandths
      BY PlaybookChosen DEF DataIInv, IsInput
    <3>4. input.config.cent \in Nat \ {0}
      BY DEF DataIInv, IsInput
    <3>5. findings[i] = BuildFinding(c, spec, input.bundle, citation, input.current, input.config.cent)
      BY <3>1
    <3> HIDE DEF c, spec, citation
    <3> QED BY <2>1, <3>2, <3>3, <3>4, <3>5, RuleFinding
  <2> QED BY <2>1, <2>2 DEF AreFindings
<1>2. CASE investigator # "rules"
  <2>1. findings = <<>> \/ AreFindings(findings)
    BY <1>2 DEF DataIInv, FoundAre
  <2>2. IsList(<<>>) /\ Len(<<>>) = 0
    BY DEF IsList
  <2> QED BY <2>1, <2>2 DEF AreFindings
<1> QED BY <1>1, <1>2

-----------------------------------------------------------------------------
(* What each check does to a finding. *)

\* A check takes claims back and adds none.
Tightens(g, f) ==
  /\ IsFinding(g)
  /\ g.candidate = f.candidate /\ g.evidence = f.evidence /\ g.rules = f.rules
  /\ g.resources \subseteq f.resources
  /\ g.confidence <= f.confidence
  /\ f.uncertain => g.uncertain

LEMMA Capped ==
  ASSUME NEW x, NEW cap, x \in Int /\ 0 <= x /\ x <= 1000, cap \in Thousandths
  PROVE  Smaller(x, cap) \in Thousandths /\ Smaller(x, cap) <= x /\ Smaller(x, cap) <= cap
BY DEF Smaller, Thousandths

LEMMA ConfidenceIsWhole ==
  ASSUME NEW f, IsFinding(f)
  PROVE  f.confidence \in Int /\ 0 <= f.confidence /\ f.confidence <= 1000
<1>1. f.confidence \in Thousandths
  BY DEF IsFinding
<1> QED BY <1>1, IsThousandths

Doubted(g, f, cap) ==
  /\ Tightens(g, f) /\ g.confidence <= cap
  /\ g.resources = f.resources /\ g.increase = f.increase /\ g.category = f.category

LEMMA DoubtTightens ==
  ASSUME NEW f, IsFinding(f), NEW cap \in Thousandths
  PROVE  Doubted(Doubt(f, cap), f, cap)
<1> DEFINE g == [f EXCEPT !.uncertain = TRUE, !.confidence = Smaller(@, cap)]
<1>1. Doubt(f, cap) = g
  BY DEF Doubt
<1>2. DOMAIN f = FindingFields /\ f.confidence \in Thousandths
  BY DEF IsFinding
<1>3. /\ DOMAIN g = FindingFields /\ g.uncertain = TRUE /\ g.confidence = Smaller(f.confidence, cap)
      /\ g.candidate = f.candidate /\ g.evidence = f.evidence /\ g.rules = f.rules
      /\ g.resources = f.resources /\ g.increase = f.increase /\ g.category = f.category
  BY <1>2 DEF FindingFields
<1> HIDE DEF g
<1>4. g.confidence \in Thousandths /\ g.confidence <= f.confidence /\ g.confidence <= cap
  <2>1. f.confidence \in Int /\ 0 <= f.confidence /\ f.confidence <= 1000
    BY ConfidenceIsWhole
  <2> DEFINE x == f.confidence
  <2>3. x \in Int /\ 0 <= x /\ x <= 1000
    BY <2>1
  <2> HIDE DEF x
  <2>2. Smaller(x, cap) \in Thousandths /\ Smaller(x, cap) <= x /\ Smaller(x, cap) <= cap
    BY <2>3, Capped
  <2> QED BY <1>3, <2>2 DEF x
<1>5. IsFinding(g)
  BY <1>3, <1>4 DEF IsFinding
<1>6. Doubted(g, f, cap)
  BY <1>3, <1>4, <1>5 DEF Tightens, Doubted
<1> QED BY <1>1, <1>6

\* A finding may stay as it is, and one check follows another.
LEMMA TightensItself ==
  ASSUME NEW f, IsFinding(f)
  PROVE  Tightens(f, f)
<1>1. f.confidence \in Int
  BY ConfidenceIsWhole
<1> QED BY <1>1 DEF Tightens

LEMMA TightensOn ==
  ASSUME NEW f, NEW g, NEW h, IsFinding(f), Tightens(g, f), Tightens(h, g)
  PROVE  Tightens(h, f)
<1>1. f.confidence \in Int /\ g.confidence \in Int /\ h.confidence \in Int
  BY ConfidenceIsWhole DEF Tightens
<1> QED BY <1>1 DEF Tightens

LEMMA ResourcesChecked ==
  ASSUME NEW f, IsFinding(f), NEW known
  PROVE  /\ Tightens(KeepKnownResources(f, known), f)
         /\ known # {} => KeepKnownResources(f, known).resources \subseteq known \cup ScopedIds
<1> DEFINE lost == Unsupported(f, known)
           h == [f EXCEPT !.resources = @ \ lost]
<1>1. DOMAIN f = FindingFields
  BY DEF IsFinding
<1>2. lost = {} \/ (known # {} /\ lost = f.resources \ (known \cup ScopedIds))
  BY DEF Unsupported
<1>3. known # {} => lost = f.resources \ (known \cup ScopedIds)
  BY DEF Unsupported
<1>4. KeepKnownResources(f, known) = IF lost = {} THEN f ELSE Doubt(h, 400)
  BY DEF KeepKnownResources
<1> HIDE DEF lost
<1>5. /\ DOMAIN h = FindingFields /\ h.resources = f.resources \ lost
      /\ h.candidate = f.candidate /\ h.evidence = f.evidence /\ h.rules = f.rules
      /\ h.confidence = f.confidence /\ h.increase = f.increase /\ h.uncertain = f.uncertain
  BY <1>1 DEF FindingFields
<1> HIDE DEF h
<1>6. IsFinding(h) /\ Tightens(h, f)
  <2>1. IsFinding(h)
    BY <1>5 DEF IsFinding
  <2>2. f.confidence \in Int
    BY ConfidenceIsWhole
  <2> QED BY <1>5, <2>1, <2>2 DEF Tightens
<1>7. Tightens(Doubt(h, 400), f) /\ Doubt(h, 400).resources = f.resources \ lost
  <2>0. Doubted(Doubt(h, 400), h, 400)
    <3>1. 400 \in Thousandths
      BY DEF Thousandths
    <3> QED BY <1>6, <3>1, DoubtTightens
  <2>1. Tightens(Doubt(h, 400), h) /\ Doubt(h, 400).resources = h.resources
    BY <2>0 DEF Doubted
  <2> QED BY <1>5, <1>6, <2>1, TightensOn
<1>8. CASE lost = {}
  BY <1>3, <1>4, <1>8, TightensItself
<1>9. CASE lost # {}
  BY <1>3, <1>4, <1>7, <1>9
<1> QED BY <1>8, <1>9

\* A measured cost, to the cent, is within two cents of itself.
LEMMA CentsAreNear ==
  ASSUME NEW m \in Int, NEW cent \in Nat \ {0}
  PROVE  /\ cent * RoundDiv(m, cent) \in Int
         /\ Magnitude(cent * RoundDiv(m, cent) - m) <= cent
<1> DEFINE q == m \div cent
           r == m % cent
<1>1. q \in Int /\ r \in 0..(cent - 1) /\ m = cent * q + r
  OBVIOUS
<1>2. RoundDiv(m, cent) = q \/ RoundDiv(m, cent) = q + 1
  BY DEF RoundDiv
<1> HIDE DEF q, r
<1>3. cent * q \in Int /\ cent * (q + 1) = cent * q + cent
  BY <1>1
<1>4. CASE RoundDiv(m, cent) = q
  <2> DEFINE x == cent * q
  <2>1. x \in Int /\ m = x + r
    BY <1>1, <1>3
  <2>2. cent * RoundDiv(m, cent) = x
    BY <1>4
  <2> HIDE DEF x
  <2> QED BY <1>1, <2>1, <2>2 DEF Magnitude
<1>5. CASE RoundDiv(m, cent) = q + 1
  <2> DEFINE x == cent * q
  <2>1. x \in Int /\ m = x + r
    BY <1>1, <1>3
  <2>2. cent * RoundDiv(m, cent) = x + cent
    BY <1>3, <1>5
  <2> HIDE DEF x
  <2> QED BY <1>1, <2>1, <2>2 DEF Magnitude
<1> QED BY <1>2, <1>4, <1>5

IsConfig(config) == config.cent \in Nat \ {0} /\ config.dollar \in Nat \ {0}

LEMMA NearIsNoDrift ==
  ASSUME NEW g, g.increase \in Int, NEW m \in Int, NEW config, IsConfig(config),
         Magnitude(g.increase - m) <= config.cent
  PROVE  ~Drifts(g, m, config)
<1>1. Magnitude(g.increase - m) \in Int
  BY DEF Magnitude
<1>2. ~(Magnitude(g.increase - m) > 2 * config.cent)
  BY <1>1 DEF IsConfig
<1> QED BY <1>2 DEF Drifts

LEMMA CostChecked ==
  ASSUME NEW f, IsFinding(f), NEW m \in Int, NEW config, IsConfig(config)
  PROVE  /\ Tightens(MeasuredCost(f, m, config), f)
         /\ ~Drifts(MeasuredCost(f, m, config), m, config)
         /\ MeasuredCost(f, m, config).resources = f.resources
<1> DEFINE cost == config.cent * RoundDiv(m, config.cent)
           g == [f EXCEPT !.increase = cost, !.uncertain = TRUE]
<1>1. MeasuredCost(f, m, config) = IF Drifts(f, m, config) THEN g ELSE f
  BY DEF MeasuredCost
<1>2. cost \in Int /\ Magnitude(cost - m) <= config.cent
  BY CentsAreNear DEF IsConfig
<1> HIDE DEF cost
<1>3. DOMAIN f = FindingFields
  BY DEF IsFinding
<1>4. /\ DOMAIN g = FindingFields /\ g.increase = cost /\ g.uncertain = TRUE
      /\ g.candidate = f.candidate /\ g.evidence = f.evidence /\ g.rules = f.rules
      /\ g.resources = f.resources /\ g.confidence = f.confidence
  BY <1>3 DEF FindingFields
<1> HIDE DEF g
<1>5. IsFinding(g) /\ Tightens(g, f)
  <2>1. IsFinding(g)
    BY <1>2, <1>4 DEF IsFinding
  <2>2. f.confidence \in Int
    BY ConfidenceIsWhole
  <2> QED BY <1>4, <2>1, <2>2 DEF Tightens
<1>6. ~Drifts(g, m, config)
  BY <1>2, <1>4, NearIsNoDrift
<1> QED BY <1>1, <1>4, <1>5, <1>6, TightensItself

LEMMA RulesChecked ==
  ASSUME NEW f, IsFinding(f)
  PROVE  /\ Tightens(CitedRules(f), f)
         /\ CitedRules(f).resources = f.resources /\ CitedRules(f).increase = f.increase
         /\ CitedRules(f).confidence >= 800 => \E rule \in f.rules : ~rule.stale
<1>1. CASE f.rules = {}
  <2>1. CitedRules(f) = Doubt(f, 450)
    BY <1>1 DEF CitedRules
  <2>0. Doubted(Doubt(f, 450), f, 450)
    <3>1. 450 \in Thousandths
      BY DEF Thousandths
    <3> QED BY <3>1, DoubtTightens
  <2>2. /\ Tightens(Doubt(f, 450), f) /\ Doubt(f, 450).confidence <= 450
        /\ Doubt(f, 450).resources = f.resources /\ Doubt(f, 450).increase = f.increase
    BY <2>0 DEF Doubted
  <2>3. Doubt(f, 450).confidence \in Int
    BY <2>2, ConfidenceIsWhole DEF Tightens
  <2> QED BY <2>1, <2>2, <2>3
<1>2. CASE f.rules # {} /\ \E rule \in f.rules : rule.stale \/ rule.from = None
  <2>1. CitedRules(f) = Doubt(f, 600)
    BY <1>2 DEF CitedRules
  <2>0. Doubted(Doubt(f, 600), f, 600)
    <3>1. 600 \in Thousandths
      BY DEF Thousandths
    <3> QED BY <3>1, DoubtTightens
  <2>2. /\ Tightens(Doubt(f, 600), f) /\ Doubt(f, 600).confidence <= 600
        /\ Doubt(f, 600).resources = f.resources /\ Doubt(f, 600).increase = f.increase
    BY <2>0 DEF Doubted
  <2>3. Doubt(f, 600).confidence \in Int
    BY <2>2, ConfidenceIsWhole DEF Tightens
  <2> QED BY <2>1, <2>2, <2>3
<1>3. CASE f.rules # {} /\ ~\E rule \in f.rules : rule.stale \/ rule.from = None
  <2>1. CitedRules(f) = f
    BY <1>3 DEF CitedRules
  <2> QED BY <1>3, <2>1, TightensItself
<1> QED BY <1>1, <1>2, <1>3

LEMMA CorroborationChecked ==
  ASSUME NEW f, IsFinding(f)
  PROVE  /\ Tightens(Corroborated(f), f)
         /\ Corroborated(f).resources = f.resources /\ Corroborated(f).increase = f.increase
         /\ Corroborated(f).confidence >= 800 => ~(Items(f) < 3) /\ HasKind(f, CorroboratingSources)
<1> DEFINE weak == f.confidence >= 800 /\ (Items(f) < 3 \/ ~HasKind(f, CorroboratingSources))
           g == [f EXCEPT !.confidence = 700]
<1>1. Corroborated(f) = IF weak THEN g ELSE f
  BY DEF Corroborated
<1>2. DOMAIN f = FindingFields /\ f.confidence \in Thousandths
  BY DEF IsFinding
<1>3. /\ DOMAIN g = FindingFields /\ g.confidence = 700 /\ 700 \in Thousandths /\ 700 <= 800
      /\ g.candidate = f.candidate /\ g.evidence = f.evidence /\ g.rules = f.rules
      /\ g.resources = f.resources /\ g.increase = f.increase /\ g.uncertain = f.uncertain
  BY <1>2 DEF FindingFields, Thousandths
<1> HIDE DEF g
<1>4. weak => Tightens(g, f)
  <2>1. IsFinding(g)
    BY <1>3 DEF IsFinding
  <2>2. f.confidence \in Int
    BY ConfidenceIsWhole
  <2>3. weak => g.confidence <= f.confidence
    BY <1>3, <2>2
  <2> HIDE DEF weak
  <2> QED BY <1>3, <2>1, <2>3 DEF Tightens
<1>5. ~weak /\ f.confidence >= 800 => ~(Items(f) < 3) /\ HasKind(f, CorroboratingSources)
  OBVIOUS
<1> HIDE DEF weak
<1> QED BY <1>1, <1>3, <1>4, <1>5, TightensItself

LEMMA CauseChecked ==
  ASSUME NEW f, IsFinding(f), NEW available
  PROVE  /\ Tightens(SupportedCause(f, available), f)
         /\ SupportedCause(f, available).resources = f.resources
         /\ SupportedCause(f, available).increase = f.increase
         /\ available # None /\ SupportedCause(f, available).category # "unexplained_increase" =>
              available \cap CauseSources # {}
<1> DEFINE none == available # None /\ available \cap CauseSources = {}
           h == [f EXCEPT !.category = "unexplained_increase"]
<1>1. SupportedCause(f, available) = IF none THEN Doubt(h, 400) ELSE f
  BY DEF SupportedCause
<1>2. DOMAIN f = FindingFields
  BY DEF IsFinding
<1>3. /\ DOMAIN h = FindingFields /\ h.category = "unexplained_increase"
      /\ h.candidate = f.candidate /\ h.evidence = f.evidence /\ h.rules = f.rules
      /\ h.resources = f.resources /\ h.increase = f.increase /\ h.uncertain = f.uncertain
      /\ h.confidence = f.confidence
  BY <1>2 DEF FindingFields
<1> HIDE DEF h
<1>4. IsFinding(h) /\ Tightens(h, f)
  <2>1. IsFinding(h)
    BY <1>3 DEF IsFinding
  <2>2. f.confidence \in Int
    BY ConfidenceIsWhole
  <2> QED BY <1>3, <2>1, <2>2 DEF Tightens
<1>5. /\ Tightens(Doubt(h, 400), f) /\ Doubt(h, 400).resources = f.resources
      /\ Doubt(h, 400).increase = f.increase /\ Doubt(h, 400).category = "unexplained_increase"
  <2>0. Doubted(Doubt(h, 400), h, 400)
    <3>1. 400 \in Thousandths
      BY DEF Thousandths
    <3> QED BY <1>4, <3>1, DoubtTightens
  <2>1. /\ Tightens(Doubt(h, 400), h) /\ Doubt(h, 400).resources = h.resources
        /\ Doubt(h, 400).increase = h.increase /\ Doubt(h, 400).category = h.category
    BY <2>0 DEF Doubted
  <2> QED BY <1>3, <1>4, <2>1, TightensOn
<1> QED BY <1>1, <1>5, TightensItself

\* A finding after all the checks claims no more than it did, and nothing a check refuses.
Passes(g, known, measured, available, config) ==
  /\ known # {} => g.resources \subseteq known \cup ScopedIds
  /\ measured # None => ~Drifts(g, measured, config)
  /\ g.confidence >= 800 => /\ ~(Items(g) < 3) /\ HasKind(g, CorroboratingSources)
                            /\ \E rule \in g.rules : ~rule.stale
  /\ available # None /\ g.category # "unexplained_increase" => available \cap CauseSources # {}

LEMMA AllChecked ==
  ASSUME NEW f, IsFinding(f), NEW known, NEW measured \in Int \cup {None}, NEW available,
         NEW config, IsConfig(config)
  PROVE  /\ Tightens(Checked(f, known, measured, available, config), f)
         /\ Passes(Checked(f, known, measured, available, config), known, measured, available, config)
<1> DEFINE kept == KeepKnownResources(f, known)
           costed == IF measured = None THEN kept ELSE MeasuredCost(kept, measured, config)
           cited == CitedRules(costed)
           sure == Corroborated(cited)
           g == SupportedCause(sure, available)
<1>1. Checked(f, known, measured, available, config) = g
  BY DEF Checked
<1>2. Tightens(kept, f) /\ (known # {} => kept.resources \subseteq known \cup ScopedIds)
  BY ResourcesChecked
<1> HIDE DEF kept
<1>3. /\ Tightens(costed, kept) /\ costed.resources = kept.resources
      /\ measured # None => ~Drifts(costed, measured, config)
  <2>1. IsFinding(kept)
    BY <1>2 DEF Tightens
  <2> QED BY <2>1, CostChecked, TightensItself
<1> HIDE DEF costed
<1>4. /\ Tightens(cited, costed) /\ cited.resources = costed.resources /\ cited.increase = costed.increase
      /\ cited.confidence >= 800 => \E rule \in costed.rules : ~rule.stale
  <2>1. IsFinding(costed)
    BY <1>3 DEF Tightens
  <2> QED BY <2>1, RulesChecked
<1> HIDE DEF cited
<1>5. /\ Tightens(sure, cited) /\ sure.resources = cited.resources /\ sure.increase = cited.increase
      /\ sure.confidence >= 800 => ~(Items(cited) < 3) /\ HasKind(cited, CorroboratingSources)
  <2>1. IsFinding(cited)
    BY <1>4 DEF Tightens
  <2> QED BY <2>1, CorroborationChecked
<1> HIDE DEF sure
<1>6. /\ Tightens(g, sure) /\ g.resources = sure.resources /\ g.increase = sure.increase
      /\ available # None /\ g.category # "unexplained_increase" => available \cap CauseSources # {}
  <2>1. IsFinding(sure)
    BY <1>5 DEF Tightens
  <2> QED BY <2>1, CauseChecked
<1> HIDE DEF g
<1>7. Tightens(g, f) /\ Tightens(g, cited) /\ Tightens(g, costed)
  <2>1. IsFinding(kept) /\ IsFinding(costed) /\ IsFinding(cited) /\ IsFinding(sure)
    BY <1>2, <1>3, <1>4, <1>5 DEF Tightens
  <2>2. Tightens(g, cited)
    BY <2>1, <1>5, <1>6, TightensOn
  <2>3. Tightens(g, costed)
    BY <2>1, <2>2, <1>4, TightensOn
  <2>4. Tightens(g, kept)
    BY <2>1, <2>3, <1>3, TightensOn
  <2> QED BY <2>2, <2>3, <2>4, <1>2, TightensOn
<1>8. Items(g) = Items(cited) /\ (HasKind(cited, CorroboratingSources) => HasKind(g, CorroboratingSources))
  BY <1>7 DEF Tightens, Items, HasKind
<1>9. measured # None => ~Drifts(g, measured, config)
  <2>1. g.increase = costed.increase
    BY <1>4, <1>5, <1>6
  <2> QED BY <2>1, <1>3 DEF Drifts
<1>10. g.confidence >= 800 => cited.confidence >= 800 /\ sure.confidence >= 800
  <2>1. g.confidence \in Int /\ sure.confidence \in Int /\ cited.confidence \in Int
    BY <1>5, <1>6, <1>4, ConfidenceIsWhole DEF Tightens
  <2>2. g.confidence <= sure.confidence /\ sure.confidence <= cited.confidence
    BY <1>5, <1>6 DEF Tightens
  <2> QED BY <2>1, <2>2
<1>11. known # {} => g.resources \subseteq known \cup ScopedIds
  BY <1>2, <1>3, <1>4, <1>5, <1>6
<1>12. g.rules = costed.rules
  BY <1>7 DEF Tightens
<1>13. g.confidence >= 800 => ~(Items(g) < 3) /\ HasKind(g, CorroboratingSources) /\ \E rule \in g.rules : ~rule.stale
  BY <1>4, <1>5, <1>8, <1>10, <1>12
<1>14. Passes(g, known, measured, available, config)
  BY <1>6, <1>9, <1>11, <1>13 DEF Passes
<1> QED BY <1>1, <1>7, <1>14

-----------------------------------------------------------------------------
(* Which findings are published, and in which order. *)

\* Every finding is either published, after its checks, or dropped.
Judges(v, list, known, measured, available, config) ==
  /\ IsList(v.findings) /\ IsList(v.dropped)
  /\ Len(v.findings) + Len(v.dropped) = Len(list)
  /\ \A m \in 1..Len(v.findings) : \E i \in 1..Len(list) :
       /\ ~Drops(list[i])
       /\ v.findings[m] = Checked(list[i], known, measured[list[i].candidate], available, config)

LEMMA FindingsJudged ==
  ASSUME NEW list, AreFindings(list), NEW known, NEW measured, NEW available, NEW config
  PROVE  Judges(ValidateFindings(list, known, measured, available, config),
                list, known, measured, available, config)
<1> DEFINE n == Len(list)
           after(f) == Checked(f, known, measured[f.candidate], available, config)
           checked == [i \in 1..n |-> after(list[i])]
           good == {i \in 1..n : ~Drops(list[i])}
           bad == {i \in 1..n : Drops(list[i])}
           v == ValidateFindings(list, known, measured, available, config)
<1>1. v.findings = ElementsAt(checked, good) /\ v.dropped = ElementsAt(checked, bad)
  BY DEF ValidateFindings
<1>2. n \in Nat
  BY DEF AreFindings, IsList
<1>3. good \in SUBSET (1..n) /\ bad \in SUBSET (1..n) /\ good \cap bad = {} /\ good \cup bad = 1..n
  OBVIOUS
<1>4. \A i \in good : ~Drops(list[i])
  OBVIOUS
<1>5. \A i \in 1..n : checked[i] = Checked(list[i], known, measured[list[i].candidate], available, config)
  OBVIOUS
<1> HIDE DEF n, checked, good, bad, v
<1>6. Keeps(v.findings, checked, good) /\ Keeps(v.dropped, checked, bad)
  BY <1>1, <1>2, <1>3, Filtered
<1>7. /\ IsList(v.findings) /\ Len(v.findings) = Cardinality(good)
      /\ IsList(v.dropped) /\ Len(v.dropped) = Cardinality(bad)
  BY <1>6, KeptIsList
<1>8. Cardinality(good) + Cardinality(bad) = n
  <2>1. IsFiniteSet(1..n) /\ Cardinality(1..n) = n
    BY <1>2, UpTo
  <2>2. IsFiniteSet(good) /\ IsFiniteSet(bad)
    BY <1>3, <2>1, FS_Subset
  <2>3. Cardinality(good \cup bad) = Cardinality(good) + Cardinality(bad) - Cardinality(good \cap bad)
    BY <2>2, FS_Union
  <2>4. Cardinality(good \cap bad) = 0
    BY <1>3, FS_EmptySet
  <2>5. Cardinality(good) \in Nat /\ Cardinality(bad) \in Nat
    BY <2>2, FS_CardinalityType
  <2>6. Cardinality(good \cup bad) = n
    BY <1>3, <2>1
  <2> QED BY <2>3, <2>4, <2>5, <2>6
<1>9. ASSUME NEW m \in 1..Len(v.findings)
      PROVE  \E i \in 1..n : /\ ~Drops(list[i])
                             /\ v.findings[m] = Checked(list[i], known, measured[list[i].candidate], available, config)
  <2>1. m \in DOMAIN v.findings
    BY <1>7 DEF IsList
  <2>2. PICK i \in good : v.findings[m] = checked[i]
    BY <1>6, <2>1, KeptPlace
  <2> QED BY <1>3, <1>4, <1>5, <2>2
<1>10. Judges(v, list, known, measured, available, config)
  BY <1>7, <1>8, <1>9 DEF Judges, n
<1> QED BY <1>10 DEF v

\* The place a finding takes in the ranking: certain, dear, sure.
Doubtful(f) == IF f.uncertain THEN 1 ELSE 0

LEMMA RankedBy ==
  ASSUME NEW a, IsFinding(a), NEW b, IsFinding(b)
  PROVE  RankBefore(a, b) <=>
           \/ Doubtful(a) < Doubtful(b)
           \/ /\ Doubtful(a) = Doubtful(b)
              /\ a.increase > b.increase \/ (a.increase = b.increase /\ a.confidence > b.confidence)
<1>1. a.uncertain \in BOOLEAN /\ b.uncertain \in BOOLEAN
  BY DEF IsFinding
<1>2. (Doubtful(a) < Doubtful(b)) <=> (~a.uncertain /\ b.uncertain)
  BY <1>1 DEF Doubtful
<1>3. (Doubtful(a) = Doubtful(b)) <=> (a.uncertain = b.uncertain)
  BY <1>1 DEF Doubtful
<1> QED BY <1>2, <1>3 DEF RankBefore

Ranking(list) ==
  {p \in (1..Len(list)) \X (1..Len(list)) :
     \/ RankBefore(list[p[1]], list[p[2]])
     \/ ~RankBefore(list[p[2]], list[p[1]]) /\ p[1] < p[2]}

LEMMA RankingOrders ==
  ASSUME NEW list, AreFindings(list)
  PROVE  Orders(Ranking(list), 1..Len(list))
<1> DEFINE n == Len(list)
           u(i) == Doubtful(list[i])
           c(i) == list[i].increase
           s(i) == list[i].confidence
           R(i, j) == u(i) < u(j) \/ (u(i) = u(j) /\ (c(i) > c(j) \/ (c(i) = c(j) /\ s(i) > s(j))))
<1>1. ASSUME NEW i \in 1..n PROVE i \in Int /\ u(i) \in Int /\ c(i) \in Int /\ s(i) \in Int
  <2>1. IsFinding(list[i])
    BY DEF AreFindings
  <2>2. c(i) \in Int
    BY <2>1 DEF IsFinding
  <2>3. s(i) \in Int
    BY <2>1, ConfidenceIsWhole
  <2>4. u(i) \in Int
    BY DEF Doubtful
  <2> QED BY <2>2, <2>3, <2>4
<1>2. ASSUME NEW i \in 1..n, NEW j \in 1..n
      PROVE  RankBefore(list[i], list[j]) <=> R(i, j)
  <2>1. IsFinding(list[i]) /\ IsFinding(list[j])
    BY DEF AreFindings
  <2> QED BY <2>1, RankedBy
<1>3. ASSUME NEW i \in 1..n, NEW j \in 1..n
      PROVE  <<i, j>> \in Ranking(list) <=> R(i, j) \/ (~R(j, i) /\ i < j)
  <2>1. <<i, j>> \in Ranking(list) <=>
          RankBefore(list[i], list[j]) \/ (~RankBefore(list[j], list[i]) /\ i < j)
    BY DEF Ranking
  <2> HIDE DEF R
  <2> QED BY <1>2, <2>1
<1> HIDE DEF u, c, s, n
<1>4. \A x, y \in 1..n : <<x, y>> \in Ranking(list) => <<y, x>> \notin Ranking(list)
  <2> TAKE x \in 1..n, y \in 1..n
  <2> QED BY <1>1, <1>3
<1>5. \A x, y \in 1..n : x # y => <<x, y>> \in Ranking(list) \/ <<y, x>> \in Ranking(list)
  <2> TAKE x \in 1..n, y \in 1..n
  <2> QED BY <1>1, <1>3
<1>6. \A x, y, z \in 1..n : <<x, y>> \in Ranking(list) /\ <<y, z>> \in Ranking(list) => <<x, z>> \in Ranking(list)
  <2> TAKE x \in 1..n, y \in 1..n, z \in 1..n
  <2>1. /\ <<x, y>> \in Ranking(list) <=> R(x, y) \/ (~R(y, x) /\ x < y)
        /\ <<y, z>> \in Ranking(list) <=> R(y, z) \/ (~R(z, y) /\ y < z)
        /\ <<x, z>> \in Ranking(list) <=> R(x, z) \/ (~R(z, x) /\ x < z)
    BY <1>3
  <2>2. /\ x \in Int /\ u(x) \in Int /\ c(x) \in Int /\ s(x) \in Int
        /\ y \in Int /\ u(y) \in Int /\ c(y) \in Int /\ s(y) \in Int
        /\ z \in Int /\ u(z) \in Int /\ c(z) \in Int /\ s(z) \in Int
    BY <1>1
  <2> QED BY <2>1, <2>2
<1> QED BY <1>4, <1>5, <1>6 DEF Orders, n

\* The ranking of a list of findings is the list in another order, no uncertain finding
\* before a certain one and no cheaper before a dearer of its kind.
LEMMA FindingsRanked ==
  ASSUME NEW list, AreFindings(list)
  PROVE  /\ Sorts(RankFindings(list), list, Ordering(1..Len(list), Ranking(list)), Ranking(list))
         /\ \A l, m \in 1..Len(list) : l < m =>
              \/ ~RankFindings(list)[l].uncertain
              \/ /\ RankFindings(list)[m].uncertain
                 /\ RankFindings(list)[m].increase <= RankFindings(list)[l].increase
<1> DEFINE n == Len(list)
           order == Ordering(1..Len(list), Ranking(list))
           sorted == RankFindings(list)
<1>1. sorted = Rearranged(list, order)
  BY DEF RankFindings, Rearranged, Ranking
<1>2. IsList(list)
  BY DEF AreFindings
<1>3. Sorts(Rearranged(list, order), list, order, Ranking(list))
  BY <1>2, RankingOrders, Sorted
<1> HIDE DEF order, sorted
<1>4. Sorts(sorted, list, order, Ranking(list))
  BY <1>1, <1>3
<1>5. ASSUME NEW l \in 1..n, NEW m \in 1..n, l < m
      PROVE  ~sorted[l].uncertain \/ (sorted[m].uncertain /\ sorted[m].increase <= sorted[l].increase)
  <2>1. /\ order[l] \in 1..n /\ order[m] \in 1..n /\ <<order[l], order[m]>> \in Ranking(list)
        /\ sorted[l] = list[order[l]] /\ sorted[m] = list[order[m]]
    BY <1>4, <1>5 DEF Sorts
  <2>2. ~RankBefore(sorted[m], sorted[l])
    <3>1. <<order[m], order[l]>> \notin Ranking(list)
      BY <2>1, RankingOrders DEF Orders
    <3>2. ~RankBefore(list[order[m]], list[order[l]])
      BY <2>1, <3>1 DEF Ranking
    <3> QED BY <2>1, <3>2
  <2>3. IsFinding(sorted[l]) /\ IsFinding(sorted[m])
    BY <2>1 DEF AreFindings
  <2>4. sorted[l].increase \in Int /\ sorted[m].increase \in Int
    BY <2>3 DEF IsFinding
  <2>5. sorted[l].uncertain \in BOOLEAN /\ sorted[m].uncertain \in BOOLEAN
    BY <2>3 DEF IsFinding
  <2>6. /\ ~(Doubtful(sorted[m]) < Doubtful(sorted[l]))
        /\ Doubtful(sorted[m]) = Doubtful(sorted[l]) => ~(sorted[m].increase > sorted[l].increase)
    BY <2>2, <2>3, RankedBy
  <2> QED BY <2>4, <2>5, <2>6 DEF Doubtful
<1> QED BY <1>4, <1>5 DEF order, sorted

-----------------------------------------------------------------------------
(* What is published passes every check. *)

LEMMA TotalNatural ==
  ASSUME NEW S, IsFiniteSet(S), NEW f, \A x \in S : f[x] \in Nat
  PROVE  Total(f, S) \in Nat
<1> DEFINE Q == {s \in SUBSET S : Total(f, s) \in Nat}
<1>1. \A s \in SUBSET S : Total(f, s) = IF s = {} THEN 0 ELSE f[Some(s)] + Total(f, s \ {Some(s)})
  BY FS_Subset, TotalMade
<1>2. {} \in Q
  <2>1. {} \in SUBSET S
    OBVIOUS
  <2>2. Total(f, {}) = 0
    BY <1>1, <2>1
  <2> QED BY <2>1, <2>2
<1>3. ASSUME NEW s \in SUBSET S, s # {}, \A x \in s : s \ {x} \in Q PROVE s \in Q
  <2>1. Some(s) \in s
    BY <1>3 DEF Some
  <2>2. f[Some(s)] \in Nat /\ Total(f, s \ {Some(s)}) \in Nat
    BY <1>3, <2>1
  <2> QED BY <1>1, <1>3, <2>2
<1>4. Q = SUBSET S
  <2> HIDE DEF Q
  <2>1. Q \in SUBSET (SUBSET S)
    BY DEF Q
  <2> QED BY <1>2, <1>3, <2>1, EverySubset
<1> QED BY <1>4

LEMMA SourcesFinite == IsFiniteSet(SourceKinds)
<1>1. IsFiniteSet(Weighed)
  BY KindsWeighed
<1>2. IsFiniteSet(Weighed \cup {"cost"})
  BY <1>1, FS_AddElement
<1>3. IsFiniteSet((Weighed \cup {"cost"}) \cup {"freshness"})
  BY <1>2, FS_AddElement
<1>4. SourceKinds = (Weighed \cup {"cost"}) \cup {"freshness"}
  BY KindsWeighed DEF SourceKinds
<1> QED BY <1>3, <1>4

LEMMA ItemsCounted ==
  ASSUME NEW f, IsFinding(f)
  PROVE  /\ Items(f) = Total(f.evidence, SourceKinds) /\ Items(f) \in Nat
<1>1. Items(f) = Total(f.evidence, SourceKinds)
  BY DEF Items, Total
<1>2. \A kind \in SourceKinds : f.evidence[kind] \in Nat
  BY DEF IsFinding
<1>3. Total(f.evidence, SourceKinds) \in Nat
  <2> DEFINE e == f.evidence
  <2>1. \A kind \in SourceKinds : e[kind] \in Nat
    BY <1>2
  <2> HIDE DEF e
  <2>2. Total(e, SourceKinds) \in Nat
    BY <2>1, SourcesFinite, TotalNatural
  <2> QED BY <2>2 DEF e
<1> QED BY <1>1, <1>3

\* A change is measured in whole numbers.
LEMMA MeasuredIsWhole ==
  ASSUME DataIInv, Ready, NEW key
  PROVE  Measured(key) \in Int \cup {None}
<1> DEFINE at == {i \in 1..Len(Candidates) : Candidates[i].key = key}
<1>1. Measured(key) = IF at = {} THEN None ELSE Candidates[CHOOSE i \in at : TRUE].change
  BY DEF Measured
<1>2. \A i \in 1..Len(Candidates) : Candidates[i].change \in Int
  BY DEF DataIInv, ComparedAre, CandidatesOK, IsCandidate
<1>3. at # {} => (CHOOSE i \in at : TRUE) \in 1..Len(Candidates)
  OBVIOUS
<1> HIDE DEF at
<1> QED BY <1>1, <1>2, <1>3

LEMMA ConfigOK ==
  ASSUME DataIInv
  PROVE  IsConfig(input.config)
BY DEF DataIInv, IsInput, IsConfig

\* A finding that is published is one that was found and not dropped, after its checks.
After(f) == Checked(f, KnownResources, Measured(f.candidate), input.available, input.config)

LEMMA Published ==
  ASSUME DataIInv, report # None
  PROVE  /\ Ready /\ AreFindings(findings)
         /\ IsList(Judged.findings) /\ Len(Judged.findings) + Len(report.dropped) = Len(findings)
         /\ Len(report.dropped) \in Nat
         /\ \A m \in 1..Len(Judged.findings) : \E i \in 1..Len(findings) :
              ~Drops(findings[i]) /\ Judged.findings[m] = After(findings[i])
<1> DEFINE measured == [key \in {findings[i].candidate : i \in 1..Len(findings)} |-> Measured(key)]
<1>1. AreFindings(findings)
  BY FindingsOK
<1>2. Ready /\ report.dropped = Judged.dropped
  BY DEF DataIInv, ReportedAre, Ready
<1>3. \A i \in 1..Len(findings) : measured[findings[i].candidate] = Measured(findings[i].candidate)
  OBVIOUS
<1> DEFINE known == KnownResources
           available == input.available
           config == input.config
           v == ValidateFindings(findings, known, measured, available, config)
<1>4. Judged = v
  BY DEF Judged
<1> HIDE DEF measured, known, available, config
<1>5. Judges(v, findings, known, measured, available, config)
  BY <1>1, FindingsJudged
<1> HIDE DEF v
<1>6. \A m \in 1..Len(Judged.findings) : \E i \in 1..Len(findings) :
        ~Drops(findings[i]) /\ Judged.findings[m] = After(findings[i])
  BY <1>3, <1>4, <1>5 DEF After, Judges, known, available, config
<1>7. Len(Judged.dropped) \in Nat
  BY <1>4, <1>5 DEF IsList, Judges
<1> QED BY <1>1, <1>2, <1>4, <1>5, <1>6, <1>7 DEF Judges

LEMMA AfterPasses ==
  ASSUME DataIInv, Ready, NEW f, IsFinding(f)
  PROVE  /\ Tightens(After(f), f)
         /\ Passes(After(f), KnownResources, Measured(f.candidate), input.available, input.config)
<1>1. Measured(f.candidate) \in Int \cup {None}
  BY MeasuredIsWhole
<1>2. IsConfig(input.config)
  BY ConfigOK
<1> DEFINE m == Measured(f.candidate)
           known == KnownResources
           config == input.config
           available == input.available
           g == Checked(f, known, m, available, config)
<1>3. m \in Int \cup {None} /\ IsConfig(config)
  BY <1>1, <1>2
<1> HIDE DEF m, known, config, available
<1>4. Tightens(g, f) /\ Passes(g, known, m, available, config)
  BY <1>3, AllChecked
<1> QED BY <1>4 DEF After, m, known, config, available

LEMMA AfterSupported ==
  ASSUME DataIInv, Ready, NEW f, IsFinding(f), ~Drops(f)
  PROVE  Supported(After(f))
<1> DEFINE g == After(f)
<1>1. Tightens(g, f) /\ Passes(g, KnownResources, Measured(f.candidate), input.available, input.config)
  BY AfterPasses
<1> HIDE DEF g
<1>2. IsFinding(g) /\ g.candidate = f.candidate /\ g.evidence = f.evidence /\ g.rules = f.rules
  BY <1>1 DEF Tightens
<1>3. Items(g) = Items(f) /\ Items(g) \in Nat
  BY <1>2, ItemsCounted
<1>4. Items(f) # 0 /\ \A rule \in f.rules : ~Retroactive(rule)
  BY DEF Drops
<1>5. Items(g) > 0 /\ (~(Items(g) < 3) => Items(g) >= 3)
  BY <1>3, <1>4
<1>6. Measured(g.candidate) = Measured(f.candidate)
  BY <1>2
<1>7. Supported(g)
  BY <1>1, <1>2, <1>4, <1>5, <1>6 DEF Supported, Passes
<1> QED BY <1>7 DEF g

\* Whoever wrote the findings, and whatever an agent claims within the contract, what is
\* published passes all the checks, claims no more than was found, is in the order of the
\* ranking, and nothing is lost on the way.
THEOREM PublishedFindingsHaveSupport == Spec => []PublishedFindingsAreSupported
<1>1. DataIInv => PublishedFindingsAreSupported
  <2> SUFFICES ASSUME DataIInv, report # None PROVE PublishedFindingsAreSupported
    BY DEF PublishedFindingsAreSupported
  <2> DEFINE list == Judged.findings
             out == report.findings
             order == Ordering(1..Len(list), Ranking(list))
  <2>1. /\ Ready /\ AreFindings(findings) /\ IsList(list)
        /\ Len(list) + Len(report.dropped) = Len(findings)
        /\ \A m \in 1..Len(list) : \E i \in 1..Len(findings) : ~Drops(findings[i]) /\ list[m] = After(findings[i])
    BY Published
  <2>2. out = RankFindings(list)
    BY DEF DataIInv, ReportedAre
  <2> HIDE DEF list, out
  <2>3. ASSUME NEW m \in 1..Len(list)
        PROVE  /\ IsFinding(list[m]) /\ Supported(list[m])
               /\ \E i \in 1..Len(findings) : Tightens(list[m], findings[i])
    <3>1. PICK i \in 1..Len(findings) : ~Drops(findings[i]) /\ list[m] = After(findings[i])
      BY <2>1
    <3>2. IsFinding(findings[i])
      BY <2>1 DEF AreFindings
    <3>3. Tightens(list[m], findings[i])
      BY <2>1, <3>1, <3>2, AfterPasses
    <3>4. Supported(list[m])
      BY <2>1, <3>1, <3>2, AfterSupported
    <3> QED BY <3>3, <3>4 DEF Tightens
  <2>4. AreFindings(list)
    BY <2>1, <2>3 DEF AreFindings
  <2>5. /\ Sorts(out, list, order, Ranking(list))
        /\ \A l, m \in 1..Len(list) : l < m =>
             ~out[l].uncertain \/ (out[m].uncertain /\ out[m].increase <= out[l].increase)
    BY <2>2, <2>4, FindingsRanked
  <2> HIDE DEF order
  <2>6. /\ Len(out) = Len(list) /\ Len(list) \in Nat
        /\ \A m \in 1..Len(list) : order[m] \in 1..Len(list) /\ out[m] = list[order[m]]
    BY <2>1, <2>5 DEF Sorts, IsList
  <2>7. ASSUME NEW i \in 1..Len(out)
        PROVE  /\ Supported(out[i])
               /\ \E j \in 1..Len(findings) :
                    /\ findings[j].candidate = out[i].candidate
                    /\ out[i].confidence <= findings[j].confidence
                    /\ findings[j].uncertain => out[i].uncertain
               /\ \A j \in 1..(i - 1) :
                    ~out[j].uncertain \/ (out[i].uncertain /\ out[i].increase <= out[j].increase)
    <3>1. order[i] \in 1..Len(list) /\ out[i] = list[order[i]]
      BY <2>6
    <3>2. PICK j \in 1..Len(findings) : Tightens(out[i], findings[j])
      BY <2>3, <3>1
    <3>3. /\ findings[j].candidate = out[i].candidate /\ out[i].confidence <= findings[j].confidence
          /\ findings[j].uncertain => out[i].uncertain
      BY <3>2 DEF Tightens
    <3>4. Supported(out[i])
      BY <2>3, <3>1
    <3>5. ASSUME NEW l \in 1..(i - 1)
          PROVE  ~out[l].uncertain \/ (out[i].uncertain /\ out[i].increase <= out[l].increase)
      <4>1. l \in 1..Len(list) /\ i \in 1..Len(list) /\ l < i
        BY <2>6
      <4> QED BY <2>5, <4>1
    <3> QED BY <3>3, <3>4, <3>5
  <2>8. Len(out) + Len(report.dropped) = Len(findings)
    BY <2>1, <2>6
  <2> QED BY <2>7, <2>8 DEF PublishedFindingsAreSupported, out
<1> QED BY <1>1, DataInvariance, PTL

-----------------------------------------------------------------------------
(* What the rules write passes the checks as it is. *)

\* What a finding says of money, resources and grounds.
ClaimOf(f) == <<f.candidate, f.resources, f.increase, f.evidence, f.rules>>

\* A finding no check has an objection to keeps what it claims.
LEMMA CleanChecked ==
  ASSUME NEW f, NEW known, NEW measured, NEW available, NEW config,
         IsFinding(f), Unsupported(f, known) = {}, measured # None => ~Drifts(f, measured, config)
  PROVE  ClaimOf(Checked(f, known, measured, available, config)) = ClaimOf(f)
<1> DEFINE kept == KeepKnownResources(f, known)
           costed == IF measured = None THEN kept ELSE MeasuredCost(kept, measured, config)
           cited == CitedRules(costed)
           sure == Corroborated(cited)
           g == SupportedCause(sure, available)
<1>1. Checked(f, known, measured, available, config) = g
  BY DEF Checked
<1>2. kept = f
  BY DEF KeepKnownResources
<1> HIDE DEF kept
<1>3. costed = f
  BY <1>2 DEF MeasuredCost
<1> HIDE DEF costed
<1>4. Tightens(cited, f) /\ cited.resources = f.resources /\ cited.increase = f.increase
  BY <1>3, RulesChecked
<1> HIDE DEF cited
<1>5. Tightens(sure, cited) /\ sure.resources = cited.resources /\ sure.increase = cited.increase
  <2>1. IsFinding(cited)
    BY <1>4 DEF Tightens
  <2> QED BY <2>1, CorroborationChecked
<1> HIDE DEF sure
<1>6. Tightens(g, sure) /\ g.resources = sure.resources /\ g.increase = sure.increase
  <2>1. IsFinding(sure)
    BY <1>5 DEF Tightens
  <2> QED BY <2>1, CauseChecked
<1> HIDE DEF g
<1>7. /\ g.candidate = f.candidate /\ g.evidence = f.evidence /\ g.rules = f.rules
      /\ g.resources = f.resources /\ g.increase = f.increase
  BY <1>4, <1>5, <1>6 DEF Tightens
<1> QED BY <1>1, <1>7 DEF ClaimOf

\* There is a piece of evidence in each finding: the cost.
LEMMA CostIsEvidence ==
  ASSUME NEW f, IsFinding(f), f.evidence.cost = 1
  PROVE  Items(f) > 0
<1> DEFINE e == f.evidence
<1>1. \A kind \in SourceKinds : e[kind] \in Nat
  BY DEF IsFinding
<1>2. e["cost"] = 1
  OBVIOUS
<1>3. Items(f) = Total(e, SourceKinds)
  BY ItemsCounted
<1> HIDE DEF e
<1>4. "cost" \in SourceKinds
  BY DEF SourceKinds
<1>5. \A kind \in SourceKinds : e[kind] \in Int
  BY <1>1
<1>6. Total(e, SourceKinds) = e["cost"] + Total(e, SourceKinds \ {"cost"})
  BY <1>4, <1>5, SourcesFinite, TotalStep
<1>7. Total(e, SourceKinds \ {"cost"}) \in Nat
  <2>1. IsFiniteSet(SourceKinds \ {"cost"})
    BY SourcesFinite, FS_Subset
  <2>2. \A kind \in SourceKinds \ {"cost"} : e[kind] \in Nat
    BY <1>1
  <2> QED BY <2>1, <2>2, TotalNatural
<1> QED BY <1>2, <1>3, <1>6, <1>7

\* The measured change of a candidate is its own.
LEMMA OwnMeasure ==
  ASSUME DataIInv, Ready, NEW j \in 1..Len(Candidates)
  PROVE  Measured(Candidates[j].key) = Candidates[j].change
<1> DEFINE at == {i \in 1..Len(Candidates) : Candidates[i].key = Candidates[j].key}
<1>1. Measured(Candidates[j].key) = IF at = {} THEN None ELSE Candidates[CHOOSE i \in at : TRUE].change
  BY DEF Measured
<1>2. at = {j}
  BY DEF DataIInv, ComparedAre, CandidatesOK
<1>3. (CHOOSE i \in at : TRUE) = j
  BY <1>2
<1> HIDE DEF at
<1> QED BY <1>1, <1>2, <1>3

\* What the rules find names evidence, resources of the bill, rules in force and the
\* measured cost.
Clean(f) ==
  /\ IsFinding(f) /\ Items(f) > 0 /\ \A rule \in f.rules : ~Retroactive(rule)
  /\ Unsupported(f, KnownResources) = {}
  /\ Measured(f.candidate) # None => ~Drifts(f, Measured(f.candidate), input.config)

LEMMA RulesFindClean ==
  ASSUME DataIInv, investigator = "rules", NEW i \in 1..Len(findings)
  PROVE  Clean(findings[i])
<1>1. /\ Investigated /\ Ready /\ IsBundle(input.bundle)
  BY FoundByRules DEF Ready, Investigated
<1>2. PICK j \in 1..Len(Candidates) :
        LET c == Candidates[j]
            spec == SelectPlaybook(c, input.specs, input.bundle, input.current)
        IN  findings[i] = BuildFinding(c, spec, input.bundle,
                            Select(input.rules, c.service, spec.category, RuleDate(c, input.current),
                                   input.today, ReviewAge),
                            input.current, input.config.cent)
  BY FoundByRules
<1> DEFINE c == Candidates[j]
           spec == SelectPlaybook(c, input.specs, input.bundle, input.current)
           date == RuleDate(c, input.current)
           citation == Select(input.rules, c.service, spec.category, date, input.today, ReviewAge)
           e == GatherEvidence(c, spec, input.bundle, input.current)
           f == findings[i]
<1>3. IsFinding(f)
  BY FindingsOK DEF AreFindings
<1>4. /\ f.candidate = c.key /\ f.resources = {c.resource} \ {None} /\ f.evidence = e
      /\ f.rules = (IF citation.found THEN {citation} ELSE {})
      /\ f.increase = input.config.cent * RoundDiv(c.change, input.config.cent)
  BY <1>2 DEF BuildFinding
<1>5. IsEvidence(e)
  BY <1>1, EvidenceCounted
<1>6. IsCandidate(c, ResourcesOf(input.records)) /\ Measured(c.key) = c.change
  <2>1. Measured(c.key) = c.change
    BY <1>1, OwnMeasure
  <2>2. IsCandidate(c, ResourcesOf(input.records))
    BY <1>1 DEF DataIInv, ComparedAre, CandidatesOK
  <2> QED BY <2>1, <2>2
<1>7. date \in Int
  <2>1. input.current.end \in Int
    BY DEF DataIInv, IsInput, IsPeriod
  <2>2. c.spike \in Int \cup {None}
    BY <1>6 DEF IsCandidate
  <2> HIDE DEF c
  <2> QED BY <2>1, <2>2 DEF RuleDate
<1>8. citation.found => RuleInForce(citation, input.rules) /\ Dated(citation, date)
  <2>1. RulesDated(input.rules) /\ date # None
    BY <1>7, NoneAssumption DEF DataIInv, IsInput
  <2> HIDE DEF c, spec, date
  <2> QED BY <2>1, SelectedInForce
<1> HIDE DEF c, spec, date, citation, e, f
<1>9. \A rule \in f.rules : ~Retroactive(rule)
  <2> SUFFICES ASSUME citation.found PROVE ~Retroactive(citation)
    BY <1>4
  <2>1. /\ citation.date = date /\ citation.from = citation.rule.from /\ citation.from \in Int \cup {None}
        /\ citation.from # None => citation.rule.from <= citation.date
    BY <1>8 DEF Dated, RuleInForce, EffectiveOn
  <2> QED BY <1>7, <2>1 DEF Retroactive
<1>10. Items(f) > 0
  <2>1. f.evidence.cost = 1
    BY <1>4, <1>5 DEF IsEvidence
  <2> QED BY <1>3, <2>1, CostIsEvidence
<1>11. Unsupported(f, KnownResources) = {}
  <2>1. c.resource \in ResourcesOf(input.records) \cup {None}
    BY <1>6 DEF IsCandidate
  <2>2. f.resources \subseteq KnownResources
    BY <1>4, <2>1 DEF ResourcesOf, KnownResources
  <2> QED BY <2>2 DEF Unsupported
<1>12. ~Drifts(f, Measured(f.candidate), input.config)
  <2>1. c.change \in Int
    BY <1>6 DEF IsCandidate
  <2>2. IsConfig(input.config)
    BY ConfigOK
  <2> DEFINE m == c.change
             config == input.config
  <2>3. m \in Int /\ IsConfig(config) /\ f.increase = config.cent * RoundDiv(m, config.cent)
    BY <1>4, <2>1, <2>2
  <2>4. Measured(f.candidate) = m
    BY <1>4, <1>6
  <2> HIDE DEF m, config
  <2>5. f.increase \in Int /\ Magnitude(f.increase - m) <= config.cent
    BY <2>3, CentsAreNear DEF IsConfig
  <2>6. ~Drifts(f, m, config)
    BY <2>3, <2>5, NearIsNoDrift
  <2> QED BY <2>4, <2>6 DEF config
<1>13. Clean(f)
  BY <1>3, <1>9, <1>10, <1>11, <1>12 DEF Clean
<1> QED BY <1>13 DEF f

-----------------------------------------------------------------------------
(* The findings of the rules reach the report as they were found. *)

\* p is a permutation of the first n places.
Permutes(p, n) ==
  /\ p \in [1..n -> 1..n]
  /\ \A l, m \in 1..n : p[l] = p[m] => l = m
  /\ \A i \in 1..n : \E m \in 1..n : p[m] = i

\* A list in another order has the same claims as often.
Reorders(b, a, p, n) ==
  /\ Len(a) = n /\ Len(b) = n /\ Permutes(p, n)
  /\ \A m \in 1..n : ClaimOf(b[m]) = ClaimOf(a[p[m]])

LEMMA BagKept ==
  ASSUME NEW n \in Nat, NEW a, NEW b, NEW p, Reorders(b, a, p, n)
  PROVE  Bag(a, ClaimOf) = Bag(b, ClaimOf)
<1>0. /\ Len(a) = n /\ Len(b) = n /\ Permutes(p, n)
      /\ \A m \in 1..n : ClaimOf(b[m]) = ClaimOf(a[p[m]])
  BY DEF Reorders
<1> DEFINE A == {ClaimOf(a[i]) : i \in 1..n}
           B == {ClaimOf(b[i]) : i \in 1..n}
           at(v) == {i \in 1..n : ClaimOf(a[i]) = v}
           bt(v) == {i \in 1..n : ClaimOf(b[i]) = v}
<1>1. A = B
  BY <1>0 DEF Permutes
<1>2. ASSUME NEW v PROVE Cardinality(at(v)) = Cardinality(bt(v))
  <2> DEFINE S == bt(v)
             T == at(v)
             f == [m \in S |-> p[m]]
  <2>1. IsFiniteSet(S)
    <3>1. IsFiniteSet(1..n)
      BY UpTo
    <3> QED BY <3>1, FS_Subset
  <2>2. S \subseteq 1..n /\ T \subseteq 1..n /\ \A m \in 1..n : m \in S <=> p[m] \in T
    BY <1>0 DEF Permutes
  <2> HIDE DEF S, T
  <2>3. f \in [S -> T] /\ \A m \in S : f[m] = p[m]
    BY <2>2
  <2> HIDE DEF f
  <2>4. f \in Injection(S, T)
    BY <1>0, <2>2, <2>3 DEF Permutes, Injection, IsInjective
  <2>5. f \in Surjection(S, T)
    <3> SUFFICES ASSUME NEW t \in T PROVE \E s \in S : f[s] = t
      BY <2>3 DEF Surjection
    <3>1. PICK m \in 1..n : p[m] = t
      BY <1>0, <2>2 DEF Permutes
    <3> QED BY <2>2, <2>3, <3>1
  <2>6. ExistsBijection(S, T)
    BY <2>4, <2>5 DEF ExistsBijection, Bijection
  <2>7. Cardinality(T) = Cardinality(S)
    BY <2>1, <2>6, FS_Bijection
  <2> QED BY <2>7 DEF S, T
<1>3. Bag(a, ClaimOf) = [v \in A |-> Cardinality(at(v))]
  BY <1>0 DEF Bag
<1>4. Bag(b, ClaimOf) = [v \in B |-> Cardinality(bt(v))]
  BY <1>0 DEF Bag
<1> HIDE DEF A, B, at, bt
<1> QED BY <1>1, <1>2, <1>3, <1>4

LEMMA AllKept ==
  ASSUME NEW n \in Nat, NEW list, NEW s, Keeps(list, s, 1..n)
  PROVE  /\ Len(list) = n
         /\ \E p : Permutes(p, n) /\ \A m \in 1..n : list[m] = s[p[m]]
<1>1. Cardinality(1..n) = n
  BY UpTo
<1>2. Len(list) = n
  BY <1>1, KeptIsList
<1>3. PICK p \in [1..n -> 1..n] :
        /\ \A l, m \in 1..n : l < m => p[l] < p[m]
        /\ \A i \in 1..n : \E m \in 1..n : p[m] = i
        /\ \A m \in 1..n : list[m] = s[p[m]]
  BY <1>1 DEF Keeps
<1>4. ASSUME NEW l \in 1..n, NEW m \in 1..n, p[l] = p[m] PROVE l = m
  <2>1. p[l] \in 1..n /\ p[m] \in 1..n
    BY <1>3
  <2>2. (l < m => p[l] < p[m]) /\ (m < l => p[m] < p[l])
    BY <1>3
  <2> QED BY <1>4, <2>1, <2>2
<1> QED BY <1>2, <1>3, <1>4 DEF Permutes

\* Permutations compose.
Composes(q, p, order, n) ==
  /\ \A m \in 1..n : order[m] \in 1..n
  /\ \A l, m \in 1..n : order[l] = order[m] => l = m
  /\ \A i \in 1..n : \E m \in 1..n : order[m] = i
  /\ q = [m \in 1..n |-> p[order[m]]]

LEMMA PermutesTwice ==
  ASSUME NEW n \in Nat, NEW p, Permutes(p, n), NEW order, NEW q, Composes(q, p, order, n)
  PROVE  Permutes(q, n)
<1>1. q \in [1..n -> 1..n]
  BY DEF Permutes, Composes
<1>2. \A l, m \in 1..n : q[l] = q[m] => l = m
  BY DEF Permutes, Composes
<1>3. ASSUME NEW i \in 1..n PROVE \E m \in 1..n : q[m] = i
  <2>1. PICK j \in 1..n : p[j] = i
    BY DEF Permutes, Composes
  <2>2. PICK m \in 1..n : order[m] = j
    BY DEF Composes
  <2> QED BY <2>1, <2>2 DEF Composes
<1> QED BY <1>1, <1>2, <1>3 DEF Permutes

\* Where no finding is dropped all are published.
AllThrough(v, list, known, measured, available, config) ==
  /\ v.dropped = <<>> /\ Len(v.findings) = Len(list)
  /\ \E p : /\ Permutes(p, Len(list))
            /\ \A m \in 1..Len(list) :
                 v.findings[m] = Checked(list[p[m]], known, measured[list[p[m]].candidate], available, config)

LEMMA AllPublished ==
  ASSUME NEW list, AreFindings(list), \A i \in 1..Len(list) : ~Drops(list[i]),
         NEW known, NEW measured, NEW available, NEW config
  PROVE  AllThrough(ValidateFindings(list, known, measured, available, config),
                    list, known, measured, available, config)
<1> DEFINE n == Len(list)
           after(f) == Checked(f, known, measured[f.candidate], available, config)
           checked == [i \in 1..n |-> after(list[i])]
           good == {i \in 1..n : ~Drops(list[i])}
           bad == {i \in 1..n : Drops(list[i])}
           v == ValidateFindings(list, known, measured, available, config)
<1>1. v.findings = ElementsAt(checked, good) /\ v.dropped = ElementsAt(checked, bad)
  BY DEF ValidateFindings
<1>2. n \in Nat
  BY DEF AreFindings, IsList
<1>3. good = 1..n /\ bad = {}
  OBVIOUS
<1>4. \A i \in 1..n : checked[i] = Checked(list[i], known, measured[list[i].candidate], available, config)
  OBVIOUS
<1> HIDE DEF n, checked, good, bad, v
<1>5. Keeps(v.findings, checked, 1..n)
  BY <1>1, <1>2, <1>3, Filtered
<1>6. v.dropped = <<>>
  <2>1. Keeps(v.dropped, checked, {})
    BY <1>1, <1>2, <1>3, Filtered
  <2>2. IsList(v.dropped) /\ Len(v.dropped) = 0
    BY <2>1, KeptIsList, FS_EmptySet
  <2> QED BY <2>2 DEF IsList
<1>7. PICK p : Permutes(p, n) /\ \A m \in 1..n : v.findings[m] = checked[p[m]]
  BY <1>2, <1>5, AllKept
<1>8. \A m \in 1..n : v.findings[m] = Checked(list[p[m]], known, measured[list[p[m]].candidate], available, config)
  BY <1>4, <1>7 DEF Permutes
<1>9. Len(v.findings) = n
  BY <1>2, <1>5, AllKept
<1>10. AllThrough(v, list, known, measured, available, config)
  BY <1>6, <1>7, <1>8, <1>9 DEF AllThrough, n
<1> QED BY <1>10 DEF v

\* A clean finding is not dropped, is no error and keeps its claim.
LEMMA CleanStays ==
  ASSUME DataIInv, Ready, NEW f, Clean(f)
  PROVE  /\ ~Drops(f) /\ ClaimOf(After(f)) = ClaimOf(f)
         /\ Errors(f, KnownResources, Measured(f.candidate), input.config) = {}
<1> DEFINE m == Measured(f.candidate)
           known == KnownResources
           config == input.config
           available == input.available
<1>1. /\ IsFinding(f) /\ Items(f) > 0 /\ \A rule \in f.rules : ~Retroactive(rule)
      /\ Unsupported(f, known) = {} /\ (m # None => ~Drifts(f, m, config))
  BY DEF Clean
<1>2. After(f) = Checked(f, known, m, available, config)
  BY DEF After
<1> HIDE DEF m, known, config, available
<1>3. Items(f) # 0
  BY <1>1, ItemsCounted
<1>4. ~Drops(f)
  BY <1>1, <1>3 DEF Drops
<1>5. ClaimOf(After(f)) = ClaimOf(f)
  BY <1>1, <1>2, CleanChecked
<1>6. Errors(f, known, m, config) = {}
  BY <1>1, <1>3 DEF Errors
<1> QED BY <1>4, <1>5, <1>6 DEF m, known, config

\* The checks find nothing wrong with what the rules wrote: for any bill, playbooks, rules
\* and evidence each finding is published with the resources, the cost and the grounds it
\* was written with.
THEOREM RuleFindingsAreKept == Spec => []RuleFindingsSurviveValidation
<1>1. DataIInv => RuleFindingsSurviveValidation
  <2> SUFFICES ASSUME DataIInv, investigator = "rules", report # None
               PROVE  RuleFindingsSurviveValidation
    BY DEF RuleFindingsSurviveValidation
  <2> DEFINE n == Len(findings)
             list == Judged.findings
             out == report.findings
             order == Ordering(1..Len(list), Ranking(list))
             measured == [key \in {findings[i].candidate : i \in 1..n} |-> Measured(key)]
             known == KnownResources
             available == input.available
             config == input.config
  <2>1. /\ Ready /\ AreFindings(findings) /\ IsList(list)
        /\ \A m \in 1..Len(list) : \E i \in 1..n : ~Drops(findings[i]) /\ list[m] = After(findings[i])
    BY Published
  <2>2. n \in Nat
    BY <2>1 DEF AreFindings, IsList
  <2>3. ASSUME NEW i \in 1..n
        PROVE  /\ ~Drops(findings[i]) /\ IsFinding(findings[i])
               /\ ClaimOf(After(findings[i])) = ClaimOf(findings[i])
               /\ Errors(findings[i], KnownResources, Measured(findings[i].candidate), input.config) = {}
    <3>1. Clean(findings[i])
      BY RulesFindClean
    <3>2. IsFinding(findings[i])
      BY <3>1 DEF Clean
    <3> QED BY <2>1, <3>1, <3>2, CleanStays
  <2>4. out = RankFindings(list) /\ report.dropped = Judged.dropped
    BY DEF DataIInv, ReportedAre
  <2>5. Judged = ValidateFindings(findings, known, measured, available, config)
    BY DEF Judged
  <2>6. \A i \in 1..n : measured[findings[i].candidate] = Measured(findings[i].candidate)
    OBVIOUS
  <2>7. \A i \in 1..n : After(findings[i]) = Checked(findings[i], known, measured[findings[i].candidate], available, config)
    BY <2>6 DEF After
  <2> HIDE DEF measured, known, available, config
  <2>8. AllThrough(Judged, findings, known, measured, available, config)
    <3>1. \A i \in 1..Len(findings) : ~Drops(findings[i])
      BY <2>3
    <3>2. AllThrough(ValidateFindings(findings, known, measured, available, config),
                     findings, known, measured, available, config)
      BY <2>1, <3>1, AllPublished
    <3> QED BY <2>5, <3>2
  <2>9. PICK p : Permutes(p, n) /\ \A m \in 1..n : list[m] = After(findings[p[m]])
    <3>1. PICK p : /\ Permutes(p, n)
                   /\ \A m \in 1..n :
                        list[m] = Checked(findings[p[m]], known, measured[findings[p[m]].candidate], available, config)
      BY <2>8 DEF AllThrough
    <3> HIDE DEF n, list
    <3>2. \A m \in 1..n : p[m] \in 1..n
      BY <3>1 DEF Permutes
    <3>3. \A m \in 1..n : list[m] = After(findings[p[m]])
      BY <2>7, <3>1, <3>2
    <3> QED BY <3>1, <3>3
  <2>10. Judged.dropped = <<>> /\ Len(list) = n
    BY <2>8 DEF AllThrough
  <2> HIDE DEF list, out, n
  <2>11. AreFindings(list)
    <3>1. ASSUME NEW m \in 1..Len(list) PROVE IsFinding(list[m])
      <4>1. PICK i \in 1..n : list[m] = After(findings[i])
        BY <2>1
      <4>2. Tightens(list[m], findings[i])
        BY <2>1, <2>3, <4>1, AfterPasses
      <4> QED BY <4>2 DEF Tightens
    <3> QED BY <2>1, <3>1 DEF AreFindings
  <2>12. Sorts(out, list, order, Ranking(list))
    BY <2>4, <2>11, FindingsRanked
  <2> HIDE DEF order
  <2> DEFINE q == [m \in 1..n |-> p[order[m]]]
  <2>13. /\ Len(out) = n
         /\ \A m \in 1..n : order[m] \in 1..n /\ out[m] = list[order[m]]
         /\ \A l, m \in 1..n : order[l] = order[m] => l = m
         /\ \A i \in 1..n : \E m \in 1..n : order[m] = i
    BY <2>12, <2>10 DEF Sorts
  <2>14. Permutes(q, n) /\ \A m \in 1..n : q[m] = p[order[m]]
    <3>1. q = [m \in 1..n |-> p[order[m]]]
      OBVIOUS
    <3> HIDE DEF q
    <3>2. Composes(q, p, order, n)
      BY <2>13, <3>1 DEF Composes
    <3>3. Permutes(q, n)
      BY <2>2, <2>9, <3>2, PermutesTwice
    <3> QED BY <3>1, <3>3
  <2>15. ASSUME NEW m \in 1..n PROVE ClaimOf(out[m]) = ClaimOf(findings[q[m]])
    <3>1. out[m] = After(findings[p[order[m]]]) /\ p[order[m]] \in 1..n
      BY <2>9, <2>13 DEF Permutes
    <3> QED BY <2>3, <3>1
  <2> HIDE DEF q
  <2>16. Bag(findings, ClaimOf) = Bag(out, ClaimOf)
    <3>1. Len(findings) = n
      BY DEF n
    <3>2. Reorders(out, findings, q, n)
      BY <2>13, <2>14, <2>15, <3>1 DEF Reorders
    <3> QED BY <2>2, <3>2, BagKept
  <2>17. report.dropped = <<>>
    BY <2>4, <2>10
  <2>18. RuleFindingsSurviveValidation
    BY <2>3, <2>16, <2>17 DEF RuleFindingsSurviveValidation, Bag, ClaimOf, out, n
  <2> QED BY <2>18
<1> QED BY <1>1, DataInvariance, PTL

-----------------------------------------------------------------------------
(* Sums of lists, of unions and of differences. *)

LEMMA LastPlace ==
  ASSUME NEW n \in Nat, NEW T \in SUBSET (1..n), T # {}
  PROVE  Max(T) \in T
<1> DEFINE shifted == {n - x : x \in T}
<1>0. \A x \in T : n - x \in Nat
  OBVIOUS
<1>1. shifted \in SUBSET Nat /\ shifted # {}
  BY <1>0
<1> HIDE DEF shifted
<1>2. PICK d \in shifted : \A e \in shifted : d <= e
  BY <1>1, LeastNatural
<1>3. PICK x \in T : d = n - x
  BY DEF shifted
<1>4. \A y \in T : x >= y
  <2> TAKE y \in T
  <2>1. n - y \in shifted
    BY DEF shifted
  <2>2. d <= n - y
    BY <1>2, <2>1
  <2> QED BY <1>3, <2>2
<1> QED BY <1>4 DEF Max

\* The sum of a list is that of what stands at its places.
LEMMA SumOfList ==
  ASSUME NEW s, IsList(s), \A i \in 1..Len(s) : s[i] \in Int
  PROVE  SumSeq(s) = Total(s, 1..Len(s)) /\ SumSeq(s) \in Int
<1> DEFINE n == Len(s)
           S == 1..n
           Body(g, T) == IF T = {} THEN 0 ELSE Plus(g[T \ {Max(T)}], s[Max(T)])
           iter == CHOOSE g : g = [T \in SUBSET S |-> Body(g, T)]
<1>1. SumSeq(s) = iter[S]
  <2>1. DOMAIN s = S
    BY DEF IsList
  <2> QED BY <2>1 DEF SumSeq, FoldLeft, MapThenFoldSet
<1>2. n \in Nat /\ IsFiniteSet(S) /\ \A i \in S : s[i] \in Int
  BY UpTo DEF IsList
<1>3. \A T \in SUBSET S : T # {} => Max(T) \in T
  BY <1>2, LastPlace
<1>4. \A T \in SUBSET S : IsFiniteSet(T) /\ Total(s, T) \in Int
  BY <1>2, FS_Subset, TotalWhole
<1> HIDE DEF S, n
<1>5. \A T \in SUBSET S : T # {} => Total(s, T) = Total(s, T \ {Max(T)}) + s[Max(T)]
  <2> TAKE T \in SUBSET S
  <2> SUFFICES ASSUME T # {} PROVE Total(s, T) = Total(s, T \ {Max(T)}) + s[Max(T)]
    OBVIOUS
  <2> DEFINE m == Max(T)
  <2>1. m \in T /\ IsFiniteSet(T) /\ \A x \in T : s[x] \in Int
    BY <1>2, <1>3, <1>4
  <2> HIDE DEF m
  <2>2. Total(s, T) = s[m] + Total(s, T \ {m})
    BY <2>1, TotalStep
  <2>3. s[m] \in Int /\ Total(s, T \ {m}) \in Int
    BY <1>4, <2>1
  <2> QED BY <2>2, <2>3 DEF m
<1>6. Total(s, {}) = 0
  BY FS_EmptySet, TotalMade
<1>7. iter = [T \in SUBSET S |-> Body(iter, T)]
  <2> DEFINE g == [T \in SUBSET S |-> Total(s, T)]
  <2>1. \A T \in SUBSET S : g[T] = Body(g, T)
    <3> TAKE T \in SUBSET S
    <3>1. CASE T = {}
      BY <1>6, <3>1
    <3>2. CASE T # {}
      <4>1. T \ {Max(T)} \in SUBSET S
        OBVIOUS
      <4>2. g[T] = Total(s, T) /\ g[T \ {Max(T)}] = Total(s, T \ {Max(T)})
        BY <4>1
      <4> HIDE DEF g
      <4> QED BY <1>5, <3>2, <4>2 DEF Plus
    <3> QED BY <3>1, <3>2
  <2>2. g = [T \in SUBSET S |-> Body(g, T)]
    BY <2>1
  <2> HIDE DEF g, Body
  <2> QED BY <2>2
<1>8. \A T \in SUBSET S : iter[T] = Body(iter, T)
  <2> HIDE DEF iter, Body
  <2> QED BY <1>7
<1> HIDE DEF iter
<1> DEFINE Q == {T \in SUBSET S : iter[T] = Total(s, T)}
<1>9. {} \in Q
  BY <1>6, <1>8
<1>10. ASSUME NEW T \in SUBSET S, T # {}, \A x \in T : T \ {x} \in Q PROVE T \in Q
  <2>1. Max(T) \in T /\ T \ {Max(T)} \in Q
    BY <1>3, <1>10
  <2>2. iter[T \ {Max(T)}] = Total(s, T \ {Max(T)})
    BY <2>1
  <2>3. iter[T] = iter[T \ {Max(T)}] + s[Max(T)]
    BY <1>8, <1>10 DEF Plus
  <2> QED BY <1>5, <1>10, <2>2, <2>3
<1>11. Q = SUBSET S
  <2> HIDE DEF Q
  <2>1. Q \in SUBSET (SUBSET S)
    BY DEF Q
  <2> QED BY <1>2, <1>9, <1>10, <2>1, EverySubset
<1>12. S \in SUBSET S
  OBVIOUS
<1>13. iter[S] = Total(s, S)
  BY <1>11, <1>12
<1> QED BY <1>1, <1>4, <1>12, <1>13 DEF S, n

LEMMA TotalNone ==
  ASSUME NEW f
  PROVE  Total(f, {}) = 0
BY FS_EmptySet, TotalMade

LEMMA TotalUnion ==
  ASSUME NEW A, IsFiniteSet(A), NEW B, IsFiniteSet(B), A \cap B = {},
         NEW f, \A x \in A \cup B : f[x] \in Int
  PROVE  Total(f, A \cup B) = Total(f, A) + Total(f, B)
<1> DEFINE Q == {s \in SUBSET B : Total(f, A \cup s) = Total(f, A) + Total(f, s)}
<1>1. \A s \in SUBSET B : IsFiniteSet(s) /\ IsFiniteSet(A \cup s) /\ Total(f, s) \in Int
  <2> TAKE s \in SUBSET B
  <2>1. IsFiniteSet(s)
    BY FS_Subset
  <2>2. IsFiniteSet(A \cup s)
    BY <2>1, FS_Union
  <2>3. Total(f, s) \in Int
    BY <2>1, TotalWhole
  <2> QED BY <2>1, <2>2, <2>3
<1>2. Total(f, A) \in Int
  BY TotalWhole
<1>3. {} \in Q
  <2>1. A \cup {} = A /\ Total(f, {}) = 0
    BY TotalNone
  <2> QED BY <1>2, <2>1
<1>4. ASSUME NEW s \in SUBSET B, s # {}, \A x \in s : s \ {x} \in Q PROVE s \in Q
  <2>1. PICK x \in s : TRUE
    BY <1>4
  <2>2. Total(f, A \cup (s \ {x})) = Total(f, A) + Total(f, s \ {x})
    BY <1>4, <2>1
  <2> DEFINE all == A \cup s
             less == A \cup (s \ {x})
             rest == s \ {x}
  <2>3. /\ IsFiniteSet(all) /\ x \in all /\ all \ {x} = less /\ \A y \in all : f[y] \in Int
    BY <1>1, <2>1
  <2>4. rest \in SUBSET B /\ \A y \in s : f[y] \in Int
    OBVIOUS
  <2>5. Total(f, s) = f[x] + Total(f, rest)
    BY <1>1, <2>1, <2>4, TotalStep
  <2>6. Total(f, less) = Total(f, A) + Total(f, rest)
    BY <2>2
  <2> HIDE DEF all, less, rest
  <2>7. Total(f, all) = f[x] + Total(f, less)
    BY <2>3, TotalStep
  <2>8. Total(f, all) = Total(f, A) + Total(f, s)
    <3>1. Total(f, rest) \in Int /\ f[x] \in Int
      BY <1>1, <2>1, <2>4
    <3> QED BY <1>2, <2>5, <2>6, <2>7, <3>1
  <2> QED BY <2>8 DEF all
<1>5. Q = SUBSET B
  <2> HIDE DEF Q
  <2>1. Q \in SUBSET (SUBSET B)
    BY DEF Q
  <2> QED BY <1>3, <1>4, <2>1, EverySubset
<1> QED BY <1>5

LEMMA TotalMinus ==
  ASSUME NEW S, IsFiniteSet(S), NEW f, NEW e, NEW h,
         \A x \in S : f[x] \in Int /\ e[x] \in Int /\ h[x] = f[x] - e[x]
  PROVE  Total(h, S) = Total(f, S) - Total(e, S)
<1> DEFINE Q == {s \in SUBSET S : Total(h, s) = Total(f, s) - Total(e, s)}
<1>1. \A s \in SUBSET S : /\ Total(f, s) = IF s = {} THEN 0 ELSE f[Some(s)] + Total(f, s \ {Some(s)})
                          /\ Total(e, s) = IF s = {} THEN 0 ELSE e[Some(s)] + Total(e, s \ {Some(s)})
                          /\ Total(h, s) = IF s = {} THEN 0 ELSE h[Some(s)] + Total(h, s \ {Some(s)})
                          /\ Total(f, s) \in Int /\ Total(e, s) \in Int
  BY FS_Subset, TotalMade, TotalWhole
<1>2. {} \in Q
  <2>1. {} \in SUBSET S
    OBVIOUS
  <2>2. Total(f, {}) = 0 /\ Total(e, {}) = 0 /\ Total(h, {}) = 0
    BY <1>1, <2>1
  <2> QED BY <2>1, <2>2
<1>3. ASSUME NEW s \in SUBSET S, s # {}, \A y \in s : s \ {y} \in Q PROVE s \in Q
  <2>1. Some(s) \in s
    BY <1>3 DEF Some
  <2>2. /\ Total(h, s \ {Some(s)}) = Total(f, s \ {Some(s)}) - Total(e, s \ {Some(s)})
        /\ Total(f, s \ {Some(s)}) \in Int /\ Total(e, s \ {Some(s)}) \in Int
        /\ f[Some(s)] \in Int /\ e[Some(s)] \in Int /\ h[Some(s)] = f[Some(s)] - e[Some(s)]
    BY <1>1, <1>3, <2>1
  <2> QED BY <1>1, <1>3, <2>2
<1>4. Q = SUBSET S
  <2> HIDE DEF Q
  <2>1. Q \in SUBSET (SUBSET S)
    BY DEF Q
  <2> QED BY <1>2, <1>3, <2>1, EverySubset
<1> QED BY <1>4

\* The rows of a key and of some keys, and what the sums over the rows of each come to.
RowsWith(K, S, key) == {i \in S : K[i] = key}
Under(K, S, k, J) == {i \in S : \E j \in J : K[i] = k[j]}

LEMMA TotalParts ==
  ASSUME NEW S, IsFiniteSet(S), NEW f, \A x \in S : f[x] \in Int,
         NEW K, NEW J, IsFiniteSet(J), NEW k, \A i, j \in J : k[i] = k[j] => i = j,
         NEW t, \A j \in J : t[j] = Total(f, RowsWith(K, S, k[j]))
  PROVE  Total(t, J) = Total(f, Under(K, S, k, J))
<1> DEFINE Q == {s \in SUBSET J : Total(t, s) = Total(f, Under(K, S, k, s))}
<1>1. ASSUME NEW R \in SUBSET S PROVE IsFiniteSet(R) /\ \A x \in R : f[x] \in Int
  BY FS_Subset
<1>2. {} \in Q
  <2>1. Under(K, S, k, {}) = {}
    BY DEF Under
  <2> QED BY <2>1, TotalNone
<1>3. ASSUME NEW s \in SUBSET J, s # {}, \A y \in s : s \ {y} \in Q PROVE s \in Q
  <2>1. PICK x \in s : TRUE
    BY <1>3
  <2> DEFINE A == Under(K, S, k, s \ {x})
             B == RowsWith(K, S, k[x])
  <2>2. A \in SUBSET S /\ B \in SUBSET S /\ A \cap B = {} /\ A \cup B = Under(K, S, k, s)
    BY <2>1 DEF Under, RowsWith
  <2>3. Total(t, s \ {x}) = Total(f, A) /\ t[x] = Total(f, B)
    BY <1>3, <2>1
  <2> HIDE DEF A, B
  <2>4. /\ IsFiniteSet(A) /\ IsFiniteSet(B) /\ \A y \in A \cup B : f[y] \in Int
    BY <1>1, <2>2
  <2>5. Total(f, A \cup B) = Total(f, A) + Total(f, B)
    BY <2>2, <2>4, TotalUnion
  <2>6. \A j \in s : t[j] \in Int
    <3> TAKE j \in s
    <3> DEFINE C == RowsWith(K, S, k[j])
    <3>1. IsFiniteSet(C) /\ \A y \in C : f[y] \in Int
      BY <1>1 DEF RowsWith
    <3>2. t[j] = Total(f, C)
      OBVIOUS
    <3> HIDE DEF C
    <3> QED BY <3>1, <3>2, TotalWhole
  <2>7. Total(t, s) = t[x] + Total(t, s \ {x})
    <3>1. IsFiniteSet(s)
      BY FS_Subset
    <3> QED BY <2>1, <2>6, <3>1, TotalStep
  <2>8. Total(f, A) \in Int /\ Total(f, B) \in Int
    BY <2>4, TotalWhole
  <2>9. Total(t, s) = Total(f, Under(K, S, k, s))
    <3>1. Total(f, Under(K, S, k, s)) = Total(f, A \cup B)
      BY <2>2
    <3>2. Total(t, s) = Total(f, B) + Total(f, A)
      BY <2>3, <2>7
    <3> QED BY <2>5, <2>8, <3>1, <3>2
  <2> QED BY <2>9
<1>4. Q = SUBSET J
  <2> HIDE DEF Q
  <2>1. Q \in SUBSET (SUBSET J)
    BY DEF Q
  <2> QED BY <1>2, <1>3, <2>1, EverySubset
<1> QED BY <1>4

-----------------------------------------------------------------------------
(* The groups of a comparison share out its rows. *)

\* The key a row is grouped by, None for one that is left out, and its cost in the current
\* period and before.
KeyOfRow(record, by, current, baseline) ==
  IF InScope(record, current, baseline)
  THEN DimensionKey(record, IF by = "finest" THEN FinestDimension(record) ELSE by) ELSE None
KeysOf(records, by, current, baseline) ==
  [i \in 1..Len(records) |-> KeyOfRow(records[i], by, current, baseline)]
Spent(records, current) ==
  [i \in 1..Len(records) |-> IF PeriodContains(current, records[i].day) THEN records[i].cost ELSE 0]
Earlier(records, current) ==
  [i \in 1..Len(records) |->
     records[i].cost - (IF PeriodContains(current, records[i].day) THEN records[i].cost ELSE 0)]

\* Each group has the sums of the rows of its key, among the first n, and each row that is
\* not left out has a group.
HasItsSums(groups, K, spent, before, n) ==
  \A g \in 1..Len(groups) :
    /\ groups[g].key # None /\ \E i \in 1..n : K[i] = groups[g].key
    /\ groups[g].current = Total(spent, RowsWith(K, 1..n, groups[g].key))
    /\ groups[g].baseline = Total(before, RowsWith(K, 1..n, groups[g].key))
HasItsGroup(groups, K, n) == \A i \in 1..n : K[i] # None => \E g \in 1..Len(groups) : groups[g].key = K[i]
SharesOut(groups, K, spent, before, n) ==
  Len(groups) <= n /\ HasItsSums(groups, K, spent, before, n) /\ HasItsGroup(groups, K, n)

\* One more row changes the sum of its own key only.
LEMMA RowCounts ==
  ASSUME NEW n \in Nat, NEW K, NEW f, \A i \in 1..(n + 1) : f[i] \in Int, NEW key
  PROVE  Total(f, RowsWith(K, 1..(n + 1), key))
           = Total(f, RowsWith(K, 1..n, key)) + (IF K[n + 1] = key THEN f[n + 1] ELSE 0)
<1> DEFINE was == RowsWith(K, 1..n, key)
           is == RowsWith(K, 1..(n + 1), key)
<1>1. IsFiniteSet(was) /\ IsFiniteSet(is)
  <2>1. IsFiniteSet(1..n) /\ IsFiniteSet(1..(n + 1))
    BY UpTo
  <2> QED BY <2>1, FS_Subset DEF RowsWith
<1>2. \A i \in 1..(n + 1) : i \in 1..n \/ i = n + 1
  OBVIOUS
<1>3. CASE K[n + 1] = key
  <2>1. n + 1 \in is /\ is \ {n + 1} = was
    BY <1>2, <1>3 DEF RowsWith
  <2>2. \A i \in is : f[i] \in Int
    BY DEF RowsWith
  <2>3. \A i \in was : f[i] \in Int
    BY DEF RowsWith
  <2>4. f[n + 1] \in Int
    OBVIOUS
  <2> HIDE DEF was, is
  <2>5. Total(f, is) = f[n + 1] + Total(f, was)
    BY <1>1, <2>1, <2>2, TotalStep
  <2>6. Total(f, was) \in Int
    BY <1>1, <2>3, TotalWhole
  <2> QED BY <1>3, <2>4, <2>5, <2>6 DEF was, is
<1>4. CASE K[n + 1] # key
  <2>1. is = was
    BY <1>2, <1>4 DEF RowsWith
  <2>2. \A i \in was : f[i] \in Int
    BY DEF RowsWith
  <2> HIDE DEF was, is
  <2>3. Total(f, was) \in Int
    BY <1>1, <2>2, TotalWhole
  <2> QED BY <1>4, <2>1, <2>3 DEF was, is
<1> QED BY <1>3, <1>4

\* An added row goes to the group of its key, which is made for the first one.
LEMMA GroupedShares ==
  ASSUME NEW resources, NEW groups, GroupsOK(groups, resources),
         NEW r, IsRecord(r), r.resource \in resources \cup {None}, NEW by, NEW current, NEW baseline,
         NEW n \in Nat, NEW K, NEW spent, NEW before, \A i \in 1..(n + 1) : spent[i] \in Int /\ before[i] \in Int,
         SharesOut(groups, K, spent, before, n),
         K[n + 1] = KeyOfRow(r, by, current, baseline),
         spent[n + 1] = (IF PeriodContains(current, r.day) THEN r.cost ELSE 0),
         before[n + 1] = r.cost - (IF PeriodContains(current, r.day) THEN r.cost ELSE 0)
  PROVE  SharesOut(Grouped(groups, r, by, current, baseline), K, spent, before, n + 1)
<1> DEFINE dimension == IF by = "finest" THEN FinestDimension(r) ELSE by
           key == DimensionKey(r, dimension)
           at == {i \in 1..Len(groups) : groups[i].key = key}
           inCurrent == PeriodContains(current, r.day)
           fresh == NewAggregate(key, dimension)
           new == AddRecord(fresh, r, inCurrent)
           added == [i \in 1..Len(groups) |-> IF i \in at THEN AddRecord(groups[i], r, inCurrent) ELSE groups[i]]
           Now(m, k) == Total(spent, RowsWith(K, 1..m, k))
           Before(m, k) == Total(before, RowsWith(K, 1..m, k))
<1>1. Len(groups) \in Nat /\ IsList(groups) /\ inCurrent \in BOOLEAN
  BY DEF GroupsOK, IsList, PeriodContains
<1>2. ASSUME NEW k
      PROVE  /\ Now(n + 1, k) = Now(n, k) + (IF K[n + 1] = k THEN spent[n + 1] ELSE 0)
             /\ Before(n + 1, k) = Before(n, k) + (IF K[n + 1] = k THEN before[n + 1] ELSE 0)
  <2>1. (\A i \in 1..(n + 1) : spent[i] \in Int) /\ (\A i \in 1..(n + 1) : before[i] \in Int)
    OBVIOUS
  <2>2. Now(n + 1, k) = Now(n, k) + (IF K[n + 1] = k THEN spent[n + 1] ELSE 0)
    BY <2>1, RowCounts
  <2>3. Before(n + 1, k) = Before(n, k) + (IF K[n + 1] = k THEN before[n + 1] ELSE 0)
    BY <2>1, RowCounts
  <2> QED BY <2>2, <2>3
<1>3. /\ \A i \in 1..n : i \in 1..(n + 1)
      /\ \A i \in 1..(n + 1) : i \in 1..n \/ i = n + 1
      /\ n + 1 \in 1..(n + 1)
  OBVIOUS
<1>4. /\ Len(groups) <= n
      /\ \A g \in 1..Len(groups) :
           /\ groups[g].key # None /\ \E i \in 1..n : K[i] = groups[g].key
           /\ groups[g].current = Now(n, groups[g].key) /\ groups[g].baseline = Before(n, groups[g].key)
      /\ \A i \in 1..n : K[i] # None => \E g \in 1..Len(groups) : groups[g].key = K[i]
  BY DEF SharesOut, HasItsSums, HasItsGroup
<1>5. \A g \in 1..Len(groups) : groups[g].current \in Int /\ groups[g].baseline \in Int
  BY DEF GroupsOK, IsGroup
<1>6. spent[n + 1] \in Int /\ before[n + 1] \in Int
  BY <1>3
<1> DEFINE Held(s) == /\ \A g \in 1..Len(s) :
                          /\ s[g].key # None /\ \E i \in 1..(n + 1) : K[i] = s[g].key
                          /\ s[g].current = Now(n + 1, s[g].key) /\ s[g].baseline = Before(n + 1, s[g].key)
                     /\ \A i \in 1..(n + 1) : K[i] # None => \E g \in 1..Len(s) : s[g].key = K[i]
<1>8. ASSUME NEW s, Held(s), Len(s) <= n + 1 PROVE SharesOut(s, K, spent, before, n + 1)
  <2>1. HasItsSums(s, K, spent, before, n + 1) /\ HasItsGroup(s, K, n + 1)
    BY <1>8 DEF HasItsSums, HasItsGroup
  <2> QED BY <1>8, <2>1 DEF SharesOut
<1> HIDE DEF Now, Before
<1>9. CASE K[n + 1] = None
  <2>1. Grouped(groups, r, by, current, baseline) = groups
    BY <1>9 DEF Grouped, KeyOfRow
  <2>2. \A g \in 1..Len(groups) : /\ groups[g].current = Now(n + 1, groups[g].key)
                                  /\ groups[g].baseline = Before(n + 1, groups[g].key)
    BY <1>2, <1>4, <1>5, <1>9
  <2>3. Held(groups)
    BY <1>3, <1>4, <1>9, <2>2
  <2>4. Len(groups) <= n + 1
    BY <1>1, <1>4
  <2> HIDE DEF Held
  <2> QED BY <1>8, <2>1, <2>3, <2>4
<1>10. CASE K[n + 1] # None /\ at = {}
  <2>1. K[n + 1] = key /\ Grouped(groups, r, by, current, baseline) = Append(groups, new)
    BY <1>10 DEF Grouped, KeyOfRow
  <2>2. IsGroup(fresh, resources) /\ fresh.key = key /\ fresh.current = 0 /\ fresh.baseline = 0
    BY DEF NewAggregate, IsGroup, GroupFields
  <2> HIDE DEF fresh, inCurrent
  <2>3. /\ new.key = key /\ new.current = spent[n + 1] /\ new.baseline = before[n + 1]
    <3>1. /\ new.key = fresh.key
          /\ new.current = fresh.current + (IF inCurrent THEN r.cost ELSE 0)
          /\ new.baseline = fresh.baseline + (r.cost - (IF inCurrent THEN r.cost ELSE 0))
      BY <1>1, <2>2, RecordAdded
    <3>2. /\ spent[n + 1] = (IF inCurrent THEN r.cost ELSE 0)
          /\ before[n + 1] = r.cost - (IF inCurrent THEN r.cost ELSE 0)
      BY DEF inCurrent
    <3> HIDE DEF new
    <3> QED BY <1>6, <2>2, <3>1, <3>2
  <2>4. \A g \in 1..Len(groups) : groups[g].key # key
    BY <1>10
  <2> HIDE DEF new, key
  <2> DEFINE s == Append(groups, new)
  <2>5. /\ Len(s) = Len(groups) + 1
        /\ s[Len(groups) + 1] = new
        /\ \A i \in 1..Len(groups) : s[i] = groups[i]
    BY <1>1, Appended
  <2> HIDE DEF s
  <2>6. \A i \in 1..Len(s) : (i \in 1..Len(groups) /\ s[i] = groups[i]) \/ (i = Len(groups) + 1 /\ s[i] = new)
    BY <1>1, <2>5
  <2>7. \A i \in 1..Len(groups) : i \in 1..Len(s)
    BY <1>1, <2>5
  <2>8. Now(n, key) = 0 /\ Before(n, key) = 0
    <3>1. \A i \in 1..n : K[i] # key
      <4> SUFFICES ASSUME NEW i \in 1..n, K[i] = key PROVE FALSE
        OBVIOUS
      <4>1. K[i] # None
        BY <1>10, <2>1
      <4>2. PICK g \in 1..Len(groups) : groups[g].key = K[i]
        BY <1>4, <4>1
      <4> QED BY <2>4, <4>2
    <3>2. RowsWith(K, 1..n, key) = {}
      BY <3>1 DEF RowsWith
    <3> QED BY <3>2, TotalNone DEF Now, Before
  <2>9. ASSUME NEW g \in 1..Len(s)
        PROVE  /\ s[g].key # None /\ \E i \in 1..(n + 1) : K[i] = s[g].key
               /\ s[g].current = Now(n + 1, s[g].key) /\ s[g].baseline = Before(n + 1, s[g].key)
    <3>1. CASE g \in 1..Len(groups) /\ s[g] = groups[g]
      <4>1. groups[g].key # K[n + 1]
        BY <2>1, <2>4, <3>1
      <4>2. groups[g].current = Now(n + 1, groups[g].key) /\ groups[g].baseline = Before(n + 1, groups[g].key)
        BY <1>2, <1>4, <1>5, <3>1, <4>1
      <4> QED BY <1>3, <1>4, <3>1, <4>2
    <3>2. CASE s[g] = new
      <4>1. Now(n + 1, key) = spent[n + 1] /\ Before(n + 1, key) = before[n + 1]
        BY <1>2, <1>6, <2>1, <2>8
      <4> QED BY <1>3, <1>10, <2>1, <2>3, <3>2, <4>1
    <3> QED BY <2>6, <3>1, <3>2
  <2>10. ASSUME NEW i \in 1..(n + 1), K[i] # None PROVE \E g \in 1..Len(s) : s[g].key = K[i]
    <3>1. CASE i \in 1..n
      <4>1. PICK g \in 1..Len(groups) : groups[g].key = K[i]
        BY <1>4, <2>10, <3>1
      <4> QED BY <2>5, <2>7, <4>1
    <3>2. CASE i = n + 1
      <4>1. Len(groups) + 1 \in 1..Len(s)
        BY <1>1, <2>5
      <4> QED BY <2>1, <2>3, <2>5, <3>2, <4>1
    <3> QED BY <1>3, <3>1, <3>2
  <2>11. Held(s)
    BY <2>9, <2>10
  <2>12. Len(s) <= n + 1
    BY <1>1, <1>4, <2>5
  <2> HIDE DEF Held
  <2> QED BY <1>8, <2>1, <2>11, <2>12 DEF s
<1>11. CASE K[n + 1] # None /\ at # {}
  <2>1. K[n + 1] = key /\ Grouped(groups, r, by, current, baseline) = added
    BY <1>11 DEF Grouped, KeyOfRow
  <2>2. Len(added) = Len(groups)
    <3> HIDE DEF at, inCurrent
    <3> QED BY <1>1, ListOf
  <2>3. ASSUME NEW g \in 1..Len(groups)
        PROVE  /\ added[g].key = groups[g].key
               /\ added[g].current = groups[g].current + (IF groups[g].key = key THEN spent[n + 1] ELSE 0)
               /\ added[g].baseline = groups[g].baseline + (IF groups[g].key = key THEN before[n + 1] ELSE 0)
    <3>1. IsGroup(groups[g], resources)
      BY DEF GroupsOK
    <3> DEFINE h == AddRecord(groups[g], r, inCurrent)
    <3>2. /\ h.key = groups[g].key
          /\ h.current = groups[g].current + (IF inCurrent THEN r.cost ELSE 0)
          /\ h.baseline = groups[g].baseline + (r.cost - (IF inCurrent THEN r.cost ELSE 0))
      <4> DEFINE old == groups[g]
      <4>1. IsGroup(old, resources) /\ h = AddRecord(old, r, inCurrent)
        BY <3>1
      <4>2. inCurrent \in BOOLEAN
        BY <1>1
      <4> HIDE DEF inCurrent, old, h
      <4>3. /\ AddRecord(old, r, inCurrent).key = old.key
            /\ AddRecord(old, r, inCurrent).current = old.current + (IF inCurrent THEN r.cost ELSE 0)
            /\ AddRecord(old, r, inCurrent).baseline = old.baseline + (r.cost - (IF inCurrent THEN r.cost ELSE 0))
        BY <4>1, <4>2, RecordAdded
      <4> QED BY <4>1, <4>3 DEF old
    <3>3. added[g] = IF groups[g].key = key THEN h ELSE groups[g]
      OBVIOUS
    <3>4. /\ spent[n + 1] = (IF inCurrent THEN r.cost ELSE 0)
          /\ before[n + 1] = r.cost - (IF inCurrent THEN r.cost ELSE 0)
      OBVIOUS
    <3> HIDE DEF h, added, inCurrent, key
    <3> QED BY <1>5, <3>2, <3>3, <3>4
  <2> HIDE DEF added, key
  <2>4. ASSUME NEW g \in 1..Len(groups)
        PROVE  added[g].current = Now(n + 1, groups[g].key) /\ added[g].baseline = Before(n + 1, groups[g].key)
    <3> DEFINE k == groups[g].key
    <3>1. /\ Now(n + 1, k) = Now(n, k) + (IF K[n + 1] = k THEN spent[n + 1] ELSE 0)
          /\ Before(n + 1, k) = Before(n, k) + (IF K[n + 1] = k THEN before[n + 1] ELSE 0)
      BY <1>2
    <3>2. groups[g].current = Now(n, k) /\ groups[g].baseline = Before(n, k)
      BY <1>4
    <3>3. /\ added[g].current = groups[g].current + (IF k = K[n + 1] THEN spent[n + 1] ELSE 0)
          /\ added[g].baseline = groups[g].baseline + (IF k = K[n + 1] THEN before[n + 1] ELSE 0)
      BY <2>1, <2>3
    <3> HIDE DEF k
    <3> QED BY <3>1, <3>2, <3>3 DEF k
  <2>5. ASSUME NEW i \in 1..(n + 1), K[i] # None PROVE \E g \in 1..Len(groups) : groups[g].key = K[i]
    <3>1. \E g \in 1..Len(groups) : groups[g].key = key
      BY <1>11
    <3> QED BY <1>3, <1>4, <2>1, <2>5, <3>1
  <2>6. Held(added)
    <3>1. \A g \in 1..Len(added) :
            /\ added[g].key # None /\ \E i \in 1..(n + 1) : K[i] = added[g].key
            /\ added[g].current = Now(n + 1, added[g].key) /\ added[g].baseline = Before(n + 1, added[g].key)
      <4> TAKE g \in 1..Len(added)
      <4>1. g \in 1..Len(groups) /\ added[g].key = groups[g].key
        BY <2>2, <2>3
      <4>2. groups[g].key # None /\ \E i \in 1..(n + 1) : K[i] = groups[g].key
        BY <1>3, <1>4, <4>1
      <4>3. added[g].current = Now(n + 1, groups[g].key) /\ added[g].baseline = Before(n + 1, groups[g].key)
        BY <2>4, <4>1
      <4> QED BY <4>1, <4>2, <4>3
    <3>2. \A i \in 1..(n + 1) : K[i] # None => \E g \in 1..Len(added) : added[g].key = K[i]
      BY <2>2, <2>3, <2>5
    <3> QED BY <3>1, <3>2
  <2>7. Len(added) <= n + 1
    BY <1>1, <1>4, <2>2
  <2> HIDE DEF Held
  <2> QED BY <1>8, <2>1, <2>6, <2>7
<1> QED BY <1>9, <1>10, <1>11

LEMMA SharesMade ==
  ASSUME NEW resources, NEW records, IsList(records),
         \A i \in 1..Len(records) : IsRecord(records[i]) /\ records[i].resource \in resources \cup {None},
         NEW by, NEW current, NEW baseline
  PROVE  SharesOut(Groups(records, by, current, baseline), KeysOf(records, by, current, baseline),
                Spent(records, current), Earlier(records, current), Len(records))
<1> DEFINE N == Len(records)
           K == KeysOf(records, by, current, baseline)
           spent == Spent(records, current)
           before == Earlier(records, current)
<1>0. N \in Nat
  BY DEF IsList
<1>1. PICK after : /\ Groups(records, by, current, baseline) = after[N]
                   /\ after[0] = <<>>
                   /\ \A n \in 1..N : after[n] = Grouped(after[n - 1], records[n], by, current, baseline)
  BY GroupsAfter
<1>2. ASSUME NEW i \in 1..N
      PROVE  /\ spent[i] = (IF PeriodContains(current, records[i].day) THEN records[i].cost ELSE 0)
             /\ before[i] = records[i].cost - (IF PeriodContains(current, records[i].day) THEN records[i].cost ELSE 0)
             /\ K[i] = KeyOfRow(records[i], by, current, baseline)
             /\ spent[i] \in Int /\ before[i] \in Int
             /\ IsRecord(records[i]) /\ records[i].resource \in resources \cup {None}
  BY DEF KeysOf, Spent, Earlier, IsRecord
<1> HIDE DEF N, K, spent, before
<1> DEFINE Q == {m \in Nat : m <= N => GroupsOK(after[m], resources) /\ SharesOut(after[m], K, spent, before, m)}
<1>3. 0 \in Q
  <2>1. IsList(<<>>) /\ Len(<<>>) = 0
    BY DEF IsList
  <2>2. GroupsOK(<<>>, resources) /\ SharesOut(<<>>, K, spent, before, 0)
    BY <2>1 DEF GroupsOK, SharesOut, HasItsSums, HasItsGroup
  <2> QED BY <1>1, <2>2
<1>4. ASSUME NEW m \in Q PROVE m + 1 \in Q
  <2> SUFFICES ASSUME m + 1 <= N
               PROVE  GroupsOK(after[m + 1], resources) /\ SharesOut(after[m + 1], K, spent, before, m + 1)
    OBVIOUS
  <2>1. /\ m \in Nat /\ m + 1 \in 1..N /\ (m + 1) - 1 = m
        /\ GroupsOK(after[m], resources) /\ SharesOut(after[m], K, spent, before, m)
    BY <1>0
  <2>2. after[m + 1] = Grouped(after[m], records[m + 1], by, current, baseline)
    BY <1>1, <2>1
  <2>3. \A i \in 1..(m + 1) : spent[i] \in Int /\ before[i] \in Int
    <3>1. \A i \in 1..(m + 1) : i \in 1..N
      BY <1>0, <2>1
    <3> QED BY <1>2, <3>1
  <2> DEFINE r == records[m + 1]
  <2>4. /\ IsRecord(r) /\ r.resource \in resources \cup {None}
        /\ K[m + 1] = KeyOfRow(r, by, current, baseline)
        /\ spent[m + 1] = (IF PeriodContains(current, r.day) THEN r.cost ELSE 0)
        /\ before[m + 1] = r.cost - (IF PeriodContains(current, r.day) THEN r.cost ELSE 0)
    BY <1>2, <2>1
  <2> HIDE DEF Q, r
  <2>5. GroupsOK(Grouped(after[m], r, by, current, baseline), resources)
    BY <2>1, <2>4, GroupedOK
  <2>6. SharesOut(Grouped(after[m], r, by, current, baseline), K, spent, before, m + 1)
    BY <2>1, <2>3, <2>4, GroupedShares
  <2> QED BY <2>2, <2>5, <2>6 DEF r
<1>5. Q = Nat
  <2> HIDE DEF Q
  <2>1. Q \in SUBSET Nat
    BY DEF Q
  <2> QED BY <1>3, <1>4, <2>1, EveryNatural
<1>6. N \in Q
  BY <1>0, <1>5
<1> QED BY <1>0, <1>1, <1>6 DEF N, K, spent, before

\* A sort leaves the groups what they are,
LEMMA ByChangeSorts ==
  ASSUME NEW resources, NEW groups, GroupsOK(groups, resources)
  PROVE  \E order, before : Sorts(ByRawChange(groups), groups, order, before)
<1> DEFINE n == Len(groups)
           change(i) == groups[i].current - groups[i].baseline
           before == {p \in (1..n) \X (1..n) : \/ change(p[1]) > change(p[2])
                                               \/ change(p[1]) = change(p[2]) /\ p[1] < p[2]}
<1>1. ByRawChange(groups) = Rearranged(groups, Ordering(1..n, before))
  BY DEF ByRawChange, Rearranged
<1>2. Orders(before, 1..n)
  <2>1. \A i \in 1..n : change(i) \in Int
    BY DEF GroupsOK, IsGroup
  <2> HIDE DEF change
  <2>2. \A i, j \in 1..n : <<i, j>> \in before <=> change(i) > change(j) \/ (change(i) = change(j) /\ i < j)
    OBVIOUS
  <2> HIDE DEF before, n
  <2>3. 1..n \in SUBSET Int
    OBVIOUS
  <2> QED BY <2>1, <2>2, <2>3 DEF Orders
<1>3. IsList(groups)
  BY DEF GroupsOK
<1> HIDE DEF before
<1>4. Sorts(Rearranged(groups, Ordering(1..n, before)), groups, Ordering(1..n, before), before)
  BY <1>2, <1>3, Sorted
<1> QED BY <1>1, <1>4

\* each candidate has the change of the rows of its key,
Moves(list, K, spent, before, n, current, baseline) ==
  \A j \in 1..Len(list) :
    /\ list[j].key # None
    /\ list[j].change = Total(spent, RowsWith(K, 1..n, list[j].key))
                          - Expected(Total(before, RowsWith(K, 1..n, list[j].key)), current, baseline)

LEMMA AllMove ==
  ASSUME NEW resources, NEW records, IsList(records),
         \A i \in 1..Len(records) : IsRecord(records[i]) /\ records[i].resource \in resources \cup {None},
         NEW current, NEW baseline, NEW config
  PROVE  /\ Len(AllCandidates(records, current, baseline, config)) <= Len(records)
         /\ Moves(AllCandidates(records, current, baseline, config), KeysOf(records, "finest", current, baseline),
                  Spent(records, current), Earlier(records, current), Len(records), current, baseline)
<1> DEFINE groups == Groups(records, "finest", current, baseline)
           sorted == ByRawChange(groups)
           K == KeysOf(records, "finest", current, baseline)
           spent == Spent(records, current)
           before == Earlier(records, current)
           n == Len(records)
           all == [i \in 1..Len(sorted) |-> Candidate(sorted[i], current, baseline, config)]
<1>1. GroupsOK(groups, resources) /\ SharesOut(groups, K, spent, before, n)
  BY GroupsMade, SharesMade
<1>2. AllCandidates(records, current, baseline, config) = all
  BY DEF AllCandidates
<1> HIDE DEF groups, K, spent, before, n
<1>3. PICK order, unused : Sorts(sorted, groups, order, unused)
  BY <1>1, ByChangeSorts
<1> HIDE DEF sorted
<1>4. /\ Len(sorted) = Len(groups) /\ Len(groups) \in Nat
      /\ \A i \in 1..Len(groups) : order[i] \in 1..Len(groups) /\ sorted[i] = groups[order[i]]
  BY <1>1, <1>3 DEF Sorts, GroupsOK, IsList
<1>5. Len(all) = Len(groups)
  BY <1>4, ListOf
<1>6. ASSUME NEW j \in 1..Len(groups)
      PROVE  /\ all[j].key # None
             /\ all[j].change = Total(spent, RowsWith(K, 1..n, all[j].key))
                                  - Expected(Total(before, RowsWith(K, 1..n, all[j].key)), current, baseline)
  <2> DEFINE g == groups[order[j]]
  <2>1. order[j] \in 1..Len(groups) /\ sorted[j] = g
    BY <1>4
  <2>2. /\ g.key # None /\ g.current = Total(spent, RowsWith(K, 1..n, g.key))
        /\ g.baseline = Total(before, RowsWith(K, 1..n, g.key))
    BY <1>1, <2>1 DEF SharesOut, HasItsSums
  <2>3. all[j] = Candidate(g, current, baseline, config)
    BY <1>4, <2>1
  <2> HIDE DEF all, g
  <2>4. all[j].key = g.key /\ all[j].change = g.current - Expected(g.baseline, current, baseline)
    <3> DEFINE expected == Expected(g.baseline, current, baseline)
               c == Candidate(g, current, baseline, config)
    <3> HIDE DEF expected
    <3>1. c.key = g.key /\ c.change = g.current - expected
      BY DEF Candidate, expected
    <3> HIDE DEF c
    <3> QED BY <2>3, <3>1 DEF c, expected
  <2> QED BY <2>2, <2>4
<1> HIDE DEF all
<1>7. Len(all) <= n /\ Moves(all, K, spent, before, n, current, baseline)
  BY <1>1, <1>5, <1>6 DEF SharesOut, Moves
<1> QED BY <1>2, <1>7 DEF K, spent, before, n

\* and so has each that is shown.
LEMMA ComparedMove ==
  ASSUME NEW resources, NEW records, IsList(records),
         \A i \in 1..Len(records) : IsRecord(records[i]) /\ records[i].resource \in resources \cup {None},
         NEW current, IsPeriod(current), NEW baseline, IsPeriod(baseline), NEW config, config.maxCandidates \in Nat
  PROVE  /\ Len(CompareProvider(records, current, baseline, config).candidates) <= Len(records)
         /\ Moves(CompareProvider(records, current, baseline, config).candidates,
                  KeysOf(records, "finest", current, baseline),
                  Spent(records, current), Earlier(records, current), Len(records), current, baseline)
<1> DEFINE K == KeysOf(records, "finest", current, baseline)
           spent == Spent(records, current)
           before == Earlier(records, current)
           n == Len(records)
           all == AllCandidates(records, current, baseline, config)
           places == {i \in 1..Len(all) : IsMaterial(all[i], config)}
           material == ElementsAt(all, places)
           shown == Smaller(Len(material), config.maxCandidates)
           list == SubSeq(material, 1, shown)
           V == {material[i] : i \in 1..Len(material)}
<1>1. Len(all) <= n /\ Moves(all, K, spent, before, n, current, baseline)
  BY AllMove
<1>2. IsList(all)
  BY AllCandidatesOK DEF CandidatesOK
<1>3. CompareProvider(records, current, baseline, config).candidates = list
  BY DEF CompareProvider
<1> HIDE DEF K, spent, before, all
<1>4. Keeps(material, all, places) /\ Cardinality(places) <= Len(all)
  <2>1. Len(all) \in Nat /\ places \in SUBSET (1..Len(all))
    BY <1>2 DEF IsList
  <2> HIDE DEF places
  <2> QED BY <2>1, Filtered
<1>5. \A i \in places : i \in 1..Len(all)
  OBVIOUS
<1> HIDE DEF places, material
<1>6. IsList(material) /\ Len(material) = Cardinality(places)
  BY <1>4, KeptIsList
<1>7. Len(material) \in Nat /\ Len(all) \in Nat /\ n \in Nat /\ DOMAIN material = 1..Len(material)
  BY <1>2, <1>6 DEF IsList
<1>8. \A m \in 1..Len(material) : \E i \in 1..Len(all) : material[m] = all[i]
  <2>1. \A m \in DOMAIN material : \E i \in places : material[m] = all[i]
    BY <1>4, KeptPlace
  <2> QED BY <1>5, <1>7, <2>1
<1>9. shown \in Nat /\ shown <= Len(material)
  BY <1>7 DEF Smaller
<1> HIDE DEF shown
<1>10. \A i \in 1..shown : i \in 1..Len(material) /\ material[i] \in V
  BY <1>7, <1>9
<1> HIDE DEF V
<1>11. /\ list \in Seq(V) /\ Len(list) = IF 1 <= shown THEN shown - 1 + 1 ELSE 0
       /\ \A i \in 1..(shown - 1 + 1) : list[i] = material[1 + i - 1]
  BY <1>9, <1>10, SubSeqProperties
<1> HIDE DEF list, n
<1>12. Len(list) = shown /\ \A i \in 1..shown : i \in 1..Len(material) /\ list[i] = material[i]
  BY <1>9, <1>10, <1>11
<1>13. Len(list) <= n
  BY <1>1, <1>4, <1>6, <1>7, <1>9, <1>12
<1>14. Moves(list, K, spent, before, n, current, baseline)
  <2>1. \A j \in 1..Len(list) : \E i \in 1..Len(all) : list[j] = all[i]
    BY <1>8, <1>12
  <2> QED BY <1>1, <2>1 DEF Moves
<1> QED BY <1>3, <1>13, <1>14 DEF K, spent, before, n

-----------------------------------------------------------------------------
(* What rounding the costs of the candidates one by one can come to. *)

LEMMA RoundedNear ==
  ASSUME NEW a \in Int, NEW b \in Int, b > 0
  PROVE  /\ RoundDiv(a, b) \in Int
         /\ 0 - b <= 2 * (b * RoundDiv(a, b) - a) /\ 2 * (b * RoundDiv(a, b) - a) <= b
<1> DEFINE q == a \div b
           r == a % b
           up == 2 * r > b \/ (2 * r = b /\ q % 2 = 1)
<1>1. q \in Int /\ r \in Int /\ 0 <= r /\ r < b /\ a = b * q + r
  OBVIOUS
<1>2. RoundDiv(a, b) = IF up THEN q + 1 ELSE q
  BY DEF RoundDiv
<1>3. (up => 2 * r >= b) /\ (~up => 2 * r <= b)
  <2>1. CASE 2 * r > b
    BY <1>1, <2>1
  <2>2. CASE ~(2 * r > b)
    BY <1>1, <2>2
  <2> HIDE DEF q, r
  <2> QED BY <1>1, <2>1, <2>2
<1>4. b * (q + 1) = b * q + b
  BY <1>1
<1> HIDE DEF q, r, up
<1>5. CASE up
  <2> DEFINE p == b * q
  <2>1. p \in Int /\ a = p + r /\ RoundDiv(a, b) = q + 1 /\ b * (q + 1) = p + b
    BY <1>1, <1>2, <1>4, <1>5
  <2> HIDE DEF p
  <2>2. b * RoundDiv(a, b) = p + b
    BY <2>1
  <2>3. 0 - b <= 2 * ((p + b) - a) /\ 2 * ((p + b) - a) <= b
    BY <1>1, <1>3, <1>5, <2>1
  <2> QED BY <1>1, <2>1, <2>2, <2>3
<1>6. CASE ~up
  <2> DEFINE p == b * q
  <2>1. p \in Int /\ a = p + r /\ RoundDiv(a, b) = q
    BY <1>1, <1>2, <1>6
  <2>2. b * RoundDiv(a, b) = p
    BY <2>1
  <2> HIDE DEF p
  <2>3. 0 - b <= 2 * (p - a) /\ 2 * (p - a) <= b
    BY <1>1, <1>3, <1>6, <2>1
  <2> QED BY <1>1, <2>1, <2>2, <2>3
<1> QED BY <1>5, <1>6

LEMMA Cancelled ==
  ASSUME NEW b \in Int, b > 0, NEW x \in Int, NEW y \in Int, b * x <= b * y
  PROVE  x <= y
<1> SUFFICES ASSUME x >= y + 1 PROVE FALSE
  OBVIOUS
<1>1. b * (x - y) >= b
  <2>1. x - y \in Int /\ x - y >= 1
    OBVIOUS
  <2> DEFINE d == x - y
  <2> HIDE DEF d
  <2>2. b * d >= b
    BY <2>1 DEF d
  <2> QED BY <2>2 DEF d
<1>2. b * (x - y) = b * x - b * y
  OBVIOUS
<1>3. b * x \in Int /\ b * y \in Int
  OBVIOUS
<1> QED BY <1>1, <1>2, <1>3

\* Each of the summands e is near c / b times what it stands for, and so is their sum.
IsNear(b, c, e, y, error) == 0 - error <= 2 * (b * e - c * y) /\ 2 * (b * e - c * y) <= error

LEMMA NearSum ==
  ASSUME NEW b \in Int, NEW c \in Int, NEW e \in Int, NEW y \in Int, NEW d \in Int, NEW x \in Int,
         NEW m \in Int, IsNear(b, c, e, y, b), IsNear(b, c, d, x, m * b)
  PROVE  IsNear(b, c, e + d, y + x, (m + 1) * b)
<1>1. b * (e + d) = b * e + b * d /\ c * (y + x) = c * y + c * x /\ (m + 1) * b = m * b + b
  OBVIOUS
<1>2. b * e \in Int /\ b * d \in Int /\ c * y \in Int /\ c * x \in Int /\ m * b \in Int
  OBVIOUS
<1> DEFINE be == b * e
           bd == b * d
           cy == c * y
           cx == c * x
           mb == m * b
<1>3. /\ 0 - b <= 2 * (be - cy) /\ 2 * (be - cy) <= b
      /\ 0 - mb <= 2 * (bd - cx) /\ 2 * (bd - cx) <= mb
  BY DEF IsNear
<1> HIDE DEF be, bd, cy, cx, mb
<1>4. /\ 0 - (mb + b) <= 2 * ((be + bd) - (cy + cx)) /\ 2 * ((be + bd) - (cy + cx)) <= mb + b
  BY <1>2, <1>3 DEF be, bd, cy, cx, mb
<1>5. IsNear(b, c, e + d, y + x, (m + 1) * b) <=> /\ 0 - (mb + b) <= 2 * ((be + bd) - (cy + cx))
                                                  /\ 2 * ((be + bd) - (cy + cx)) <= mb + b
  BY <1>1 DEF IsNear, be, bd, cy, cx, mb
<1> QED BY <1>4, <1>5

LEMMA TotalNear ==
  ASSUME NEW S, IsFiniteSet(S), NEW b \in Int, NEW c \in Int, NEW e, NEW y,
         \A x \in S : e[x] \in Int /\ y[x] \in Int /\ IsNear(b, c, e[x], y[x], b)
  PROVE  IsNear(b, c, Total(e, S), Total(y, S), Cardinality(S) * b)
<1> DEFINE Q == {s \in SUBSET S : IsNear(b, c, Total(e, s), Total(y, s), Cardinality(s) * b)}
<1>1. {} \in Q
  <2>1. Total(e, {}) = 0 /\ Total(y, {}) = 0 /\ Cardinality({}) = 0
    BY TotalNone, FS_EmptySet
  <2>2. IsNear(b, c, 0, 0, 0 * b)
    BY DEF IsNear
  <2> QED BY <2>1, <2>2
<1>2. ASSUME NEW s \in SUBSET S, s # {}, \A x \in s : s \ {x} \in Q PROVE s \in Q
  <2>1. PICK x \in s : TRUE
    BY <1>2
  <2> DEFINE rest == s \ {x}
  <2>2. IsNear(b, c, Total(e, rest), Total(y, rest), Cardinality(rest) * b)
    BY <1>2, <2>1
  <2>3. IsFiniteSet(s) /\ rest \in SUBSET S
    BY FS_Subset
  <2>4. /\ Cardinality(rest) = Cardinality(s) - 1 /\ Cardinality(s) \in Nat
        /\ IsFiniteSet(rest)
    BY <2>1, <2>3, FS_RemoveElement, FS_CardinalityType
  <2>5. /\ \A z \in s : e[z] \in Int
        /\ \A z \in s : y[z] \in Int
    OBVIOUS
  <2>6. Total(e, s) = e[x] + Total(e, rest) /\ Total(y, s) = y[x] + Total(y, rest)
    BY <2>1, <2>3, <2>5, TotalStep
  <2>7. Total(e, rest) \in Int /\ Total(y, rest) \in Int
    <3>1. /\ \A z \in rest : e[z] \in Int
          /\ \A z \in rest : y[z] \in Int
      BY <2>5
    <3> HIDE DEF rest
    <3> QED BY <2>4, <3>1, TotalWhole
  <2>8. e[x] \in Int /\ y[x] \in Int /\ IsNear(b, c, e[x], y[x], b)
    BY <2>1
  <2> HIDE DEF rest, Q
  <2> DEFINE m == Cardinality(rest)
  <2>9. m \in Int /\ m + 1 = Cardinality(s)
    BY <2>4
  <2> HIDE DEF m
  <2>10. IsNear(b, c, e[x] + Total(e, rest), y[x] + Total(y, rest), (m + 1) * b)
    BY <2>2, <2>7, <2>8, <2>9, NearSum DEF m
  <2>11. IsNear(b, c, Total(e, s), Total(y, s), Cardinality(s) * b)
    BY <2>6, <2>9, <2>10
  <2> QED BY <2>11 DEF Q
<1>3. Q = SUBSET S
  <2> HIDE DEF Q
  <2>1. Q \in SUBSET (SUBSET S)
    BY DEF Q
  <2> QED BY <1>1, <1>2, <2>1, EverySubset
<1> QED BY <1>3

LEMMA ExpectedNear ==
  ASSUME NEW cost \in Int, NEW current, IsPeriod(current), NEW baseline, IsPeriod(baseline)
  PROVE  /\ Expected(cost, current, baseline) \in Int
         /\ IsNear(Days(baseline), Days(current), Expected(cost, current, baseline), cost, Days(baseline))
<1> DEFINE b == Days(baseline)
           c == Days(current)
           e == RoundDiv(cost * c, b)
<1>1. b \in Int /\ b > 0 /\ c \in Int
  BY DaysCounted
<1> HIDE DEF b, c
<1>2. cost * c \in Int /\ cost * c = c * cost
  BY <1>1
<1>3. e \in Int /\ 0 - b <= 2 * (b * e - cost * c) /\ 2 * (b * e - cost * c) <= b
  <2> DEFINE a == cost * c
  <2>1. a \in Int
    BY <1>2
  <2> HIDE DEF a, e
  <2>2. e = RoundDiv(a, b)
    BY DEF a, e
  <2>3. e \in Int /\ 0 - b <= 2 * (b * e - a) /\ 2 * (b * e - a) <= b
    BY <1>1, <2>1, <2>2, RoundedNear
  <2> QED BY <2>3 DEF a
<1> HIDE DEF e
<1>4. e \in Int /\ IsNear(b, c, e, cost, b)
  BY <1>2, <1>3 DEF IsNear
<1> QED BY <1>4 DEF e, b, c, Expected

-----------------------------------------------------------------------------
(* What the groups and the candidates of a comparison add up to. *)

Kept(K, n) == {i \in 1..n : K[i] # None}
KeyAt(list) == [j \in 1..Len(list) |-> list[j].key]
ChangesOf(list) == [j \in 1..Len(list) |-> list[j].change]
CurrentsOf(list) == [j \in 1..Len(list) |-> list[j].current]
BaselinesOf(list) == [j \in 1..Len(list) |-> list[j].baseline]
Spoken(K, n, list) == Under(K, 1..n, KeyAt(list), 1..Len(list))

LEMMA GroupsAddUp ==
  ASSUME NEW resources, NEW groups, GroupsOK(groups, resources), NEW n \in Nat, NEW K, NEW spent, NEW before,
         \A i \in 1..n : spent[i] \in Int, \A i \in 1..n : before[i] \in Int, SharesOut(groups, K, spent, before, n)
  PROVE  /\ SumSeq(CurrentsOf(groups)) = Total(spent, Kept(K, n)) /\ SumSeq(CurrentsOf(groups)) \in Int
         /\ SumSeq(BaselinesOf(groups)) = Total(before, Kept(K, n)) /\ SumSeq(BaselinesOf(groups)) \in Int
<1> DEFINE m == Len(groups)
           J == 1..m
           S == 1..n
           k == KeyAt(groups)
           cs == CurrentsOf(groups)
           bs == BaselinesOf(groups)
<1>1. m \in Nat /\ IsFiniteSet(J) /\ IsFiniteSet(S)
  BY UpTo DEF GroupsOK, IsList
<1>2. /\ Len(cs) = m /\ IsList(cs) /\ \A j \in J : cs[j] = groups[j].current /\ cs[j] \in Int
      /\ Len(bs) = m /\ IsList(bs) /\ \A j \in J : bs[j] = groups[j].baseline /\ bs[j] \in Int
  <2>1. \A j \in J : groups[j].current \in Int /\ groups[j].baseline \in Int
    BY DEF GroupsOK, IsGroup
  <2>2. IsList([j \in J |-> groups[j].current]) /\ Len([j \in J |-> groups[j].current]) = m
    <3> DEFINE s == [j \in J |-> groups[j].current]
    <3>1. DOMAIN s = 1..m /\ s = [j \in 1..m |-> s[j]]
      OBVIOUS
    <3> HIDE DEF s
    <3> QED BY <1>1, <3>1, ListOf DEF s
  <2>3. IsList([j \in J |-> groups[j].baseline]) /\ Len([j \in J |-> groups[j].baseline]) = m
    <3> DEFINE s == [j \in J |-> groups[j].baseline]
    <3>1. DOMAIN s = 1..m /\ s = [j \in 1..m |-> s[j]]
      OBVIOUS
    <3> HIDE DEF s
    <3> QED BY <1>1, <3>1, ListOf DEF s
  <2> QED BY <2>1, <2>2, <2>3 DEF CurrentsOf, BaselinesOf
<1>3. \A i, j \in J : k[i] = k[j] => i = j
  BY DEF GroupsOK, KeyAt
<1>4. /\ \A j \in J : cs[j] = Total(spent, RowsWith(K, S, k[j]))
      /\ \A j \in J : bs[j] = Total(before, RowsWith(K, S, k[j]))
  BY <1>2 DEF SharesOut, HasItsSums, KeyAt
<1>5. Under(K, S, k, J) = Kept(K, n)
  BY DEF SharesOut, HasItsSums, HasItsGroup, Under, Kept, KeyAt
<1> HIDE DEF k, cs, bs, J, S, m
<1>6. SumSeq(cs) = Total(cs, J) /\ SumSeq(cs) \in Int /\ SumSeq(bs) = Total(bs, J) /\ SumSeq(bs) \in Int
  BY <1>2, SumOfList DEF J
<1>7. /\ \A x \in S : spent[x] \in Int
      /\ \A x \in S : before[x] \in Int
  BY DEF S
<1>8. Total(cs, J) = Total(spent, Under(K, S, k, J))
  BY <1>1, <1>3, <1>4, <1>7, TotalParts
<1>9. Total(bs, J) = Total(before, Under(K, S, k, J))
  BY <1>1, <1>3, <1>4, <1>7, TotalParts
<1> QED BY <1>5, <1>6, <1>8, <1>9 DEF cs, bs

\* The sum of the changes of candidates is that of the rows they speak for, but for the
\* rounding of the expected cost of each.
LEMMA CandidatesAddUp ==
  ASSUME NEW resources, NEW list, CandidatesOK(list, resources), NEW n \in Nat, NEW K, NEW spent, NEW before,
         \A i \in 1..n : spent[i] \in Int, \A i \in 1..n : before[i] \in Int,
         NEW current, IsPeriod(current), NEW baseline, IsPeriod(baseline),
         Moves(list, K, spent, before, n, current, baseline)
  PROVE  \E e \in Int : /\ ChangeSum(list) = Total(spent, Spoken(K, n, list)) - e
                        /\ ChangeSum(list) \in Int
                        /\ IsNear(Days(baseline), Days(current), e, Total(before, Spoken(K, n, list)),
                                  Len(list) * Days(baseline))
<1> DEFINE m == Len(list)
           J == 1..m
           S == 1..n
           k == KeyAt(list)
           h == ChangesOf(list)
           t == [j \in J |-> Total(spent, RowsWith(K, S, k[j]))]
           y == [j \in J |-> Total(before, RowsWith(K, S, k[j]))]
           e == [j \in J |-> Expected(y[j], current, baseline)]
           b == Days(baseline)
           c == Days(current)
<1>1. m \in Nat /\ IsFiniteSet(J) /\ Cardinality(J) = m /\ IsFiniteSet(S)
  BY UpTo DEF CandidatesOK, IsList
<1>2. \A i, j \in J : k[i] = k[j] => i = j
  BY DEF CandidatesOK, KeyAt
<1>3. IsList(h) /\ Len(h) = m
  <2> DEFINE s == [j \in J |-> list[j].change]
  <2>1. DOMAIN s = 1..m /\ s = [j \in 1..m |-> s[j]]
    OBVIOUS
  <2> HIDE DEF s
  <2> QED BY <1>1, <2>1, ListOf DEF s, ChangesOf
<1>4. \A j \in J : h[j] = Total(spent, RowsWith(K, S, k[j])) - Expected(Total(before, RowsWith(K, S, k[j])), current, baseline)
  BY DEF Moves, KeyAt, ChangesOf
<1>5. /\ \A j \in J : t[j] = Total(spent, RowsWith(K, S, k[j]))
      /\ \A j \in J : y[j] = Total(before, RowsWith(K, S, k[j]))
      /\ \A j \in J : e[j] = Expected(y[j], current, baseline)
  OBVIOUS
<1>6. Spoken(K, n, list) = Under(K, S, k, J)
  BY DEF Spoken
<1>7. ChangeSum(list) = SumSeq(h)
  BY DEF ChangeSum, ChangesOf
<1>8. /\ \A x \in S : spent[x] \in Int
      /\ \A x \in S : before[x] \in Int
  OBVIOUS
<1>9. b \in Int /\ c \in Int
  BY DaysCounted
<1> HIDE DEF t, y, e, h, k, J, S, m, b, c
<1>10. ASSUME NEW j \in J PROVE t[j] \in Int /\ y[j] \in Int
  <2> DEFINE R == RowsWith(K, S, k[j])
  <2>1. /\ IsFiniteSet(R)
        /\ \A x \in R : spent[x] \in Int
        /\ \A x \in R : before[x] \in Int
    <3>1. R \in SUBSET S
      BY DEF RowsWith
    <3> HIDE DEF R
    <3> QED BY <1>1, <1>8, <3>1, FS_Subset
  <2>2. t[j] = Total(spent, R) /\ y[j] = Total(before, R)
    BY <1>5
  <2> HIDE DEF R
  <2> QED BY <2>1, <2>2, TotalWhole
<1>11. \A j \in J : e[j] \in Int /\ y[j] \in Int /\ IsNear(b, c, e[j], y[j], b)
  BY <1>5, <1>10, ExpectedNear DEF b, c
<1>12. \A j \in J : t[j] \in Int /\ e[j] \in Int /\ h[j] = t[j] - e[j]
  BY <1>4, <1>5, <1>10, <1>11
<1>13. IsNear(b, c, Total(e, J), Total(y, J), Cardinality(J) * b)
  BY <1>1, <1>9, <1>11, TotalNear
<1>14. Total(h, J) = Total(t, J) - Total(e, J)
  BY <1>1, <1>12, TotalMinus
<1>15. \A j \in J : h[j] \in Int
  BY <1>12
<1>16. SumSeq(h) = Total(h, J) /\ SumSeq(h) \in Int
  BY <1>3, <1>15, SumOfList DEF J
<1>17. Total(e, J) \in Int
  <2>1. \A j \in J : e[j] \in Int
    BY <1>11
  <2> QED BY <1>1, <2>1, TotalWhole
<1>18. Total(t, J) = Total(spent, Under(K, S, k, J))
  BY <1>1, <1>2, <1>5, <1>8, TotalParts
<1>19. Total(y, J) = Total(before, Under(K, S, k, J))
  BY <1>1, <1>2, <1>5, <1>8, TotalParts
<1>20. /\ ChangeSum(list) = Total(spent, Spoken(K, n, list)) - Total(e, J)
       /\ ChangeSum(list) \in Int
       /\ IsNear(b, c, Total(e, J), Total(before, Spoken(K, n, list)), m * b)
  BY <1>1, <1>6, <1>7, <1>13, <1>14, <1>16, <1>18, <1>19
<1> QED BY <1>17, <1>20 DEF m, b, c

\* What the candidates leave over is the change of the rows that they do not speak for.
LEMMA LeftOver ==
  ASSUME NEW resources, NEW records, IsList(records),
         \A i \in 1..Len(records) : IsRecord(records[i]) /\ records[i].resource \in resources \cup {None},
         NEW current, IsPeriod(current), NEW baseline, IsPeriod(baseline), NEW config, config.maxCandidates \in Nat,
         NEW made, made = CompareProvider(records, current, baseline, config),
         NEW K, K = KeysOf(records, "finest", current, baseline),
         NEW rest, rest = Kept(K, Len(records)) \ Spoken(K, Len(records), made.candidates)
  PROVE  /\ made.change \in Int /\ ChangeSum(made.candidates) \in Int
         /\ Magnitude(made.change - ChangeSum(made.candidates)
                        - (Total(Spent(records, current), rest)
                             - Expected(Total(Earlier(records, current), rest), current, baseline)))
              <= Len(records) + 1
<1> DEFINE n == Len(records)
           groups == Groups(records, "finest", current, baseline)
           spent == Spent(records, current)
           before == Earlier(records, current)
           list == made.candidates
           all == Kept(K, n)
           spoken == Spoken(K, n, list)
           b == Days(baseline)
           c == Days(current)
<1>1. GroupsOK(groups, resources) /\ SharesOut(groups, K, spent, before, n)
  BY GroupsMade, SharesMade
<1>2. CandidatesOK(list, resources) /\ Len(list) <= n /\ Moves(list, K, spent, before, n, current, baseline)
  BY ComparedOK, ComparedMove
<1>3. n \in Nat /\ IsFiniteSet(1..n)
  BY UpTo DEF IsList
<1>4. /\ \A i \in 1..n : spent[i] \in Int
      /\ \A i \in 1..n : before[i] \in Int
  BY DEF Spent, Earlier, IsRecord
<1>5. made.change = SumSeq(CurrentsOf(groups)) - Expected(SumSeq(BaselinesOf(groups)), current, baseline)
  BY DEF CompareProvider, CurrentsOf, BaselinesOf
<1>6. b \in Int /\ b > 0 /\ c \in Int
  BY DaysCounted
<1>7. rest = all \ spoken
  OBVIOUS
<1>8. spoken \in SUBSET all /\ all \in SUBSET (1..n)
  BY <1>2 DEF Spoken, Kept, Under, KeyAt, Moves
<1> HIDE DEF n, groups, spent, before, list, all, spoken
<1>9. SumSeq(CurrentsOf(groups)) = Total(spent, all) /\ SumSeq(BaselinesOf(groups)) = Total(before, all)
  BY <1>1, <1>3, <1>4, GroupsAddUp DEF all
<1>10. PICK e \in Int : /\ ChangeSum(list) = Total(spent, spoken) - e /\ ChangeSum(list) \in Int
                        /\ IsNear(b, c, e, Total(before, spoken), Len(list) * b)
  BY <1>2, <1>3, <1>4, CandidatesAddUp DEF spoken
<1>11. /\ IsFiniteSet(all) /\ IsFiniteSet(spoken) /\ IsFiniteSet(rest)
       /\ spoken \cap rest = {} /\ all = spoken \cup rest
       /\ \A i \in all : spent[i] \in Int
       /\ \A i \in all : before[i] \in Int
  BY <1>3, <1>4, <1>7, <1>8, FS_Subset
<1>12. Total(spent, all) = Total(spent, spoken) + Total(spent, rest)
  BY <1>11, TotalUnion
<1>13. Total(before, all) = Total(before, spoken) + Total(before, rest)
  BY <1>11, TotalUnion
<1>14. /\ Total(spent, spoken) \in Int /\ Total(spent, rest) \in Int
       /\ Total(before, spoken) \in Int /\ Total(before, rest) \in Int
  <2>1. /\ \A i \in spoken : spent[i] \in Int
        /\ \A i \in spoken : before[i] \in Int
        /\ \A i \in rest : spent[i] \in Int
        /\ \A i \in rest : before[i] \in Int
    BY <1>11
  <2> QED BY <1>11, <2>1, TotalWhole
<1> DEFINE Y == Total(before, all)
           y == Total(before, spoken)
           x == Total(before, rest)
           E == Expected(Y, current, baseline)
           f == Expected(x, current, baseline)
           u == Total(spent, spoken)
           v == Total(spent, rest)
           m == Len(list)
<1>15. Y = y + x /\ Y \in Int /\ y \in Int /\ x \in Int /\ u \in Int /\ v \in Int
  BY <1>13, <1>14
<1>16. m \in Nat /\ m <= n
  BY <1>2 DEF CandidatesOK, IsList
<1>17. E \in Int /\ f \in Int /\ IsNear(b, c, E, Y, b) /\ IsNear(b, c, f, x, b)
  <2> HIDE DEF Y, x
  <2> QED BY <1>15, ExpectedNear
<1>18. made.change = (u + v) - E /\ ChangeSum(list) = u - e /\ IsNear(b, c, e, y, m * b)
  BY <1>5, <1>9, <1>10, <1>12
<1> HIDE DEF Y, y, x, E, f, u, v, m, b, c
<1>19. made.change \in Int /\ ChangeSum(list) \in Int
  BY <1>15, <1>17, <1>18
<1>20. made.change - ChangeSum(list) - (v - f) = (e + f) - E
  BY <1>10, <1>15, <1>17, <1>18
<1>21. IsNear(b, c, f + e, x + y, (m + 1) * b)
  <2>1. /\ b \in Int /\ c \in Int /\ f \in Int /\ x \in Int /\ e \in Int /\ y \in Int /\ m \in Int
        /\ IsNear(b, c, f, x, b) /\ IsNear(b, c, e, y, m * b)
    BY <1>6, <1>10, <1>15, <1>16, <1>17, <1>18
  <2> QED BY <2>1, NearSum
<1>22. Magnitude((e + f) - E) <= n + 1
  <2> DEFINE d == (e + f) - E
  <2>1. d \in Int
    BY <1>10, <1>17
  <2>2. b * (2 * d) <= b * (m + 2) /\ b * (0 - (m + 2)) <= b * (2 * d)
    <3> DEFINE p == b * (f + e)
               q == b * E
               r == c * Y
               s == (m + 1) * b
    <3>1. p \in Int /\ q \in Int /\ r \in Int /\ s \in Int
      BY <1>6, <1>10, <1>15, <1>16, <1>17
    <3>2. c * (x + y) = r
      BY <1>15
    <3>3. /\ 0 - s <= 2 * (p - r) /\ 2 * (p - r) <= s
          /\ 0 - b <= 2 * (q - r) /\ 2 * (q - r) <= b
      BY <1>17, <1>21, <3>2 DEF IsNear
    <3>4. /\ b * (2 * d) = 2 * (p - q) /\ b * (m + 2) = s + b /\ b * (0 - (m + 2)) = 0 - (s + b)
      <4>1. d = (f + e) - E
        BY <1>10, <1>17
      <4>2. b * ((f + e) - E) = b * (f + e) - b * E
        BY <1>6, <1>10, <1>17
      <4>3. b * (2 * d) = 2 * (b * d)
        BY <1>6, <2>1
      <4>4. b * (m + 2) = (m + 1) * b + b /\ b * (0 - (m + 2)) = 0 - ((m + 1) * b + b)
        BY <1>6, <1>16
      <4> QED BY <4>1, <4>2, <4>3, <4>4
    <3> HIDE DEF p, q, r, s, d
    <3>5. 0 - (s + b) <= 2 * (p - q) /\ 2 * (p - q) <= s + b
      BY <1>6, <3>1, <3>3
    <3> QED BY <3>4, <3>5
  <2> HIDE DEF d
  <2>3. 2 * d <= m + 2 /\ 0 - (m + 2) <= 2 * d
    BY <1>6, <1>16, <2>1, <2>2, Cancelled
  <2>4. Magnitude(d) <= n + 1
    BY <1>3, <1>16, <2>1, <2>3 DEF Magnitude
  <2> QED BY <2>4 DEF d
<1> QED BY <1>19, <1>20, <1>22 DEF n, list, spent, before, v, f, x

\* The sums of the model are those of its lists.
LEMMA SpentIs ==
  ASSUME NEW records, NEW rows \in SUBSET (1..Len(records)), IsFiniteSet(rows)
  PROVE  Current(records, rows) = Total(Spent(records, input.current), rows)
<1> DEFINE S == rows
           V(i) == IF PeriodContains(input.current, records[i].day) THEN records[i].cost ELSE 0
           f == Spent(records, input.current)
           iter == CHOOSE g : g = [s \in SUBSET S |-> IF s = {} THEN 0 ELSE V(Some(s)) + g[s \ {Some(s)}]]
<1>1. Current(records, rows) = iter[S]
  BY DEF Current, MapThenSumSet, MapThenFoldSet, Some
<1>2. \A i \in S : f[i] = V(i)
  BY DEF Spent
<1> HIDE DEF V, f, S
<1>3. \A s \in SUBSET S : s # {} => Some(s) \in S
  BY DEF Some
<1>4. ASSUME NEW g
      PROVE  Sums(g, f, S) <=> g = [s \in SUBSET S |-> IF s = {} THEN 0 ELSE V(Some(s)) + g[s \ {Some(s)}]]
  <2>1. ASSUME NEW s \in SUBSET S
        PROVE  Summed(f, g, s) = IF s = {} THEN 0 ELSE V(Some(s)) + g[s \ {Some(s)}]
    BY <1>2, <1>3 DEF Summed
  <2> QED BY <2>1 DEF Sums
<1>5. \E g : g = [s \in SUBSET S |-> IF s = {} THEN 0 ELSE V(Some(s)) + g[s \ {Some(s)}]]
  <2>1. PICK g : Sums(g, f, S)
    BY SumsExist DEF S
  <2> QED BY <1>4, <2>1
<1>6. iter = [s \in SUBSET S |-> IF s = {} THEN 0 ELSE V(Some(s)) + iter[s \ {Some(s)}]]
  BY <1>5
<1> HIDE DEF iter
<1>7. Sums(iter, f, S)
  BY <1>4, <1>6
<1>8. S \in SUBSET S /\ IsFiniteSet(S)
  BY DEF S
<1>9. iter[S] = Total(f, S)
  BY <1>7, <1>8, TotalIs
<1> QED BY <1>1, <1>9 DEF S, f

CostsOf(records) == [i \in 1..Len(records) |-> records[i].cost]

LEMMA CostIs ==
  ASSUME NEW records, NEW rows \in SUBSET (1..Len(records)), IsFiniteSet(rows)
  PROVE  MapThenSumSet(LAMBDA i : records[i].cost, rows) = Total(CostsOf(records), rows)
<1> DEFINE S == rows
           V(i) == records[i].cost
           f == CostsOf(records)
           iter == CHOOSE g : g = [s \in SUBSET S |-> IF s = {} THEN 0 ELSE V(Some(s)) + g[s \ {Some(s)}]]
<1>1. MapThenSumSet(LAMBDA i : records[i].cost, rows) = iter[S]
  BY DEF MapThenSumSet, MapThenFoldSet, Some
<1>2. \A i \in S : f[i] = V(i)
  BY DEF CostsOf
<1> HIDE DEF V, f, S
<1>3. \A s \in SUBSET S : s # {} => Some(s) \in S
  BY DEF Some
<1>4. ASSUME NEW g
      PROVE  Sums(g, f, S) <=> g = [s \in SUBSET S |-> IF s = {} THEN 0 ELSE V(Some(s)) + g[s \ {Some(s)}]]
  <2>1. ASSUME NEW s \in SUBSET S
        PROVE  Summed(f, g, s) = IF s = {} THEN 0 ELSE V(Some(s)) + g[s \ {Some(s)}]
    BY <1>2, <1>3 DEF Summed
  <2> QED BY <2>1 DEF Sums
<1>5. \E g : g = [s \in SUBSET S |-> IF s = {} THEN 0 ELSE V(Some(s)) + g[s \ {Some(s)}]]
  <2>1. PICK g : Sums(g, f, S)
    BY SumsExist DEF S
  <2> QED BY <1>4, <2>1
<1>6. iter = [s \in SUBSET S |-> IF s = {} THEN 0 ELSE V(Some(s)) + iter[s \ {Some(s)}]]
  BY <1>5
<1> HIDE DEF iter
<1>7. Sums(iter, f, S)
  BY <1>4, <1>6
<1>8. S \in SUBSET S /\ IsFiniteSet(S)
  BY DEF S
<1>9. iter[S] = Total(f, S)
  BY <1>7, <1>8, TotalIs
<1> QED BY <1>1, <1>9 DEF S, f

LEMMA ChangeIs ==
  ASSUME NEW records, IsList(records), \A i \in 1..Len(records) : IsRecord(records[i]),
         NEW rows \in SUBSET (1..Len(records))
  PROVE  Change(records, rows)
           = Total(Spent(records, input.current), rows)
               - Expected(Total(Earlier(records, input.current), rows), input.current, input.baseline)
<1> DEFINE spent == Spent(records, input.current)
           before == Earlier(records, input.current)
           costs == CostsOf(records)
           cost == MapThenSumSet(LAMBDA i : records[i].cost, rows)
<1>1. IsFiniteSet(rows)
  <2>1. IsFiniteSet(1..Len(records))
    BY UpTo DEF IsList
  <2> QED BY <2>1, FS_Subset
<1>2. Current(records, rows) = Total(spent, rows) /\ cost = Total(costs, rows)
  BY <1>1, SpentIs, CostIs
<1>3. \A i \in rows : costs[i] \in Int /\ spent[i] \in Int /\ before[i] = costs[i] - spent[i]
  BY DEF CostsOf, Spent, Earlier, IsRecord
<1>4. Change(records, rows) = Current(records, rows) - Expected(cost - Current(records, rows), input.current, input.baseline)
  BY DEF Change
<1> HIDE DEF spent, before, costs, cost
<1>5. Total(before, rows) = Total(costs, rows) - Total(spent, rows)
  BY <1>1, <1>3, TotalMinus
<1> QED BY <1>2, <1>4, <1>5 DEF spent, before

\* The row of a key: the resource, or the service of a row that names none.
LEMMA KeyIs ==
  ASSUME NEW r, IsRecord(r), NEW current, NEW baseline
  PROVE  /\ KeyOfRow(r, "finest", current, baseline)
              = IF InScope(r, current, baseline) THEN FirstOf(r.resource, r.service) ELSE None
         /\ FirstOf(r.resource, r.service) # None
<1>1. r.service # None
  BY DEF IsRecord
<1>2. FirstOf(r.resource, r.service) # None
  BY <1>1 DEF FirstOf
<1>3. DimensionKey(r, "resource") = r.resource /\ DimensionKey(r, "service") = r.service
  BY DEF DimensionKey
<1>4. DimensionKey(r, FinestDimension(r)) = FirstOf(r.resource, r.service)
  BY <1>3 DEF FinestDimension, FirstOf
<1> QED BY <1>2, <1>4 DEF KeyOfRow

LEMMA SumOfOne ==
  ASSUME NEW s, IsList(s), Len(s) = 1, s[1] \in Int
  PROVE  SumSeq(s) = s[1]
<1> DEFINE S == 1..1
<1>1. IsFiniteSet(S) /\ S \ {1} = {} /\ 1 \in S /\ \A i \in S : s[i] \in Int
  <2>1. IsFiniteSet(S)
    BY UpTo
  <2> QED BY <2>1
<1>2. SumSeq(s) = Total(s, S)
  BY <1>1, SumOfList
<1> HIDE DEF S
<1>3. Total(s, S) = s[1] + Total(s, S \ {1})
  BY <1>1, TotalStep
<1> QED BY <1>1, <1>2, <1>3, TotalNone

LEMMA ComparedTotals ==
  ASSUME NEW made, made.change \in Int, ChangeSum(made.candidates) \in Int, NEW config
  PROVE  /\ ComparePeriods(<<made>>, config).providers[1] = made
         /\ ComparePeriods(<<made>>, config).reconciliation.unattributed
              = made.change - ChangeSum(made.candidates)
<1> DEFINE all == <<made>>
           changes == [i \in 1..Len(all) |-> all[i].change]
           parts == [i \in 1..Len(all) |-> ChangeSum(all[i].candidates)]
<1>1. Len(all) = 1 /\ all[1] = made
  OBVIOUS
<1>2. IsList(changes) /\ Len(changes) = 1 /\ changes[1] = made.change
  <2> HIDE DEF all
  <2>1. DOMAIN changes = 1..1 /\ changes = [i \in 1..1 |-> changes[i]] /\ changes[1] = made.change
    BY <1>1
  <2> HIDE DEF changes
  <2> QED BY <2>1, ListOf
<1>3. IsList(parts) /\ Len(parts) = 1 /\ parts[1] = ChangeSum(made.candidates)
  <2> HIDE DEF all
  <2>1. DOMAIN parts = 1..1 /\ parts = [i \in 1..1 |-> parts[i]] /\ parts[1] = ChangeSum(made.candidates)
    BY <1>1
  <2> HIDE DEF parts
  <2> QED BY <2>1, ListOf
<1>4. /\ ComparePeriods(all, config).providers = all
      /\ ComparePeriods(all, config).reconciliation.unattributed = SumSeq(changes) - SumSeq(parts)
  BY DEF ComparePeriods, Reconcile
<1> HIDE DEF changes, parts
<1>5. SumSeq(changes) = made.change /\ SumSeq(parts) = ChangeSum(made.candidates)
  BY <1>2, <1>3, SumOfOne
<1> QED BY <1>1, <1>4, <1>5

\* Whatever is billed and however the data came, no cost is counted twice: a candidate has the
\* change of exactly the rows of its resource, or of its service without one, and what the
\* candidates leave over is the change of the other rows, but for the rounding of each.
THEOREM CostsAreCountedOnce == Spec => []CandidatesNeverDoubleCount
<1>1. DataIInv => CandidatesNeverDoubleCount
  <2> SUFFICES ASSUME DataIInv, comparison # None PROVE CandidatesNeverDoubleCount
    BY DEF CandidatesNeverDoubleCount
  <2> DEFINE records == Selected
             current == input.current
             baseline == input.baseline
             config == input.config
             resources == ResourcesOf(input.records)
             made == CompareProvider(records, current, baseline, config)
             list == made.candidates
             n == Len(records)
             K == KeysOf(records, "finest", current, baseline)
             spent == Spent(records, current)
             before == Earlier(records, current)
             all == {Candidates[i] : i \in 1..Len(Candidates)}
             spoken == UNION {RowsOf(c) : c \in all}
             rest == Rows(Selected) \ spoken
  <2>1. /\ IsList(records)
        /\ \A i \in 1..Len(records) : IsRecord(records[i]) /\ records[i].resource \in resources \cup {None}
        /\ IsPeriod(current) /\ IsPeriod(baseline) /\ config.maxCandidates \in Nat
    BY FilteredOK DEF DataIInv, IsInput, Selected
  <2>2. comparison = ComparePeriods(<<made>>, config)
    BY DEF DataIInv, ComparedAre, Compared
  <2>3. /\ CandidatesOK(list, resources)
        /\ Moves(list, K, spent, before, n, current, baseline)
    BY <2>1, ComparedOK, ComparedMove
  <2>4. \A i \in 1..n : K[i] = (IF InScope(records[i], current, baseline)
                                THEN FirstOf(records[i].resource, records[i].service) ELSE None)
                        /\ FirstOf(records[i].resource, records[i].service) # None
    BY <2>1, KeyIs DEF KeysOf
  <2>5. Rows(Selected) = Kept(K, n)
    BY <2>4 DEF Rows, Kept
  <2>6. ASSUME NEW c, c.key # None PROVE RowsOf(c) = RowsWith(K, 1..n, c.key)
    BY <2>4, <2>6 DEF RowsOf, Rows, RowsWith
  <2> DEFINE left == Kept(K, n) \ Spoken(K, n, list)
  <2>7. /\ made.change \in Int /\ ChangeSum(list) \in Int
        /\ Magnitude(made.change - ChangeSum(list)
                       - (Total(spent, left) - Expected(Total(before, left), current, baseline))) <= n + 1
    <3> HIDE DEF records, current, baseline, config, resources
    <3> QED BY <2>1, LeftOver
  <2> HIDE DEF resources, made, K, spent, before, n, left, list
  <2>8. Candidates = list /\ comparison.reconciliation.unattributed = made.change - ChangeSum(list)
    BY <2>2, <2>7, ComparedTotals DEF Candidates, list
  <2>9. \A j \in 1..Len(list) : list[j].key # None /\ RowsOf(list[j]) = RowsWith(K, 1..n, list[j].key)
    BY <2>3, <2>6 DEF Moves
  <2>10. spoken = Spoken(K, n, list)
    BY <2>8, <2>9 DEF Spoken, Under, RowsWith, KeyAt
  <2>11. rest = left
    BY <2>5, <2>10 DEF left
  <2>12. ASSUME NEW R \in SUBSET (1..n)
         PROVE  Change(Selected, R) = Total(spent, R) - Expected(Total(before, R), current, baseline)
    BY <2>1, ChangeIs DEF n, spent, before
  <2>13. \A c \in all : c.change = Change(Selected, RowsOf(c))
    <3> SUFFICES ASSUME NEW j \in 1..Len(list) PROVE list[j].change = Change(Selected, RowsOf(list[j]))
      BY <2>8
    <3> DEFINE R == RowsWith(K, 1..n, list[j].key)
    <3>1. R \in SUBSET (1..n)
      BY DEF RowsWith
    <3>2. list[j].change = Total(spent, R) - Expected(Total(before, R), current, baseline)
      BY <2>3 DEF Moves
    <3> HIDE DEF R
    <3> QED BY <2>9, <2>12, <3>1, <3>2 DEF R
  <2>14. \A c, d \in all : c # d => RowsOf(c) \intersect RowsOf(d) = {}
    <3> SUFFICES ASSUME NEW i \in 1..Len(list), NEW j \in 1..Len(list), list[i] # list[j]
                 PROVE  RowsOf(list[i]) \intersect RowsOf(list[j]) = {}
      BY <2>8
    <3>1. list[i].key # list[j].key
      BY <2>3 DEF CandidatesOK
    <3> QED BY <2>9, <3>1 DEF RowsWith
  <2>15. Magnitude(comparison.reconciliation.unattributed - Change(Selected, rest)) <= Len(Selected) + 1
    <3>1. left \in SUBSET (1..n)
      BY DEF left, Kept
    <3>2. Change(Selected, rest) = Total(spent, left) - Expected(Total(before, left), current, baseline)
      BY <2>11, <2>12, <3>1
    <3> QED BY <2>7, <2>8, <3>2 DEF n
  <2> HIDE DEF all, spoken, rest
  <2> QED BY <2>13, <2>14, <2>15 DEF CandidatesNeverDoubleCount, all, spoken, rest
<1> QED BY <1>1, DataInvariance, PTL

-----------------------------------------------------------------------------
(* Sums over what a filter keeps. *)

LEMMA TotalZero ==
  ASSUME NEW S, IsFiniteSet(S), NEW f, \A x \in S : f[x] = 0
  PROVE  Total(f, S) = 0
<1>1. Total(f, S) \in Int
  BY TotalWhole
<1>2. Total(f, S) = Total(f, S) - Total(f, S)
  BY TotalMinus
<1> QED BY <1>1, <1>2

LEMMA TotalMasked ==
  ASSUME NEW S, IsFiniteSet(S), NEW T \in SUBSET S, NEW f, \A x \in S : f[x] \in Int,
         \A x \in S \ T : f[x] = 0
  PROVE  Total(f, S) = Total(f, T)
<1> DEFINE R == S \ T
<1>1. IsFiniteSet(T) /\ IsFiniteSet(R) /\ T \cap R = {} /\ T \cup R = S /\ \A x \in T \cup R : f[x] \in Int
  BY FS_Subset
<1>2. \A x \in R : f[x] = 0
  OBVIOUS
<1> HIDE DEF R
<1>3. Total(f, R) = 0
  BY <1>1, <1>2, TotalZero
<1>4. Total(f, S) = Total(f, T) + Total(f, R)
  BY <1>1, TotalUnion
<1>5. Total(f, T) \in Int
  BY <1>1, TotalWhole
<1> QED BY <1>3, <1>4, <1>5

\* k picks each of the places once; in whatever order, the sum is the same.
Picks(k, J, places) ==
  /\ \A i, j \in J : k[i] = k[j] => i = j
  /\ \A i \in places : \E j \in J : k[j] = i
  /\ \A j \in J : k[j] \in places
WholeOn(f, S) == \A x \in S : f[x] \in Int
Follows(g, J, f, k) == \A j \in J : g[j] = f[k[j]]

LEMMA PickedTotal ==
  ASSUME NEW places, IsFiniteSet(places), NEW f, WholeOn(f, places),
         NEW J, IsFiniteSet(J), NEW k, Picks(k, J, places), NEW g, Follows(g, J, f, k)
  PROVE  Total(g, J) = Total(f, places)
<1>0. /\ \A i, j \in J : k[i] = k[j] => i = j
      /\ \A i \in places : \E j \in J : k[j] = i
      /\ \A j \in J : k[j] \in places /\ g[j] = f[k[j]]
      /\ \A x \in places : f[x] \in Int
  BY DEF Picks, WholeOn, Follows
<1> DEFINE own == [i \in places |-> i]
<1>1. \A x \in places : own[x] = x
  OBVIOUS
<1> HIDE DEF own
<1>2. \A j \in J : g[j] = Total(f, RowsWith(own, places, k[j]))
  <2> TAKE j \in J
  <2> DEFINE x == k[j]
  <2>1. x \in places
    BY <1>0
  <2>2. RowsWith(own, places, x) = {x}
    BY <1>1, <2>1 DEF RowsWith
  <2>3. x \in {x} /\ IsFiniteSet({x}) /\ \A y \in {x} : f[y] \in Int
    BY <1>0, <2>1, FS_Singleton
  <2>4. g[j] = f[x]
    BY <1>0
  <2> HIDE DEF x
  <2>5. Total(f, {x}) = f[x] + Total(f, {x} \ {x})
    BY <2>3, TotalStep
  <2>6. Total(f, {x} \ {x}) = 0
    <3>1. {x} \ {x} = {}
      OBVIOUS
    <3> QED BY <3>1, TotalNone
  <2>7. Total(f, {x}) = f[x]
    BY <2>3, <2>5, <2>6
  <2> QED BY <2>2, <2>4, <2>7 DEF x
<1>3. Under(own, places, k, J) = places
  BY <1>0, <1>1 DEF Under
<1>4. Total(g, J) = Total(f, Under(own, places, k, J))
  BY <1>0, <1>2, TotalParts
<1> QED BY <1>3, <1>4

\* What the elements of a list are worth, and those of them at some places.
AreWorth(f, s, v) == \A i \in 1..Len(s) : v[s[i]] \in Int /\ f[i] = v[s[i]]
SomeAreWorth(f, s, places, v) ==
  \A i \in 1..Len(s) : v[s[i]] \in Int /\ f[i] = IF i \in places THEN v[s[i]] ELSE 0

LEMMA KeptTotal ==
  ASSUME NEW s, IsList(s), NEW places \in SUBSET (1..Len(s)), NEW v,
         NEW f, SomeAreWorth(f, s, places, v),
         NEW g, AreWorth(g, ElementsAt(s, places), v)
  PROVE  Total(g, 1..Len(ElementsAt(s, places))) = Total(f, 1..Len(s))
<1>0. /\ \A i \in 1..Len(s) : v[s[i]] \in Int /\ f[i] = IF i \in places THEN v[s[i]] ELSE 0
      /\ \A m \in 1..Len(ElementsAt(s, places)) : g[m] = v[ElementsAt(s, places)[m]]
  BY DEF SomeAreWorth, AreWorth
<1> DEFINE kept == ElementsAt(s, places)
           size == Cardinality(places)
<1>1. Keeps(kept, s, places) /\ Len(s) \in Nat
  BY Filtered DEF IsList
<1>2. IsList(kept) /\ Len(kept) = size /\ size \in Nat
  BY <1>1, KeptIsList DEF IsList
<1>3. PICK from :
        /\ from \in [1..size -> places]
        /\ \A l, m \in 1..size : l < m => from[l] < from[m]
        /\ \A i \in places : \E m \in 1..size : from[m] = i
        /\ \A m \in 1..size : kept[m] = s[from[m]]
  BY <1>1 DEF Keeps
<1>4. \A i, j \in 1..size : from[i] = from[j] => i = j
  <2> TAKE i \in 1..size, j \in 1..size
  <2>0. places \in SUBSET Int
    OBVIOUS
  <2>1. from[i] \in Int /\ from[j] \in Int
    BY <1>3, <2>0
  <2>2. ~(from[i] < from[j]) /\ ~(from[j] < from[i]) => ~(i < j) /\ ~(j < i)
    BY <1>3
  <2> HIDE DEF size
  <2> QED BY <1>2, <2>1, <2>2
<1>5. IsFiniteSet(places) /\ IsFiniteSet(1..size) /\ IsFiniteSet(1..Len(s))
  <2>1. IsFiniteSet(1..Len(s)) /\ IsFiniteSet(1..size)
    BY <1>1, <1>2, UpTo
  <2> QED BY <2>1, FS_Subset
<1>6. \A x \in places : f[x] \in Int
  BY <1>0
<1>7. \A m \in 1..size : g[m] = f[from[m]] /\ from[m] \in places
  BY <1>0, <1>2, <1>3
<1> HIDE DEF kept, size
<1>8. Total(g, 1..size) = Total(f, places)
  <2>1. Picks(from, 1..size, places)
    BY <1>3, <1>4, <1>7 DEF Picks
  <2>2. WholeOn(f, places) /\ Follows(g, 1..size, f, from)
    BY <1>6, <1>7 DEF WholeOn, Follows
  <2> QED BY <1>5, <2>1, <2>2, PickedTotal
<1>9. Total(f, 1..Len(s)) = Total(f, places)
  <2>1. \A x \in 1..Len(s) : f[x] \in Int
    BY <1>0
  <2>2. \A x \in (1..Len(s)) \ places : f[x] = 0
    BY <1>0
  <2> QED BY <1>5, <2>1, <2>2, TotalMasked
<1> QED BY <1>2, <1>8, <1>9 DEF kept

-----------------------------------------------------------------------------
(* What a provider answers has the money of the lines it is about.                         *)

USE HoursAssumption

\* A line of the ledger that a provider which has reported n of them answers for the key
\* of a window.
Seen(j, key, n) == j <= n /\ key[1] <= ledger.rows[j].day /\ ledger.rows[j].day <= key[2]

\* What the lines of a bill come to on a day, and those of the ledger that were seen.
DayCosts(rows, day) == [i \in 1..Len(rows) |-> IF rows[i].day = day THEN Effective(rows[i]) ELSE 0]
SeenCosts(day, key, n) ==
  [j \in 1..Len(ledger.rows) |->
     IF ledger.rows[j].day = day /\ Seen(j, key, n) THEN Effective(ledger.rows[j]) ELSE 0]

\* Of the two figures of AWS all lines have the second one or none has, of the others none has.
Bare == \A j \in 1..Len(ledger.rows) : ledger.rows[j].amortized = None
Figured(row) == IF ledger.format = "aws" THEN row.amortized = None <=> Bare ELSE row.amortized = None
Timed(row) == IF ledger.format = "gcp" THEN row.ends \in 1..HoursPerDay ELSE row.ends = None

\* A row of an answer is of the day of the lines it stands for.
OfDay(row, line) == row.day = line.day

KnownFormat == ledger.format \in {"aws", "azure", "gcp"}
IsLine(row) == IsRow(row) /\ Figured(row) /\ Timed(row)

Merged(g, r) ==
  [g EXCEPT !.cost = SumOf(@, r.cost), !.amortized = SumOf(@, r.amortized),
            !.credits = SumOf(@, r.credits), !.quantity = SumOf(@, r.quantity),
            !.ends = IF @ = None THEN r.ends ELSE Larger(@, Amount(r.ends))]

LEMMA EffectiveIsWhole ==
  ASSUME NEW row, IsRow(row), KnownFormat
  PROVE  Effective(row) \in Int
<1>1. /\ row.cost \in Int \cup {None} /\ row.amortized \in Int \cup {None} /\ row.credits \in Int \cup {None}
  BY DEF IsRow
<1>2. Amount(row.cost) \in Int /\ Amount(row.credits) \in Int /\ FirstOf(row.amortized, Amount(row.cost)) \in Int
  BY <1>1 DEF Amount, FirstOf
<1> QED BY <1>2 DEF Effective, KnownFormat

\* The query of a provider leaves a line its money and its time.
LEMMA ViewedLine ==
  ASSUME NEW row, IsRow(row), KnownFormat,
         IF ledger.format = "aws" THEN row.amortized = None <=> Bare ELSE TRUE, Timed(row)
  PROVE  /\ IsLine(View(row)) /\ OfDay(View(row), row)
         /\ Effective(View(row)) = Effective(row)
<1>0. DOMAIN row = RowFields
  BY DEF IsRow
<1>1. IsRow(View(row))
  BY ViewedRow DEF KnownFormat
<1>2. CASE ledger.format = "azure"
  <2>1. View(row) = AzureView(row)
    BY <1>2 DEF View
  <2>2. /\ AzureView(row).day = row.day /\ AzureView(row).ends = None /\ AzureView(row).cost = row.cost
        /\ AzureView(row).amortized = None
    BY <1>0 DEF AzureView, RowFields
  <2> QED BY <1>1, <1>2, <2>1, <2>2 DEF IsLine, Figured, Timed, OfDay, Effective
<1>3. CASE ledger.format = "aws"
  <2>1. View(row) = AwsView(row)
    BY <1>3 DEF View
  <2>2. /\ AwsView(row).day = row.day /\ AwsView(row).ends = None /\ AwsView(row).cost = row.cost
        /\ AwsView(row).amortized = row.amortized
    BY <1>0 DEF AwsView, RowFields
  <2> QED BY <1>1, <1>3, <2>1, <2>2 DEF IsLine, Figured, Timed, OfDay, Effective
<1>4. CASE ledger.format = "gcp"
  <2>1. View(row) = GcpView(row)
    BY <1>4 DEF View
  <2>2. /\ GcpView(row).day = row.day /\ GcpView(row).ends = row.ends /\ GcpView(row).cost = row.cost
        /\ GcpView(row).amortized = None /\ GcpView(row).credits = row.credits
    BY <1>0 DEF GcpView, RowFields
  <2> QED BY <1>1, <1>4, <2>1, <2>2 DEF IsLine, Figured, Timed, OfDay, Effective
<1> QED BY <1>2, <1>3, <1>4 DEF KnownFormat

\* Two rows of a group become one with the money of both.
LEMMA MergedLine ==
  ASSUME NEW g, IsLine(g), NEW r, IsLine(r), KnownFormat, g.day = r.day
  PROVE  /\ IsLine(Merged(g, r)) /\ GroupOf(Merged(g, r)) = GroupOf(g)
         /\ Effective(Merged(g, r)) = Effective(g) + Effective(r)
         /\ OfDay(Merged(g, r), g)
<1>0. /\ DOMAIN g = RowFields /\ DOMAIN r = RowFields /\ g.day \in Int
      /\ g.cost \in Int \union {None} /\ r.cost \in Int \union {None}
      /\ g.amortized \in Int \union {None} /\ r.amortized \in Int \union {None}
      /\ g.credits \in Int \union {None} /\ r.credits \in Int \union {None}
      /\ g.quantity \in Int \union {None} /\ r.quantity \in Int \union {None}
  BY DEF IsLine, IsRow
<1> DEFINE m == Merged(g, r)
<1>1. /\ DOMAIN m = RowFields /\ m.day = g.day
      /\ m.cost = SumOf(g.cost, r.cost) /\ m.amortized = SumOf(g.amortized, r.amortized)
      /\ m.credits = SumOf(g.credits, r.credits) /\ m.quantity = SumOf(g.quantity, r.quantity)
      /\ m.ends = IF g.ends = None THEN r.ends ELSE Larger(g.ends, Amount(r.ends))
  BY <1>0 DEF RowFields, Merged
<1>2. GroupOf(m) = GroupOf(g)
  BY <1>0 DEF RowFields, Merged, GroupOf
<1> HIDE DEF m
<1>3. None \notin Int
  BY NoneAssumption
<1>4. ASSUME NEW a \in Int \union {None}, NEW b \in Int \union {None}
      PROVE  /\ SumOf(a, b) \in Int \union {None} /\ Amount(SumOf(a, b)) = Amount(a) + Amount(b)
             /\ Amount(a) \in Int /\ Amount(b) \in Int
             /\ SumOf(a, b) = None <=> a = None /\ b = None
  BY <1>3, <1>4 DEF SumOf, Amount, FirstOf
<1>5. IsRow(m)
  <2>1. /\ SumOf(g.cost, r.cost) \in Int \union {None} /\ SumOf(g.amortized, r.amortized) \in Int \union {None}
        /\ SumOf(g.credits, r.credits) \in Int \union {None} /\ SumOf(g.quantity, r.quantity) \in Int \union {None}
    BY <1>0, <1>4
  <2> QED BY <1>0, <1>1, <2>1 DEF IsRow
<1>6. /\ m.amortized = None <=> g.amortized = None /\ r.amortized = None
      /\ Amount(m.amortized) = Amount(g.amortized) + Amount(r.amortized)
  <2> DEFINE a == g.amortized
             b == r.amortized
  <2>1. a \in Int \union {None} /\ b \in Int \union {None} /\ m.amortized = SumOf(a, b)
    BY <1>0, <1>1
  <2> HIDE DEF a, b
  <2>2. /\ SumOf(a, b) = None <=> a = None /\ b = None
        /\ Amount(SumOf(a, b)) = Amount(a) + Amount(b)
    BY <1>4, <2>1
  <2>3. m.amortized = None <=> a = None /\ b = None
    BY <2>1, <2>2
  <2>4. Amount(m.amortized) = Amount(a) + Amount(b)
    BY <2>1, <2>2
  <2> QED BY <2>3, <2>4 DEF a, b
<1>7. Figured(m)
  BY <1>6 DEF Figured, IsLine
<1>8. Timed(m) /\ m.ends \in {g.ends, r.ends}
  <2>1. CASE ledger.format = "gcp"
    <3>1. g.ends \in Int /\ r.ends \in Int /\ g.ends # None /\ r.ends # None
          /\ g.ends \in 1..HoursPerDay /\ r.ends \in 1..HoursPerDay
      BY <1>3, <2>1 DEF IsLine, Timed
    <3>2. m.ends = IF g.ends >= r.ends THEN g.ends ELSE r.ends
      BY <1>1, <3>1 DEF Larger, Amount, FirstOf
    <3> QED BY <2>1, <3>1, <3>2 DEF Timed
  <2>2. CASE ledger.format # "gcp"
    BY <1>1, <2>2 DEF IsLine, Timed
  <2> QED BY <2>1, <2>2
<1>9. Effective(m) = Effective(g) + Effective(r)
  <2>1. /\ Amount(m.cost) = Amount(g.cost) + Amount(r.cost) /\ Amount(g.cost) \in Int /\ Amount(r.cost) \in Int
        /\ Amount(m.credits) = Amount(g.credits) + Amount(r.credits)
        /\ Amount(g.credits) \in Int /\ Amount(r.credits) \in Int
    <3>1. /\ Amount(SumOf(g.cost, r.cost)) = Amount(g.cost) + Amount(r.cost)
          /\ Amount(g.cost) \in Int /\ Amount(r.cost) \in Int
      BY <1>0, <1>4
    <3>2. /\ Amount(SumOf(g.credits, r.credits)) = Amount(g.credits) + Amount(r.credits)
          /\ Amount(g.credits) \in Int /\ Amount(r.credits) \in Int
      BY <1>0, <1>4
    <3> QED BY <1>1, <3>1, <3>2
  <2>2. CASE ledger.format = "aws"
    <3>1. /\ g.amortized = None <=> Bare
          /\ r.amortized = None <=> Bare
          /\ m.amortized = None <=> Bare
      BY <1>7, <2>2 DEF IsLine, Figured
    <3>2. CASE Bare
      BY <2>1, <2>2, <3>1, <3>2 DEF Effective, FirstOf
    <3>3. CASE ~Bare
      BY <1>6, <2>1, <2>2, <3>1, <3>3 DEF Effective, FirstOf, Amount
    <3> QED BY <3>2, <3>3
  <2>3. CASE ledger.format = "azure"
    BY <2>1, <2>3 DEF Effective
  <2>4. CASE ledger.format = "gcp"
    BY <2>1, <2>4 DEF Effective
  <2> QED BY <2>2, <2>3, <2>4 DEF KnownFormat
<1>10. OfDay(m, g)
  BY <1>1 DEF OfDay
<1> QED BY <1>2, <1>5, <1>7, <1>8, <1>9, <1>10 DEF m, IsLine

-----------------------------------------------------------------------------
(* The rows of an answer, by induction over the lines a provider has reported. *)

Collected(groups, v, n) ==
  /\ IsList(groups) /\ \A i \in 1..Len(groups) : IsLine(groups[i])
  /\ \A i, j \in 1..Len(groups) : GroupOf(groups[i]) = GroupOf(groups[j]) => i = j
  /\ \A i \in 1..Len(groups) : \E m \in 1..n : OfDay(groups[i], v[m])
  /\ \A m \in 1..n : \E i \in 1..Len(groups) : OfDay(groups[i], v[m])
  /\ \A day \in Int : Total(DayCosts(groups, day), 1..Len(groups)) = Total(DayCosts(v, day), 1..n)

AreWhole(v, n) == n <= Len(v) /\ \A m \in 1..n : Effective(v[m]) \in Int

LEMMA NextTotal ==
  ASSUME NEW n \in Nat, NEW f, WholeOn(f, 1..(n + 1))
  PROVE  Total(f, 1..(n + 1)) = f[n + 1] + Total(f, 1..n) /\ Total(f, 1..n) \in Int /\ f[n + 1] \in Int
<1> DEFINE S == 1..(n + 1)
           x == n + 1
<1>1. IsFiniteSet(S) /\ IsFiniteSet(1..n)
  BY UpTo
<1>2. x \in S /\ S \ {x} = 1..n /\ \A i \in S : f[i] \in Int
  BY DEF WholeOn
<1>3. \A i \in 1..n : f[i] \in Int
  BY <1>2
<1>4. Total(f, 1..n) \in Int
  BY <1>1, <1>3, TotalWhole
<1> HIDE DEF S, x
<1>5. Total(f, S) = f[x] + Total(f, S \ {x})
  BY <1>1, <1>2, TotalStep
<1>6. f[x] \in Int
  BY <1>2
<1>7. Total(f, S) = f[x] + Total(f, 1..n)
  BY <1>2, <1>5
<1> QED BY <1>4, <1>6, <1>7 DEF S, x

LEMMA DayCostsAre ==
  ASSUME NEW v, Len(v) \in Nat, NEW n \in Nat, AreWhole(v, n), NEW day
  PROVE  /\ WholeOn(DayCosts(v, day), 1..n)
         /\ \A i \in 1..Len(v) : DayCosts(v, day)[i] = IF v[i].day = day THEN Effective(v[i]) ELSE 0
<1>1. \A i \in 1..Len(v) : DayCosts(v, day)[i] = IF v[i].day = day THEN Effective(v[i]) ELSE 0
  BY DEF DayCosts
<1>2. \A i \in 1..n : i \in 1..Len(v) /\ Effective(v[i]) \in Int
  BY DEF AreWhole
<1>3. \A i \in 1..n : DayCosts(v, day)[i] \in Int
  BY <1>1, <1>2
<1> QED BY <1>1, <1>3 DEF WholeOn

\* Of two lists that differ at one place, where one has more by d.
DiffersAt(f, e, S, k, d) == k \in S /\ f[k] = e[k] + d /\ \A x \in S \ {k} : f[x] = e[x]

LEMMA TotalRaised ==
  ASSUME NEW S, IsFiniteSet(S), NEW f, WholeOn(f, S), NEW e, WholeOn(e, S), NEW d \in Int,
         NEW k, DiffersAt(f, e, S, k, d)
  PROVE  Total(f, S) = d + Total(e, S)
<1>0. /\ k \in S /\ f[k] = e[k] + d /\ \A x \in S \ {k} : f[x] = e[x]
      /\ \A x \in S : f[x] \in Int
      /\ \A x \in S : e[x] \in Int
  BY DEF DiffersAt, WholeOn
<1> DEFINE R == S \ {k}
<1>1. IsFiniteSet(R) /\ \A x \in R : f[x] = e[x]
  BY <1>0, FS_Subset
<1>2. \A x \in R : e[x] \in Int
  BY <1>0
<1> HIDE DEF R
<1>3. Total(f, R) = Total(e, R)
  BY <1>1, TotalSame
<1>4. Total(e, R) \in Int
  BY <1>1, <1>2, TotalWhole
<1>5. Total(f, S) = f[k] + Total(f, S \ {k})
  BY <1>0, TotalStep
<1>6. Total(e, S) = e[k] + Total(e, S \ {k})
  BY <1>0, TotalStep
<1>7. f[k] \in Int /\ e[k] \in Int /\ f[k] = e[k] + d
  BY <1>0
<1> QED BY <1>3, <1>4, <1>5, <1>6, <1>7 DEF R

LEMMA SameGroup ==
  ASSUME NEW g, IsRow(g), NEW r, IsRow(r), GroupOf(g) = GroupOf(r)
  PROVE  g.day = r.day
<1>1. DOMAIN g = RowFields /\ DOMAIN r = RowFields
  BY DEF IsRow
<1>2. GroupOf(g).day = g.day /\ GroupOf(r).day = r.day
  BY <1>1 DEF GroupOf, RowFields
<1> QED BY <1>2

LEMMA OpensGroup ==
  ASSUME NEW groups, NEW v, Len(v) \in Nat, NEW n \in Nat, AreWhole(v, n + 1), Collected(groups, v, n),
         KnownFormat, NEW r, IsLine(r), OfDay(r, v[n + 1]), Effective(r) = Effective(v[n + 1]),
         \A i \in 1..Len(groups) : GroupOf(groups[i]) # GroupOf(r)
  PROVE  Collected(Append(groups, r), v, n + 1)
<1> DEFINE N == Len(groups)
           more == Append(groups, r)
<1>0. /\ IsList(groups) /\ N \in Nat /\ \A i \in 1..N : IsLine(groups[i])
      /\ \A i, j \in 1..N : GroupOf(groups[i]) = GroupOf(groups[j]) => i = j
      /\ \A i \in 1..N : \E m \in 1..n : OfDay(groups[i], v[m])
      /\ \A m \in 1..n : \E i \in 1..N : OfDay(groups[i], v[m])
  BY DEF Collected, IsList
<1>1. /\ IsList(more) /\ Len(more) = N + 1 /\ more[N + 1] = r /\ \A i \in 1..N : more[i] = groups[i]
  BY <1>0, Appended
<1>2. /\ \A i \in 1..(N + 1) : i \in 1..N \/ i = N + 1
      /\ \A m \in 1..(n + 1) : m \in 1..n \/ m = n + 1
      /\ 1..n \subseteq 1..(n + 1) /\ 1..N \subseteq 1..(N + 1) /\ n + 1 \in 1..(n + 1) /\ N + 1 \in 1..(N + 1)
  BY <1>0
<1> HIDE DEF N, more
<1>3. \A i \in 1..(N + 1) : IsLine(more[i])
  BY <1>0, <1>1, <1>2
<1>4. \A i, j \in 1..(N + 1) : GroupOf(more[i]) = GroupOf(more[j]) => i = j
  <2> SUFFICES ASSUME NEW i \in 1..(N + 1), NEW j \in 1..(N + 1), GroupOf(more[i]) = GroupOf(more[j])
               PROVE  i = j
    OBVIOUS
  <2>1. \A l \in 1..N : GroupOf(more[l]) # GroupOf(r)
    BY <1>1 DEF N
  <2> QED BY <1>0, <1>1, <1>2, <2>1
<1>5. \A i \in 1..(N + 1) : \E m \in 1..(n + 1) : OfDay(more[i], v[m])
  <2> TAKE i \in 1..(N + 1)
  <2>1. CASE i = N + 1
    BY <1>1, <1>2, <2>1
  <2>2. CASE i \in 1..N
    <3>1. PICK m \in 1..n : OfDay(groups[i], v[m])
      BY <1>0, <2>2
    <3> QED BY <1>1, <1>2, <2>2, <3>1
  <2> QED BY <1>2, <2>1, <2>2
<1>6. \A m \in 1..(n + 1) : \E i \in 1..(N + 1) : OfDay(more[i], v[m])
  <2> TAKE m \in 1..(n + 1)
  <2>1. CASE m = n + 1
    BY <1>1, <1>2, <2>1
  <2>2. CASE m \in 1..n
    <3>1. PICK i \in 1..N : OfDay(groups[i], v[m])
      BY <1>0, <2>2
    <3> QED BY <1>1, <1>2, <2>2, <3>1
  <2> QED BY <1>2, <2>1, <2>2
<1>7. ASSUME NEW day \in Int
      PROVE  Total(DayCosts(more, day), 1..(N + 1)) = Total(DayCosts(v, day), 1..(n + 1))
  <2> DEFINE f == DayCosts(more, day)
             e == DayCosts(groups, day)
             u == DayCosts(v, day)
  <2>1. AreWhole(more, N + 1)
    <3>1. \A i \in 1..(N + 1) : Effective(more[i]) \in Int
      BY <1>3, EffectiveIsWhole DEF IsLine
    <3> QED BY <1>0, <1>1, <3>1 DEF AreWhole
  <2>2. /\ WholeOn(f, 1..(N + 1))
        /\ \A i \in 1..(N + 1) : f[i] = IF more[i].day = day THEN Effective(more[i]) ELSE 0
    <3>1. Len(more) = N + 1 /\ Len(more) \in Nat /\ N + 1 \in Nat
      BY <1>0, <1>1
    <3> HIDE DEF f
    <3>2. /\ WholeOn(DayCosts(more, day), 1..(N + 1))
          /\ \A i \in 1..Len(more) : DayCosts(more, day)[i] = IF more[i].day = day THEN Effective(more[i]) ELSE 0
      BY <2>1, <3>1, DayCostsAre
    <3> QED BY <3>1, <3>2 DEF f
  <2>3. /\ WholeOn(u, 1..(n + 1))
        /\ u[n + 1] = IF v[n + 1].day = day THEN Effective(v[n + 1]) ELSE 0
    <3>1. /\ WholeOn(DayCosts(v, day), 1..(n + 1))
          /\ \A i \in 1..Len(v) : DayCosts(v, day)[i] = IF v[i].day = day THEN Effective(v[i]) ELSE 0
      BY DayCostsAre
    <3>2. n + 1 \in 1..Len(v)
      BY DEF AreWhole
    <3> QED BY <3>1, <3>2
  <2>4. \A i \in 1..N : e[i] = f[i]
    BY <1>1, <1>2, <2>2 DEF DayCosts, N
  <2>5. f[N + 1] = u[n + 1]
    BY <1>1, <1>2, <2>2, <2>3 DEF OfDay
  <2>6. Total(e, 1..N) = Total(u, 1..n)
    BY DEF Collected, N
  <2> HIDE DEF f, e, u
  <2>7. Total(f, 1..(N + 1)) = f[N + 1] + Total(f, 1..N)
    BY <1>0, <2>2, NextTotal
  <2>8. Total(u, 1..(n + 1)) = u[n + 1] + Total(u, 1..n)
    BY <2>3, NextTotal
  <2>9. Total(e, 1..N) = Total(f, 1..N)
    BY <1>0, <2>4, UpTo, TotalSame
  <2>10. Total(f, 1..(N + 1)) = Total(u, 1..(n + 1))
    BY <2>5, <2>6, <2>7, <2>8, <2>9
  <2> QED BY <2>10 DEF f, u
<1>8. Collected(more, v, n + 1)
  BY <1>1, <1>3, <1>4, <1>5, <1>6, <1>7 DEF Collected
<1> QED BY <1>8 DEF more

Joins(more, groups, k, r) ==
  more = [i \in 1..Len(groups) |-> IF i # k THEN groups[i] ELSE Merged(groups[k], r)]

LEMMA JoinsGroup ==
  ASSUME NEW groups, NEW v, Len(v) \in Nat, NEW n \in Nat, AreWhole(v, n + 1), Collected(groups, v, n),
         KnownFormat, NEW r, IsLine(r), OfDay(r, v[n + 1]), Effective(r) = Effective(v[n + 1]),
         NEW k \in 1..Len(groups), GroupOf(groups[k]) = GroupOf(r),
         NEW more, Joins(more, groups, k, r)
  PROVE  Collected(more, v, n + 1)
<1> DEFINE N == Len(groups)
           g == groups[k]
           h == Merged(groups[k], r)
<1>0. /\ IsList(groups) /\ N \in Nat /\ \A i \in 1..N : IsLine(groups[i])
      /\ \A i, j \in 1..N : GroupOf(groups[i]) = GroupOf(groups[j]) => i = j
      /\ \A i \in 1..N : \E m \in 1..n : OfDay(groups[i], v[m])
      /\ \A m \in 1..n : \E i \in 1..N : OfDay(groups[i], v[m])
  BY DEF Collected, IsList
<1>1. IsList(more) /\ Len(more) = N
  BY <1>0, ListOf DEF Joins
<1>2. /\ k \in 1..N /\ more[k] = h /\ \A i \in 1..N : i # k => more[i] = groups[i]
      /\ \A m \in 1..(n + 1) : m \in 1..n \/ m = n + 1
      /\ 1..n \subseteq 1..(n + 1) /\ n + 1 \in 1..(n + 1)
  BY DEF Joins
<1>3. g.day = r.day /\ IsLine(g)
  <2>1. IsLine(g)
    BY <1>0
  <2> QED BY <2>1, SameGroup DEF IsLine
<1>4. /\ IsLine(h) /\ GroupOf(h) = GroupOf(g)
      /\ Effective(h) = Effective(g) + Effective(r)
      /\ OfDay(h, g)
  <2> HIDE DEF g
  <2>1. /\ IsLine(Merged(g, r)) /\ GroupOf(Merged(g, r)) = GroupOf(g)
        /\ Effective(Merged(g, r)) = Effective(g) + Effective(r)
        /\ OfDay(Merged(g, r), g)
    BY <1>3, MergedLine
  <2> QED BY <2>1 DEF g
<1>5. groups[k] = g
  OBVIOUS
<1> HIDE DEF N, g, h
<1>6. \A i \in 1..N : IsLine(more[i])
  BY <1>0, <1>2, <1>4
<1>7. \A i, j \in 1..N : GroupOf(more[i]) = GroupOf(more[j]) => i = j
  <2>1. \A i \in 1..N : GroupOf(more[i]) = GroupOf(groups[i])
    BY <1>2, <1>4, <1>5
  <2> QED BY <1>0, <2>1
<1>8. \A i \in 1..N : \E m \in 1..(n + 1) : OfDay(more[i], v[m])
  <2> TAKE i \in 1..N
  <2>1. PICK m \in 1..n : OfDay(groups[i], v[m])
    BY <1>0
  <2>2. CASE i # k
    BY <1>2, <2>1, <2>2
  <2>3. CASE i = k
    <3>1. OfDay(h, v[m])
      BY <1>4, <1>5, <2>1, <2>3 DEF OfDay
    <3> QED BY <1>2, <2>3, <3>1
  <2> QED BY <2>2, <2>3
<1>9. OfDay(h, v[n + 1])
  BY <1>3, <1>4 DEF OfDay
<1>10. \A m \in 1..(n + 1) : \E i \in 1..N : OfDay(more[i], v[m])
  <2> TAKE m \in 1..(n + 1)
  <2>1. CASE m = n + 1
    BY <1>2, <1>9, <2>1
  <2>2. CASE m \in 1..n
    <3>1. PICK i \in 1..N : OfDay(groups[i], v[m])
      BY <1>0, <2>2
    <3>2. CASE i # k
      BY <1>2, <3>1, <3>2
    <3>3. CASE i = k
      <4>1. OfDay(h, v[m])
        BY <1>4, <1>5, <3>1, <3>3 DEF OfDay
      <4> QED BY <1>2, <4>1
    <3> QED BY <3>2, <3>3
  <2> QED BY <1>2, <2>1, <2>2
<1>11. ASSUME NEW day \in Int
       PROVE  Total(DayCosts(more, day), 1..N) = Total(DayCosts(v, day), 1..(n + 1))
  <2> DEFINE f == DayCosts(more, day)
             e == DayCosts(groups, day)
             u == DayCosts(v, day)
  <2>1. /\ WholeOn(f, 1..N)
        /\ \A i \in 1..N : f[i] = IF more[i].day = day THEN Effective(more[i]) ELSE 0
    <3>1. AreWhole(more, N)
      <4>1. \A i \in 1..N : Effective(more[i]) \in Int
        BY <1>6, EffectiveIsWhole DEF IsLine
      <4> QED BY <1>0, <1>1, <4>1 DEF AreWhole
    <3> HIDE DEF f
    <3>2. /\ WholeOn(DayCosts(more, day), 1..N)
          /\ \A i \in 1..Len(more) : DayCosts(more, day)[i] = IF more[i].day = day THEN Effective(more[i]) ELSE 0
      <4>1. Len(more) \in Nat /\ N \in Nat
        BY <1>0, <1>1
      <4> QED BY <3>1, <4>1, DayCostsAre
    <3> QED BY <1>1, <3>2 DEF f
  <2>2. /\ WholeOn(e, 1..N)
        /\ \A i \in 1..N : e[i] = IF groups[i].day = day THEN Effective(groups[i]) ELSE 0
    <3>1. AreWhole(groups, N)
      <4>1. \A i \in 1..N : Effective(groups[i]) \in Int
        BY <1>0, EffectiveIsWhole DEF IsLine
      <4> QED BY <1>0, <4>1 DEF AreWhole, N
    <3> HIDE DEF e
    <3>2. /\ WholeOn(DayCosts(groups, day), 1..N)
          /\ \A i \in 1..Len(groups) : DayCosts(groups, day)[i] = IF groups[i].day = day THEN Effective(groups[i]) ELSE 0
      BY <1>0, <3>1, DayCostsAre DEF N
    <3> QED BY <3>2 DEF e, N
  <2>3. /\ WholeOn(u, 1..(n + 1))
        /\ u[n + 1] = IF v[n + 1].day = day THEN Effective(v[n + 1]) ELSE 0
    <3>1. /\ WholeOn(DayCosts(v, day), 1..(n + 1))
          /\ \A i \in 1..Len(v) : DayCosts(v, day)[i] = IF v[i].day = day THEN Effective(v[i]) ELSE 0
      BY DayCostsAre
    <3>2. n + 1 \in 1..Len(v)
      BY DEF AreWhole
    <3> QED BY <3>1, <3>2
  <2>4. Total(e, 1..N) = Total(u, 1..n)
    BY DEF Collected, N
  <2> HIDE DEF f, e, u
  <2>5. Total(u, 1..(n + 1)) = u[n + 1] + Total(u, 1..n) /\ u[n + 1] \in Int
    BY <2>3, NextTotal
  <2>6. DiffersAt(f, e, 1..N, k, u[n + 1])
    <3>1. \A x \in (1..N) \ {k} : f[x] = e[x]
      BY <1>2, <2>1, <2>2
    <3>2. f[k] = e[k] + u[n + 1]
      <4>1. h.day = g.day
        BY <1>4 DEF OfDay
      <4>2. f[k] = IF g.day = day THEN Effective(h) ELSE 0
        BY <1>2, <2>1, <4>1
      <4>3. e[k] = IF g.day = day THEN Effective(g) ELSE 0
        BY <1>2, <1>5, <2>2
      <4>4. u[n + 1] = IF g.day = day THEN Effective(r) ELSE 0
        BY <1>3, <2>3 DEF OfDay
      <4> QED BY <1>4, <4>2, <4>3, <4>4
    <3> QED BY <1>2, <3>1, <3>2 DEF DiffersAt
  <2>7. Total(f, 1..N) = u[n + 1] + Total(e, 1..N)
    BY <1>0, <2>1, <2>2, <2>5, <2>6, UpTo, TotalRaised
  <2>8. Total(f, 1..N) = Total(u, 1..(n + 1))
    BY <2>4, <2>5, <2>7
  <2> QED BY <2>8 DEF f, u
<1> QED BY <1>1, <1>6, <1>7, <1>8, <1>10, <1>11 DEF Collected

LEMMA RowCollected ==
  ASSUME NEW groups, NEW v, Len(v) \in Nat, NEW n \in Nat, AreWhole(v, n + 1), Collected(groups, v, n),
         KnownFormat, NEW r, IsLine(r), OfDay(r, v[n + 1]), Effective(r) = Effective(v[n + 1])
  PROVE  Collected(AddToGroup(groups, r), v, n + 1)
<1> DEFINE at == {i \in 1..Len(groups) : GroupOf(groups[i]) = GroupOf(r)}
           added == [i \in 1..Len(groups) |-> IF i \notin at THEN groups[i] ELSE Merged(groups[i], r)]
<1>1. AddToGroup(groups, r) = IF at = {} THEN Append(groups, r) ELSE added
  BY DEF AddToGroup, Merged
<1>2. CASE at = {}
  <2>1. \A i \in 1..Len(groups) : GroupOf(groups[i]) # GroupOf(r)
    BY <1>2
  <2> HIDE DEF at
  <2> QED BY <1>1, <1>2, <2>1, OpensGroup
<1>3. CASE at # {}
  <2>1. PICK k \in 1..Len(groups) : GroupOf(groups[k]) = GroupOf(r)
    BY <1>3
  <2>2. \A i, j \in 1..Len(groups) : GroupOf(groups[i]) = GroupOf(groups[j]) => i = j
    BY DEF Collected
  <2>3. \A i \in 1..Len(groups) : i \in at <=> i = k
    BY <2>1, <2>2
  <2> HIDE DEF at
  <2>4. Joins(added, groups, k, r)
    BY <2>3 DEF Joins
  <2> HIDE DEF added
  <2>5. Collected(added, v, n + 1)
    BY <2>1, <2>4, JoinsGroup
  <2> QED BY <1>1, <1>3, <2>5
<1> QED BY <1>2, <1>3

\* The lines of a bill as the provider has them.
IsSource(row) ==
  IsRow(row) /\ Timed(row) /\ (IF ledger.format = "aws" THEN row.amortized = None <=> Bare ELSE TRUE)
AreSources(v) == IsList(v) /\ \A i \in 1..Len(v) : IsSource(v[i])

LEMMA RowsCollected ==
  ASSUME NEW v, AreSources(v), KnownFormat
  PROVE  Collected(GroupsOf(v), v, Len(v))
<1> DEFINE N == Len(v)
<1>0. N \in Nat /\ IsLedger(v) /\ \A i \in 1..N : IsSource(v[i]) /\ IsRow(v[i])
  BY DEF AreSources, IsSource, IsLedger, IsList
<1>1. PICK after : Takes(after, v) /\ GroupsOf(v) = after[N]
  BY <1>0, RowsTaken
<1>2. /\ after[0] = <<>>
      /\ \A n \in 1..N : after[n] = AddToGroup(after[n - 1], View(v[n]))
  BY <1>1 DEF Takes
<1>3. \A i \in 1..N : Effective(v[i]) \in Int
  BY <1>0, EffectiveIsWhole
<1>4. ASSUME NEW n \in Nat, n <= N PROVE AreWhole(v, n)
  <2>1. \A i \in 1..n : i \in 1..N
    BY <1>0, <1>4
  <2> QED BY <1>3, <1>4, <2>1 DEF AreWhole
<1> DEFINE Q == {n \in Nat : n <= N => Collected(after[n], v, n)}
<1>5. 0 \in Q
  <2> DEFINE e == <<>>
  <2>1. IsList(e) /\ Len(e) = 0 /\ 1..0 = {}
    BY DEF IsList
  <2> HIDE DEF e
  <2>2. ASSUME NEW day \in Int PROVE Total(DayCosts(e, day), 1..Len(e)) = Total(DayCosts(v, day), 1..0)
    <3>1. Total(DayCosts(e, day), {}) = 0
      BY TotalNone
    <3>2. Total(DayCosts(v, day), {}) = 0
      BY TotalNone
    <3> QED BY <2>1, <3>1, <3>2
  <2>3. Collected(e, v, 0)
    BY <2>1, <2>2 DEF Collected
  <2> QED BY <1>2, <2>3 DEF e
<1>6. ASSUME NEW n \in Q PROVE n + 1 \in Q
  <2> SUFFICES ASSUME n + 1 <= N PROVE Collected(after[n + 1], v, n + 1)
    OBVIOUS
  <2>1. n + 1 \in 1..N /\ (n + 1) - 1 = n /\ Collected(after[n], v, n) /\ n + 1 \in Nat
    BY <1>0
  <2>2. after[n + 1] = AddToGroup(after[n], View(v[n + 1]))
    BY <1>2, <2>1
  <2> DEFINE r == View(v[n + 1])
  <2>3. IsLine(r) /\ OfDay(r, v[n + 1]) /\ Effective(r) = Effective(v[n + 1])
    <3>1. IsSource(v[n + 1])
      BY <1>0, <2>1
    <3> QED BY <3>1, ViewedLine DEF IsSource
  <2>4. AreWhole(v, n + 1)
    BY <1>4, <2>1
  <2> HIDE DEF r, Q, N
  <2>5. Collected(AddToGroup(after[n], r), v, n + 1)
    <3>1. n \in Nat /\ Len(v) \in Nat
      BY <1>0 DEF N, Q
    <3> QED BY <2>1, <2>3, <2>4, <3>1, RowCollected
  <2> QED BY <2>2, <2>5 DEF r
<1>7. Q = Nat
  <2> HIDE DEF Q
  <2>1. Q \in SUBSET Nat
    BY DEF Q
  <2> QED BY <1>5, <1>6, <2>1, EveryNatural
<1> QED BY <1>0, <1>1, <1>7

-----------------------------------------------------------------------------
(* The response to a window: the lines of it that a provider has reported. *)

CameAt(rows, key, n) ==
  /\ IsList(rows) /\ \A i \in 1..Len(rows) : IsLine(rows[i])
  /\ \A i \in 1..Len(rows) : \E j \in 1..Len(ledger.rows) : Seen(j, key, n) /\ OfDay(rows[i], ledger.rows[j])
  /\ \A j \in 1..Len(ledger.rows) : Seen(j, key, n) => \E i \in 1..Len(rows) : OfDay(rows[i], ledger.rows[j])
  /\ \A day \in Int :
       Total(DayCosts(rows, day), 1..Len(rows)) = Total(SeenCosts(day, key, n), 1..Len(ledger.rows))

\* What the rows of a list come to on a day, as a function of the row.
WorthOn(s, day) == [row \in {s[i] : i \in 1..Len(s)} |-> IF row.day = day THEN Effective(row) ELSE 0]

LEMMA QueryCame ==
  ASSUME AreSources(ledger.rows), KnownFormat, NEW window
  PROVE  CameAt(Query(window), CacheKey(window), reported)
<1> DEFINE rows == ledger.rows
           N == Len(rows)
           key == CacheKey(window)
           places == Visible(window)
           v == ElementsAt(rows, places)
           groups == Query(window)
<1>0. /\ IsList(rows) /\ N \in Nat
      /\ \A i \in 1..N : IsSource(rows[i]) /\ IsRow(rows[i])
  BY DEF AreSources, IsSource, IsList
<1>1. groups = GroupsOf(v)
  BY DEF Query, GroupsOf
<1>2. \A i \in 1..N : i \in places <=> Seen(i, key, reported)
  BY DEF Visible, Seen, CacheKey, PeriodContains
<1>3. places \in SUBSET (1..N)
  BY DEF Visible
<1> HIDE DEF places, N, rows, key, groups
<1>4. /\ IsList(v) /\ \A m \in 1..Len(v) : \E i \in places : v[m] = rows[i]
  BY <1>0, <1>3, KeptList DEF N
<1>5. AreSources(v)
  <2> HIDE DEF v
  <2>1. \A m \in 1..Len(v) : IsSource(v[m])
    BY <1>0, <1>3, <1>4
  <2> QED BY <1>4, <2>1 DEF AreSources
<1>6. \A i \in places : \E m \in 1..Len(v) : v[m] = rows[i]
  <2>1. Keeps(v, rows, places)
    BY <1>0, <1>3, Filtered
  <2>2. DOMAIN v = 1..Len(v)
    BY <2>1, KeptIsList DEF Keeps
  <2> HIDE DEF v
  <2> QED BY <2>1, <2>2, KeptPlace
<1>7. ASSUME NEW day \in Int
      PROVE  Total(DayCosts(v, day), 1..Len(v)) = Total(SeenCosts(day, key, reported), 1..N)
  <2> DEFINE w == WorthOn(rows, day)
             f == SeenCosts(day, key, reported)
             g == DayCosts(v, day)
  <2>1. \A i \in 1..N : w[rows[i]] = IF rows[i].day = day THEN Effective(rows[i]) ELSE 0
    BY DEF WorthOn, N
  <2>2. \A i \in 1..N : Effective(rows[i]) \in Int
    BY <1>0, EffectiveIsWhole
  <2>3. \A i \in 1..N : w[rows[i]] \in Int
    BY <2>1, <2>2
  <2>4. \A i \in 1..N : f[i] = IF i \in places THEN w[rows[i]] ELSE 0
    <3> TAKE i \in 1..N
    <3>1. f[i] = IF rows[i].day = day /\ Seen(i, key, reported) THEN Effective(rows[i]) ELSE 0
      BY DEF SeenCosts, rows, N
    <3> HIDE DEF f, w
    <3> QED BY <1>2, <2>1, <3>1
  <2> HIDE DEF f, w
  <2>5. SomeAreWorth(f, rows, places, w)
    BY <2>3, <2>4 DEF SomeAreWorth, N
  <2>6. AreWorth(g, ElementsAt(rows, places), w)
    <3>1. \A m \in 1..Len(v) : g[m] = IF v[m].day = day THEN Effective(v[m]) ELSE 0
      BY DEF DayCosts
    <3> HIDE DEF g, v
    <3>2. \A m \in 1..Len(v) : w[v[m]] \in Int /\ g[m] = w[v[m]]
      <4> TAKE m \in 1..Len(v)
      <4>1. PICK i \in places : v[m] = rows[i]
        BY <1>4
      <4>2. i \in 1..N
        BY <1>3
      <4> QED BY <2>1, <2>3, <3>1, <4>1, <4>2
    <3>3. AreWorth(g, v, w)
      BY <3>2 DEF AreWorth
    <3> QED BY <3>3 DEF v
  <2> HIDE DEF g
  <2>7. Total(g, 1..Len(ElementsAt(rows, places))) = Total(f, 1..Len(rows))
    BY <1>0, <1>3, <2>5, <2>6, KeptTotal DEF N
  <2> QED BY <2>7 DEF f, g, N
<1> HIDE DEF v
<1>8. Collected(groups, v, Len(v))
  BY <1>1, <1>5, RowsCollected
<1>9. \A i \in 1..Len(groups) : \E j \in 1..N : Seen(j, key, reported) /\ OfDay(groups[i], rows[j])
  <2> TAKE i \in 1..Len(groups)
  <2>1. PICK m \in 1..Len(v) : OfDay(groups[i], v[m])
    BY <1>8 DEF Collected
  <2>2. PICK j \in places : v[m] = rows[j]
    BY <1>4
  <2> QED BY <1>2, <1>3, <2>1, <2>2
<1>10. \A j \in 1..N : Seen(j, key, reported) => \E i \in 1..Len(groups) : OfDay(groups[i], rows[j])
  <2> SUFFICES ASSUME NEW j \in 1..N, Seen(j, key, reported)
               PROVE  \E i \in 1..Len(groups) : OfDay(groups[i], rows[j])
    OBVIOUS
  <2>1. PICK m \in 1..Len(v) : v[m] = rows[j]
    BY <1>2, <1>6
  <2> QED BY <1>8, <2>1 DEF Collected
<1>11. CameAt(groups, key, reported)
  <2>1. \A day \in Int : Total(DayCosts(groups, day), 1..Len(groups)) = Total(SeenCosts(day, key, reported), 1..N)
    BY <1>7, <1>8 DEF Collected
  <2> QED BY <1>8, <1>9, <1>10, <2>1 DEF CameAt, Collected, rows, N
<1> QED BY <1>11 DEF groups, key

-----------------------------------------------------------------------------
(* Days and the instants at their ends. *)

LEMMA DaysEndInOrder ==
  ASSUME NEW a \in Int, NEW b \in Int
  PROVE  /\ a * HoursPerDay \in Int
         /\ EndOfDay(a) \in Int /\ EndOfDay(a - 1) = a * HoursPerDay /\ EndOfDay(a) = a * HoursPerDay + HoursPerDay
         /\ a <= b => EndOfDay(a) <= EndOfDay(b)
         /\ a < b => EndOfDay(a) <= b * HoursPerDay
<1> DEFINE H == HoursPerDay
<1>1. H \in Int /\ H > 0
  OBVIOUS
<1> HIDE DEF H
<1>2. a * H \in Int /\ (a + 1) * H \in Int /\ (a - 1 + 1) * H = a * H /\ (a + 1) * H = a * H + H
  BY <1>1
<1>3. ASSUME NEW x \in Int, NEW y \in Int, x <= y PROVE x * H <= y * H
  <2> DEFINE k == y - x
  <2>1. k \in Nat /\ y = x + k
    BY <1>3
  <2> HIDE DEF k
  <2>2. y * H = x * H + k * H /\ k * H \in Int /\ x * H \in Int
    BY <1>1, <2>1
  <2>3. k * H >= 0
    BY <1>1, <2>1
  <2> QED BY <2>2, <2>3
<1>4. a <= b => (a + 1) * H <= (b + 1) * H
  BY <1>3
<1>5. a < b => (a + 1) * H <= b * H
  BY <1>3
<1> QED BY <1>2, <1>4, <1>5 DEF EndOfDay, H

LEMMA DayOfIs ==
  ASSUME NEW t \in Int
  PROVE  /\ DayOf(t) \in Int /\ DayOf(t) * HoursPerDay < t /\ t <= EndOfDay(DayOf(t))
<1> DEFINE H == HoursPerDay
           q == (t - 1) \div H
           r == (t - 1) % H
<1>1. H \in Nat /\ H > 0
  OBVIOUS
<1> HIDE DEF H
<1>2. q \in Int /\ r \in Int /\ t - 1 = H * q + r /\ 0 <= r /\ r < H
  BY <1>1
<1>3. DayOf(t) = q
  BY DEF DayOf, H
<1> HIDE DEF q, r
<1>4. H * q = q * H /\ q * H \in Int /\ (q + 1) * H = q * H + H
  BY <1>1, <1>2
<1>5. q * H < t /\ t <= (q + 1) * H
  BY <1>1, <1>2, <1>4
<1> QED BY <1>2, <1>3, <1>5 DEF EndOfDay, H

LEMMA DayOfOnly ==
  ASSUME NEW t \in Int, NEW d \in Int, d * HoursPerDay < t, t <= EndOfDay(d)
  PROVE  DayOf(t) = d
<1> DEFINE q == DayOf(t)
<1>1. q \in Int /\ q * HoursPerDay < t /\ t <= EndOfDay(q)
  BY DayOfIs
<1> HIDE DEF q
<1>2. q * HoursPerDay \in Int /\ d * HoursPerDay \in Int /\ EndOfDay(q) \in Int /\ EndOfDay(d) \in Int
  BY <1>1, DaysEndInOrder
<1>3. q < d => EndOfDay(q) <= d * HoursPerDay
  BY <1>1, DaysEndInOrder
<1>4. d < q => EndOfDay(d) <= q * HoursPerDay
  BY <1>1, DaysEndInOrder
<1>5. ~(q < d) /\ ~(d < q)
  BY <1>1, <1>2, <1>3, <1>4
<1> QED BY <1>1, <1>5 DEF q

LEMMA HasLargest ==
  ASSUME NEW S, IsFiniteSet(S), S \in SUBSET Int, S # {}
  PROVE  Largest(S) \in S /\ \A y \in S : y <= Largest(S)
<1> DEFINE Q == {n \in Nat : \A T \in SUBSET S : Cardinality(T) = n + 1 => \E x \in T : \A y \in T : y <= x}
<1>1. 0 \in Q
  <2> SUFFICES ASSUME NEW T \in SUBSET S, Cardinality(T) = 1 PROVE \E x \in T : \A y \in T : y <= x
    OBVIOUS
  <2>1. PICK x : T = {x}
    BY FS_Subset, FS_Singleton
  <2>2. x \in Int
    BY <2>1
  <2> QED BY <2>1, <2>2
<1>2. ASSUME NEW n \in Q PROVE n + 1 \in Q
  <2> SUFFICES ASSUME NEW T \in SUBSET S, Cardinality(T) = n + 1 + 1 PROVE \E x \in T : \A y \in T : y <= x
    OBVIOUS
  <2>0. n \in Nat /\ IsFiniteSet(T)
    BY FS_Subset
  <2>1. T # {}
    BY <2>0, FS_EmptySet
  <2>2. PICK t : t \in T
    BY <2>1
  <2> DEFINE R == T \ {t}
  <2>3. Cardinality(R) = n + 1
    <3>1. Cardinality(R) = Cardinality(T) - 1
      BY <2>0, <2>2, FS_RemoveElement
    <3> QED BY <2>0, <3>1
  <2>4. R \in SUBSET S
    OBVIOUS
  <2>5. PICK x \in R : \A y \in R : y <= x
    BY <2>3, <2>4
  <2>6. x \in Int /\ t \in Int /\ x \in T /\ \A y \in T : y = t \/ y \in R
    BY <2>2, <2>5
  <2>7. CASE t <= x
    BY <2>5, <2>6, <2>7
  <2>8. CASE x <= t
    <3>1. \A y \in R : y \in Int
      BY <2>4
    <3>2. \A y \in T : y <= t
      BY <2>5, <2>6, <2>8, <3>1
    <3> QED BY <2>2, <3>2
  <2> QED BY <2>6, <2>7, <2>8
<1>3. Q = Nat
  <2> HIDE DEF Q
  <2>1. Q \in SUBSET Nat
    BY DEF Q
  <2> QED BY <1>1, <1>2, <2>1, EveryNatural
<1>4. PICK n \in Nat : Cardinality(S) = n + 1
  <2>1. Cardinality(S) \in Nat /\ Cardinality(S) # 0
    BY FS_CardinalityType, FS_EmptySet
  <2> QED
    <3>1. Cardinality(S) - 1 \in Nat /\ Cardinality(S) = (Cardinality(S) - 1) + 1
      BY <2>1
    <3> QED BY <3>1
<1>5. \E x \in S : \A y \in S : y <= x
  <2>1. n \in Q
    BY <1>3
  <2> QED BY <1>4, <2>1
<1> QED BY <1>5 DEF Largest

LEMMA ImageIsFinite ==
  ASSUME NEW S, IsFiniteSet(S), NEW f
  PROVE  IsFiniteSet({f[x] : x \in S})
<1> DEFINE T == {f[x] : x \in S}
           g == [x \in S |-> f[x]]
<1>1. g \in Surjection(S, T)
  BY DEF Surjection
<1> QED BY <1>1, FS_Surjection

LEMMA HasSmallest ==
  ASSUME NEW S, IsFiniteSet(S), S \in SUBSET Int, S # {}
  PROVE  Smallest(S) \in S /\ \A y \in S : Smallest(S) <= y
<1> DEFINE minus == [x \in S |-> 0 - x]
           R == {minus[x] : x \in S}
<1>1. \A x \in S : x \in Int
  OBVIOUS
<1>2. R \in SUBSET Int /\ R # {} /\ IsFiniteSet(R)
  <2>1. IsFiniteSet(R)
    <3> HIDE DEF minus
    <3> QED BY ImageIsFinite
  <2>2. \A x \in S : minus[x] \in Int
    BY <1>1
  <2>3. R # {} /\ R \in SUBSET Int
    <3> HIDE DEF minus
    <3> QED BY <2>2
  <2> QED BY <2>1, <2>3
<1> HIDE DEF R
<1>3. Largest(R) \in R /\ \A y \in R : y <= Largest(R)
  BY <1>2, HasLargest
<1>4. PICK x \in S : Largest(R) = 0 - x
  BY <1>3 DEF R
<1>5. \A y \in S : x <= y
  <2> TAKE y \in S
  <2>1. 0 - y \in R
    BY DEF R
  <2>2. 0 - y <= 0 - x
    BY <1>3, <1>4, <2>1
  <2> QED BY <1>1, <2>2
<1>6. \E z \in S : \A y \in S : z <= y
  BY <1>5
<1> QED BY <1>6 DEF Smallest

-----------------------------------------------------------------------------
(* Up to where an answer reaches. *)

\* When the usage of a row of BigQuery was over.
LEMMA EndsInItsDay ==
  ASSUME NEW row, IsRow(row), Timed(row), ledger.format = "gcp"
  PROVE  LET end == row.day * HoursPerDay + row.ends
         IN  /\ row.day \in Int /\ row.ends \in Int /\ row.ends # None /\ end \in Int
             /\ row.day * HoursPerDay < end /\ end <= EndOfDay(row.day)
<1> DEFINE D == row.day * HoursPerDay
<1>1. row.day \in Int
  BY DEF IsRow
<1>2. D \in Int /\ EndOfDay(row.day) = D + HoursPerDay
  <2>1. D \in Int
    BY <1>1
  <2> QED BY <1>1, <2>1, DaysEndInOrder
<1>3. row.ends \in 1..HoursPerDay /\ row.ends \in Int /\ row.ends # None
  BY NoneAssumption DEF Timed
<1> HIDE DEF D
<1>4. D < D + row.ends /\ D + row.ends <= D + HoursPerDay /\ D + row.ends \in Int
  BY <1>2, <1>3
<1> QED BY <1>1, <1>2, <1>3, <1>4 DEF D

AreLines(rows) == IsList(rows) /\ \A i \in 1..Len(rows) : IsLine(rows[i])
ReadFrom(records, rows) ==
  /\ IsList(records) /\ Len(records) = Len(rows)
  /\ \A i \in 1..Len(rows) : records[i].day = rows[i].day /\ records[i].cost = Effective(rows[i])

LEMMA ParsedLines ==
  ASSUME NEW rows, AreLines(rows), KnownFormat
  PROVE  ReadFrom(Parse(ledger.format, rows), rows)
<1> DEFINE record(row) == CASE ledger.format = "aws"   -> AwsRecord(row)
                            [] ledger.format = "azure" -> AzureRecord(row)
                            [] ledger.format = "gcp"   -> GcpRecord(row)
           records == [i \in 1..Len(rows) |-> record(rows[i])]
<1>1. Parse(ledger.format, rows) = records
  BY DEF Parse
<1>2. ASSUME NEW row, NEW service, NEW category, NEW billed, NEW effective
      PROVE  LET r == NewRecord(row, service, category, billed, effective)
             IN  r.day = row.day /\ r.cost = effective
  BY DEF NewRecord
<1>3. ASSUME NEW row, IsLine(row)
      PROVE  record(row).day = row.day /\ record(row).cost = Effective(row)
  <2>1. CASE ledger.format = "aws"
    <3>1. record(row) = AwsRecord(row)
      BY <2>1
    <3> HIDE DEF record
    <3> QED BY <1>2, <2>1, <3>1 DEF AwsRecord, Effective
  <2>2. CASE ledger.format = "azure"
    <3>1. record(row) = AzureRecord(row)
      BY <2>2
    <3>2. FirstOf(row.amortized, Amount(row.cost)) = Amount(row.cost)
      BY <1>3, <2>2 DEF IsLine, Figured, FirstOf
    <3> HIDE DEF record
    <3> QED BY <1>2, <2>2, <3>1, <3>2 DEF AzureRecord, Effective
  <2>3. CASE ledger.format = "gcp"
    <3>1. record(row) = GcpRecord(row)
      BY <2>3
    <3> HIDE DEF record
    <3> QED BY <1>2, <2>3, <3>1 DEF GcpRecord, Effective
  <2> QED BY <2>1, <2>2, <2>3 DEF KnownFormat
<1> HIDE DEF record
<1>4. Len(rows) \in Nat /\ \A i \in 1..Len(rows) : IsLine(rows[i])
  BY DEF AreLines, IsList
<1>5. IsList(records) /\ Len(records) = Len(rows)
  BY <1>4, ListOf
<1>6. \A i \in 1..Len(rows) : records[i].day = rows[i].day /\ records[i].cost = Effective(rows[i])
  BY <1>3, <1>4
<1> HIDE DEF records
<1> QED BY <1>1, <1>5, <1>6 DEF ReadFrom

\* The last day of an answer is the last one of its rows.
LEMMA LastDayIs ==
  ASSUME NEW rows, rows # <<>>, AreLines(rows), NEW records, ReadFrom(records, rows)
  PROVE  /\ LastDay(records) \in Int
         /\ \E i \in 1..Len(rows) : rows[i].day = LastDay(records)
         /\ \A i \in 1..Len(rows) : rows[i].day \in Int /\ rows[i].day <= LastDay(records)
         /\ DaysOf(records) = {rows[i].day : i \in 1..Len(rows)}
<1> DEFINE D == {rows[i].day : i \in 1..Len(rows)}
           day == [i \in 1..Len(rows) |-> rows[i].day]
           E == {day[i] : i \in 1..Len(rows)}
<1>1. IsList(rows) /\ Len(rows) \in Nat /\ \A i \in 1..Len(rows) : rows[i].day \in Int
  BY DEF AreLines, IsLine, IsRow, IsList
<1>2. Len(rows) # 0
  <2>1. SUFFICES ASSUME Len(rows) = 0 PROVE FALSE
    OBVIOUS
  <2>2. rows = [i \in 1..0 |-> rows[i]]
    BY <1>1, <2>1 DEF IsList
  <2>3. rows = <<>>
    BY <2>2
  <2> QED BY <2>3
<1>3. DaysOf(records) = D
  BY DEF DaysOf, ReadFrom
<1>4. IsFiniteSet(E)
  <2>1. IsFiniteSet(1..Len(rows))
    BY <1>1, UpTo
  <2> HIDE DEF day
  <2> QED BY <2>1, ImageIsFinite
<1>5. E = D
  OBVIOUS
<1>6. D \in SUBSET Int /\ D # {}
  BY <1>1, <1>2
<1> HIDE DEF E
<1>7. Largest(D) \in D /\ \A y \in D : y <= Largest(D)
  <2> HIDE DEF D
  <2> QED BY <1>4, <1>5, <1>6, HasLargest
<1>8. LastDay(records) = Largest(D)
  BY <1>3 DEF LastDay
<1> QED BY <1>1, <1>3, <1>6, <1>7, <1>8

\* Up to where an answer of some rows may reach: no row but one of the last day is beyond
\* it, and it reaches over all of its window only with a row of the window's last day.
Reaches(through, rows, key) ==
  /\ through \in Int /\ through <= EndOfDay(key[2])
  /\ \A i, j \in 1..Len(rows) : rows[i].day < rows[j].day => rows[i].day <= DayOf(through)
  /\ through >= EndOfDay(key[2]) => \E i \in 1..Len(rows) : rows[i].day = key[2]

IsKey(key) == key[1] \in Int /\ key[2] \in Int /\ key[1] <= key[2]
InWindow(rows, key) == \A i \in 1..Len(rows) : rows[i].day \in Int /\ rows[i].day <= key[2]

\* A day of which there is a row, and before which are all rows but those of the last day.
LEMMA ReachesADay ==
  ASSUME NEW rows, NEW key, IsKey(key), InWindow(rows, key), NEW d \in Int,
         NEW k \in 1..Len(rows), rows[k].day = d,
         \A i, j \in 1..Len(rows) : rows[i].day < rows[j].day => rows[i].day <= d
  PROVE  Reaches(EndOfDay(d), rows, key)
<1> DEFINE t == EndOfDay(d)
<1>0. d <= key[2] /\ key[2] \in Int
  BY DEF InWindow, IsKey
<1>1. t \in Int /\ d * HoursPerDay < t /\ t <= EndOfDay(key[2])
  <2>1. t \in Int /\ t = d * HoursPerDay + HoursPerDay /\ t <= EndOfDay(key[2])
    BY <1>0, DaysEndInOrder
  <2>2. d * HoursPerDay \in Int
    OBVIOUS
  <2> HIDE DEF t
  <2> QED BY <2>1, <2>2
<1>2. DayOf(t) = d
  <2>1. t <= EndOfDay(d) /\ t \in Int
    BY <1>1
  <2> HIDE DEF t
  <2> QED BY <1>1, <2>1, DayOfOnly
<1>3. t >= EndOfDay(key[2]) => rows[k].day = key[2]
  <2> SUFFICES ASSUME t >= EndOfDay(key[2]) PROVE d = key[2]
    OBVIOUS
  <2>1. d < key[2] => t <= key[2] * HoursPerDay
    BY <1>0, DaysEndInOrder
  <2>2. EndOfDay(key[2]) = key[2] * HoursPerDay + HoursPerDay /\ key[2] * HoursPerDay \in Int
    <3>1. key[2] \in Int
      BY <1>0
    <3> QED BY <3>1, DaysEndInOrder
  <2> HIDE DEF t
  <2> QED BY <1>0, <1>1, <2>1, <2>2
<1> HIDE DEF t
<1>4. Reaches(t, rows, key)
  BY <1>1, <1>2, <1>3 DEF Reaches
<1> QED BY <1>4 DEF t

LEMMA NothingCame ==
  ASSUME NEW key, IsKey(key), NEW rows, Len(rows) = 0
  PROVE  Reaches(EndOfDay(key[1] - 1), rows, key)
<1>1. EndOfDay(key[1] - 1) \in Int /\ EndOfDay(key[1] - 1) < EndOfDay(key[2]) /\ EndOfDay(key[2]) \in Int
  <2>1. key[1] - 1 \in Int /\ key[1] - 1 < key[2] /\ key[2] \in Int
    BY DEF IsKey
  <2>2. EndOfDay(key[1] - 1) <= key[2] * HoursPerDay /\ EndOfDay(key[1] - 1) \in Int
    BY <2>1, DaysEndInOrder
  <2>3. EndOfDay(key[2]) = key[2] * HoursPerDay + HoursPerDay /\ key[2] * HoursPerDay \in Int
    <3>1. key[2] \in Int
      BY <2>1
    <3> QED BY <3>1, DaysEndInOrder
  <2> QED BY <2>2, <2>3
<1>2. 1..Len(rows) = {}
  OBVIOUS
<1> QED BY <1>1, <1>2 DEF Reaches

\* AWS and Azure are taken at the last day that came.
LEMMA DayCame ==
  ASSUME NEW rows, rows # <<>>, AreLines(rows), NEW key, IsKey(key), InWindow(rows, key),
         NEW records, ReadFrom(records, rows)
  PROVE  Reaches(EndOfDay(LastDay(records)), rows, key)
<1> DEFINE last == LastDay(records)
<1>1. /\ last \in Int /\ \E i \in 1..Len(rows) : rows[i].day = last
      /\ \A i \in 1..Len(rows) : rows[i].day \in Int /\ rows[i].day <= last
  BY LastDayIs
<1> HIDE DEF last
<1>2. PICK k \in 1..Len(rows) : rows[k].day = last
  BY <1>1
<1>3. \A i, j \in 1..Len(rows) : rows[i].day < rows[j].day => rows[i].day <= last
  BY <1>1
<1>4. Reaches(EndOfDay(last), rows, key)
  BY <1>1, <1>2, <1>3, ReachesADay
<1> QED BY <1>4 DEF last

\* BigQuery says of every row when its usage was over.
LEMMA HoursCame ==
  ASSUME ledger.format = "gcp", NEW rows, rows # <<>>, AreLines(rows), NEW key, IsKey(key),
         InWindow(rows, key), NEW records, ReadFrom(records, rows)
  PROVE  Reaches(GcpDataThrough(rows, records), rows, key)
<1> DEFINE H == HoursPerDay
           N == Len(rows)
           last == LastDay(records)
           stamp == [i \in 1..N |-> rows[i].day * H + rows[i].ends]
           stamps == {stamp[i] : i \in 1..N}
           ends == {x \in stamps : x >= last * H}
           earlier == {day \in DaysOf(records) : day < last}
           through == GcpDataThrough(rows, records)
<1>0. /\ last \in Int
      /\ \E i \in 1..N : rows[i].day = last
      /\ \A i \in 1..N : rows[i].day \in Int /\ rows[i].day <= last
      /\ DaysOf(records) = {rows[i].day : i \in 1..N}
  BY LastDayIs
<1>1. N \in Nat /\ IsFiniteSet(1..N)
  <2>1. N \in Nat
    BY DEF AreLines, IsList
  <2> QED BY <2>1, UpTo
<1>2. ASSUME NEW i \in 1..N
      PROVE  /\ rows[i].ends \in Int /\ rows[i].ends # None
             /\ stamp[i] \in Int /\ rows[i].day * H < stamp[i] /\ stamp[i] <= EndOfDay(rows[i].day)
             /\ rows[i].day <= key[2]
  <2>1. IsRow(rows[i]) /\ Timed(rows[i])
    BY DEF AreLines, IsLine
  <2>2. LET end == rows[i].day * H + rows[i].ends
        IN  /\ rows[i].ends \in Int /\ rows[i].ends # None /\ end \in Int
            /\ rows[i].day * H < end /\ end <= EndOfDay(rows[i].day)
    BY <2>1, EndsInItsDay
  <2>3. stamp[i] = rows[i].day * H + rows[i].ends
    OBVIOUS
  <2>4. rows[i].day <= key[2]
    BY DEF InWindow
  <2> HIDE DEF stamp
  <2> QED BY <2>2, <2>3, <2>4
<1>3. /\ IsFiniteSet(stamps) /\ stamps \in SUBSET Int
  <2>1. IsFiniteSet(stamps)
    <3> HIDE DEF stamp, N
    <3> QED BY <1>1, ImageIsFinite
  <2>2. \A i \in 1..N : stamp[i] \in Int
    BY <1>2
  <2> HIDE DEF stamp
  <2> QED BY <2>1, <2>2
<1>4. PICK i \in 1..N : rows[i].day = last
  BY <1>0
<1>5. stamp[i] \in Int /\ last * H < stamp[i] /\ last <= key[2] /\ last * H \in Int
  <2>1. rows[i].day * H < stamp[i] /\ stamp[i] \in Int /\ rows[i].day <= key[2]
    BY <1>2
  <2> HIDE DEF stamp
  <2> QED BY <1>0, <1>4, <2>1
<1>6. through = IF ends = {} \/ Largest(ends) >= EndOfDay(last) THEN EndOfDay(last)
                ELSE IF earlier # {} THEN EndOfDay(Largest(earlier)) ELSE Largest(ends)
  <2>1. {rows[l].day * H + rows[l].ends : l \in {m \in 1..N : rows[m].ends # None}} = stamps
    <3>1. {m \in 1..N : rows[m].ends # None} = 1..N
      BY <1>2
    <3>2. {rows[l].day * H + rows[l].ends : l \in 1..N} = stamps
      OBVIOUS
    <3> HIDE DEF stamps
    <3> QED BY <3>1, <3>2
  <2> HIDE DEF stamps
  <2> QED BY <2>1 DEF GcpDataThrough
<1> HIDE DEF stamp
<1>7. stamp[i] \in ends
  BY <1>5
<1>8. IsFiniteSet(ends) /\ ends \in SUBSET stamps /\ ends \in SUBSET Int
  <2> HIDE DEF stamps
  <2>1. ends \in SUBSET stamps
    OBVIOUS
  <2> HIDE DEF ends
  <2> QED BY <1>3, <2>1, FS_Subset
<1>9. \A l \in 1..N : stamp[l] >= last * H => stamp[l] \in ends
  OBVIOUS
<1>10. \A x \in ends : \E l \in 1..N : x = stamp[l]
  OBVIOUS
<1> HIDE DEF ends, stamps
<1> DEFINE L == Largest(ends)
<1>11. L \in ends /\ \A x \in ends : x <= L
  BY <1>7, <1>8, HasLargest
<1>12. PICK l \in 1..N : L = stamp[l]
  BY <1>10, <1>11
<1>13. L \in Int /\ L <= EndOfDay(rows[l].day) /\ rows[l].day <= last /\ rows[l].day \in Int
  BY <1>0, <1>2, <1>12
<1>14. last * H < L
  BY <1>5, <1>7, <1>11, <1>13
<1> HIDE DEF L
<1>15. CASE L >= EndOfDay(last)
  <2>1. through = EndOfDay(last)
    BY <1>6, <1>15 DEF L
  <2>2. \A m, o \in 1..N : rows[m].day < rows[o].day => rows[m].day <= last
    BY <1>0
  <2> HIDE DEF last, through
  <2>3. Reaches(EndOfDay(last), rows, key)
    BY <1>0, <1>4, <2>2, ReachesADay
  <2> QED BY <2>1, <2>3 DEF through
<1>16. CASE ~(L >= EndOfDay(last)) /\ earlier # {}
  <2> DEFINE e == Largest(earlier)
  <2>1. through = EndOfDay(e)
    BY <1>6, <1>7, <1>16 DEF L
  <2>2. IsFiniteSet(earlier) /\ earlier \in SUBSET Int
    <3> DEFINE day == [m \in 1..N |-> rows[m].day]
    <3>1. IsFiniteSet({day[m] : m \in 1..N})
      <4> HIDE DEF day
      <4> QED BY <1>1, ImageIsFinite
    <3>2. {day[m] : m \in 1..N} = DaysOf(records)
      BY <1>0
    <3>3. earlier \in SUBSET DaysOf(records)
      OBVIOUS
    <3>4. IsFiniteSet(earlier)
      <4> HIDE DEF earlier, day
      <4> QED BY <3>1, <3>2, <3>3, FS_Subset
    <3> QED BY <1>0, <3>4
  <2>3. e \in earlier /\ \A y \in earlier : y <= e
    <3> HIDE DEF earlier
    <3> QED BY <1>16, <2>2, HasLargest
  <2>4. e \in Int /\ \E m \in 1..N : rows[m].day = e
    BY <1>0, <2>2, <2>3
  <2>5. PICK k \in 1..N : rows[k].day = e
    BY <2>4
  <2>6. \A m, o \in 1..N : rows[m].day < rows[o].day => rows[m].day <= e
    <3> SUFFICES ASSUME NEW m \in 1..N, NEW o \in 1..N, rows[m].day < rows[o].day PROVE rows[m].day <= e
      OBVIOUS
    <3>1. rows[m].day \in DaysOf(records) /\ rows[m].day < last
      <4>1. rows[m].day \in Int /\ rows[o].day \in Int /\ rows[o].day <= last
        BY <1>0
      <4> HIDE DEF last
      <4> QED BY <1>0, <4>1
    <3>2. rows[m].day \in earlier
      BY <3>1
    <3> HIDE DEF earlier, e
    <3> QED BY <2>3, <3>2
  <2> HIDE DEF e, last, through
  <2>7. Reaches(EndOfDay(e), rows, key)
    BY <2>4, <2>5, <2>6, ReachesADay
  <2> QED BY <2>1, <2>7 DEF through
<1>17. CASE ~(L >= EndOfDay(last)) /\ earlier = {}
  <2>1. through = L
    BY <1>6, <1>7, <1>17 DEF L
  <2>2. \A m \in 1..N : rows[m].day = last
    <3> TAKE m \in 1..N
    <3>1. rows[m].day \notin earlier
      BY <1>17
    <3>2. ~(rows[m].day < last)
      BY <1>0, <3>1
    <3> QED BY <1>0, <3>2
  <2> HIDE DEF last, through
  <2>3. /\ L <= EndOfDay(last) /\ EndOfDay(last) <= EndOfDay(key[2]) /\ EndOfDay(last) \in Int
        /\ EndOfDay(key[2]) \in Int
    <3>1. key[2] \in Int /\ L <= EndOfDay(last)
      BY <1>13, <2>2 DEF IsKey
    <3> QED BY <1>0, <1>5, <3>1, DaysEndInOrder
  <2>4. \A m, o \in 1..N : ~(rows[m].day < rows[o].day)
    <3>1. ~(last < last)
      BY <1>0
    <3> QED BY <2>2, <3>1
  <2>5. ~(L >= EndOfDay(key[2]))
    BY <1>13, <1>17, <2>3
  <2>6. Reaches(L, rows, key)
    BY <1>13, <2>3, <2>4, <2>5 DEF Reaches
  <2> QED BY <2>1, <2>6 DEF through
<1> QED BY <1>15, <1>16, <1>17

LEMMA EmptyList ==
  ASSUME NEW s, IsList(s)
  PROVE  s = <<>> <=> Len(s) = 0
<1>1. ASSUME Len(s) = 0 PROVE s = <<>>
  <2>1. s = [i \in 1..0 |-> s[i]]
    BY <1>1 DEF IsList
  <2> QED BY <2>1
<1>2. ASSUME s = <<>> PROVE Len(s) = 0
  BY <1>2
<1> QED BY <1>1, <1>2

LEMMA AnswerReaches ==
  ASSUME KnownFormat, NEW window, IsPeriod(window), NEW rows, AreLines(rows),
         InWindow(rows, CacheKey(window)), NEW records, ReadFrom(records, rows)
  PROVE  Reaches(LiveThrough(rows, records, window), rows, CacheKey(window))
<1> DEFINE key == CacheKey(window)
<1>1. IsKey(key) /\ key[1] = window.start /\ InWindow(rows, key)
  BY DEF IsKey, CacheKey, IsPeriod
<1>2. (records = <<>> <=> rows = <<>>) /\ (rows = <<>> => Len(rows) = 0)
  <2>1. IsList(rows) /\ IsList(records) /\ Len(rows) = Len(records)
    BY DEF AreLines, ReadFrom
  <2> QED BY <2>1, EmptyList
<1>3. LiveThrough(rows, records, window)
        = IF records = <<>> THEN EndOfDay(key[1] - 1)
          ELSE IF ledger.format = "gcp" THEN GcpDataThrough(rows, records) ELSE EndOfDay(LastDay(records))
  BY <1>1 DEF LiveThrough
<1> HIDE DEF key
<1>5. CASE rows = <<>>
  <2>1. Reaches(EndOfDay(key[1] - 1), rows, key)
    BY <1>1, <1>2, <1>5, NothingCame
  <2> QED BY <1>2, <1>3, <1>5, <2>1 DEF key
<1>6. CASE rows # <<>> /\ ledger.format = "gcp"
  <2>1. Reaches(GcpDataThrough(rows, records), rows, key)
    BY <1>1, <1>6, HoursCame
  <2> QED BY <1>2, <1>3, <1>6, <2>1 DEF key
<1>7. CASE rows # <<>> /\ ledger.format # "gcp"
  <2>1. Reaches(EndOfDay(LastDay(records)), rows, key)
    BY <1>1, <1>7, DayCame
  <2> QED BY <1>2, <1>3, <1>7, <2>1 DEF key
<1> QED BY <1>5, <1>6, <1>7

LEMMA SpentOnPlaces ==
  ASSUME NEW s, IsList(s), NEW places \in SUBSET (1..Len(s)), NEW v, NEW f, SomeAreWorth(f, s, places, v),
         NEW g, IsList(g), Len(g) = Len(ElementsAt(s, places)), AreWorth(g, ElementsAt(s, places), v)
  PROVE  SumSeq(g) = Total(f, 1..Len(s))
<1> DEFINE kept == ElementsAt(s, places)
<1>1. Total(g, 1..Len(kept)) = Total(f, 1..Len(s))
  BY KeptTotal
<1>2. \A i \in 1..Len(g) : g[i] \in Int
  BY DEF AreWorth
<1>3. SumSeq(g) = Total(g, 1..Len(g))
  BY <1>2, SumOfList
<1> QED BY <1>1, <1>3

\* The money a list comes to on a day, of some of its places.
Worths(s, cost, day) == [x \in {s[i] : i \in 1..Len(s)} |-> IF x.day = day THEN cost[x] ELSE 0]
MaskedCosts(s, cost, places, day) ==
  [i \in 1..Len(s) |-> IF i \in places /\ s[i].day = day THEN cost[s[i]] ELSE 0]
HaveCosts(s, cost) == \A i \in 1..Len(s) : cost[s[i]] \in Int
CostsOn(g, kept, cost, day) ==
  g = [m \in 1..Len(kept) |-> IF kept[m].day = day THEN cost[kept[m]] ELSE 0]

LEMMA SpentIsMasked ==
  ASSUME NEW s, IsList(s), NEW places \in SUBSET (1..Len(s)), NEW cost, HaveCosts(s, cost), NEW day,
         NEW g, CostsOn(g, ElementsAt(s, places), cost, day)
  PROVE  SumSeq(g) = Total(MaskedCosts(s, cost, places, day), 1..Len(s))
<1> DEFINE kept == ElementsAt(s, places)
           w == Worths(s, cost, day)
           f == MaskedCosts(s, cost, places, day)
<1>1. IsList(kept) /\ Len(kept) \in Nat /\ \A m \in 1..Len(kept) : \E i \in places : kept[m] = s[i]
  BY KeptList DEF IsList
<1>2. \A i \in 1..Len(s) : cost[s[i]] \in Int /\ w[s[i]] = IF s[i].day = day THEN cost[s[i]] ELSE 0
  BY DEF Worths, HaveCosts
<1>3. \A i \in 1..Len(s) : f[i] = IF i \in places /\ s[i].day = day THEN cost[s[i]] ELSE 0
  BY DEF MaskedCosts
<1> HIDE DEF w, f
<1>4. SomeAreWorth(f, s, places, w)
  <2>1. \A i \in 1..Len(s) : w[s[i]] \in Int /\ f[i] = IF i \in places THEN w[s[i]] ELSE 0
    BY <1>2, <1>3
  <2> QED BY <2>1 DEF SomeAreWorth
<1>5. IsList(g) /\ Len(g) = Len(kept)
  <2> HIDE DEF kept
  <2>1. g = [m \in 1..Len(kept) |-> IF kept[m].day = day THEN cost[kept[m]] ELSE 0]
    BY DEF CostsOn, kept
  <2>2. g = [m \in 1..Len(kept) |-> g[m]] /\ DOMAIN g = 1..Len(kept)
    BY <2>1
  <2> QED BY <1>1, <2>2, ListOf
<1>6. AreWorth(g, kept, w)
  <2> HIDE DEF kept
  <2>1. \A m \in 1..Len(kept) : g[m] = IF kept[m].day = day THEN cost[kept[m]] ELSE 0
    BY DEF CostsOn, kept
  <2>2. \A m \in 1..Len(kept) : w[kept[m]] \in Int /\ g[m] = w[kept[m]]
    <3> TAKE m \in 1..Len(kept)
    <3>1. PICK i \in 1..Len(s) : kept[m] = s[i]
      BY <1>1
    <3> QED BY <1>2, <2>1, <3>1
  <2>3. \A i \in 1..Len(g) : i \in 1..Len(kept)
    BY <1>5
  <2> QED BY <1>5, <2>2, <2>3 DEF AreWorth
<1>7. SumSeq(g) = Total(f, 1..Len(s))
  BY <1>4, <1>5, <1>6, SpentOnPlaces
<1> QED BY <1>7 DEF f

-----------------------------------------------------------------------------
(* What a caller gets. *)

MineOn(call, day) == \E p \in call.periods : PeriodContains(p, day)

\* An answer is of the first n rows of the ledger, and when it reaches over all of its
\* window it has a charge of the window's last day.
ToldOfTheEnd(call) ==
  call.through >= EndOfDay(call.window.end) /\ MineOn(call, call.window.end) =>
    \E i \in 1..Len(call.records) : call.records[i].day = call.window.end
EndsWithAPeriod(call) == call.window.end \in Int /\ \E p \in call.periods : call.window.end <= p.end
Whole(call, n) ==
  AnswerIsOf(call, n) /\ call.through \in Int /\ EndsWithAPeriod(call) /\ ToldOfTheEnd(call)

\* A window reaches from the first day of its periods to a day of theirs.
WindowOK(call) ==
  /\ IsPeriod(call.window)
  /\ \A p \in call.periods : IsPeriod(p) /\ call.window.start <= p.start
  /\ EndsWithAPeriod(call)

\* The money of an answer on a day, and that of the first rows of the ledger.
GotOn(call, rows, day) ==
  LET records == Parse(ledger.format, rows)
      through == LiveThrough(rows, records, call.window)
      kept == ElementsAt(records, {i \in 1..Len(records) :
                /\ records[i].day <= DayOf(through) /\ \E p \in call.periods : PeriodContains(p, records[i].day)})
  IN  SumSeq([i \in 1..Len(kept) |-> IF kept[i].day = day THEN kept[i].cost ELSE 0])
DueOn(n, day) ==
  SumSeq([i \in 1..Len(Sent(n)) |-> IF Sent(n)[i].day = day THEN Effective(Sent(n)[i]) ELSE 0])

LEMMA GotIs ==
  ASSUME NEW rows, AreLines(rows), KnownFormat, NEW call, NEW day
  PROVE  LET through == LiveThrough(rows, Parse(ledger.format, rows), call.window)
         IN  GotOn(call, rows, day)
               = IF day <= DayOf(through) /\ MineOn(call, day) THEN Total(DayCosts(rows, day), 1..Len(rows)) ELSE 0
<1> DEFINE records == Parse(ledger.format, rows)
           through == LiveThrough(rows, records, call.window)
           places == {i \in 1..Len(records) :
                        /\ records[i].day <= DayOf(through)
                        /\ \E p \in call.periods : PeriodContains(p, records[i].day)}
           kept == ElementsAt(records, places)
           cost == [r \in {records[i] : i \in 1..Len(records)} |-> r.cost]
           g == [i \in 1..Len(kept) |-> IF kept[i].day = day THEN kept[i].cost ELSE 0]
           mine == day <= DayOf(through) /\ MineOn(call, day)
<1>1. GotOn(call, rows, day) = SumSeq(g)
  BY DEF GotOn
<1>2. /\ IsList(records) /\ Len(records) = Len(rows) /\ Len(rows) \in Nat
      /\ \A i \in 1..Len(rows) : /\ records[i].day = rows[i].day /\ records[i].cost = Effective(rows[i])
                                 /\ Effective(rows[i]) \in Int
  <2>1. ReadFrom(records, rows)
    BY ParsedLines
  <2>2. \A i \in 1..Len(rows) : Effective(rows[i]) \in Int
    BY EffectiveIsWhole DEF AreLines, IsLine
  <2> HIDE DEF records
  <2> QED BY <2>1, <2>2 DEF ReadFrom, AreLines, IsList
<1>3. places \in SUBSET (1..Len(records)) /\ \A i \in places : records[i].day = day => mine
  BY DEF MineOn
<1>4. \A i \in 1..Len(records) : records[i].day = day /\ mine => i \in places
  BY DEF MineOn
<1> HIDE DEF records, places, through
<1>5. \A i \in 1..Len(records) : cost[records[i]] = records[i].cost
  OBVIOUS
<1>6. HaveCosts(records, cost)
  <2> HIDE DEF cost
  <2> QED BY <1>2, <1>5 DEF HaveCosts
<1>7. CostsOn(g, kept, cost, day)
  <2>1. \A m \in 1..Len(kept) : \E i \in places : kept[m] = records[i]
    BY <1>2, <1>3, KeptList
  <2> HIDE DEF kept
  <2>2. \A m \in 1..Len(kept) : cost[kept[m]] = kept[m].cost
    BY <1>3, <1>5, <2>1
  <2> HIDE DEF cost
  <2>3. g = [m \in 1..Len(kept) |-> IF kept[m].day = day THEN cost[kept[m]] ELSE 0]
    BY <2>2
  <2> HIDE DEF g
  <2> QED BY <2>3 DEF CostsOn
<1> HIDE DEF g, cost
<1> DEFINE f == MaskedCosts(records, cost, places, day)
<1>8. SumSeq(g) = Total(f, 1..Len(records))
  BY <1>2, <1>3, <1>6, <1>7, SpentIsMasked
<1>9. \A i \in 1..Len(rows) : f[i] = IF i \in places /\ rows[i].day = day THEN Effective(rows[i]) ELSE 0
  <2> TAKE i \in 1..Len(rows)
  <2>1. i \in 1..Len(records)
    BY <1>2
  <2>2. f[i] = IF i \in places /\ records[i].day = day THEN cost[records[i]] ELSE 0
    BY <2>1 DEF MaskedCosts
  <2> HIDE DEF f
  <2> QED BY <1>2, <1>5, <2>1, <2>2
<1> HIDE DEF f
<1>10. IsFiniteSet(1..Len(rows))
  BY <1>2, UpTo
<1>11. CASE mine
  <2> DEFINE e == DayCosts(rows, day)
  <2>1. \A i \in 1..Len(rows) : e[i] = IF rows[i].day = day THEN Effective(rows[i]) ELSE 0
    BY DEF DayCosts
  <2> HIDE DEF e
  <2>2. \A i \in 1..Len(rows) : f[i] = e[i]
    BY <1>2, <1>4, <1>9, <1>11, <2>1
  <2>3. Total(f, 1..Len(rows)) = Total(e, 1..Len(rows))
    BY <1>10, <2>2, TotalSame
  <2> QED BY <1>1, <1>2, <1>8, <1>11, <2>3 DEF e, through, records
<1>12. CASE ~mine
  <2>1. \A i \in 1..Len(rows) : f[i] = 0
    BY <1>2, <1>3, <1>9, <1>12
  <2>2. Total(f, 1..Len(rows)) = 0
    BY <1>10, <2>1, TotalZero
  <2> QED BY <1>1, <1>2, <1>8, <1>12, <2>2 DEF through, records
<1> QED BY <1>11, <1>12

LEMMA DueIs ==
  ASSUME AreSources(ledger.rows), KnownFormat, NEW n \in 0..Len(ledger.rows), NEW day
  PROVE  DueOn(n, day)
           = Total([j \in 1..Len(ledger.rows) |->
                      IF j <= n /\ ledger.rows[j].day = day THEN Effective(ledger.rows[j]) ELSE 0],
                   1..Len(ledger.rows))
<1> DEFINE rows == ledger.rows
           places == 1..n
           due == ElementsAt(rows, places)
           cost == [r \in {rows[i] : i \in 1..Len(rows)} |-> Effective(r)]
           g == [i \in 1..Len(due) |-> IF due[i].day = day THEN Effective(due[i]) ELSE 0]
           f == MaskedCosts(rows, cost, places, day)
           e == [j \in 1..Len(rows) |-> IF j <= n /\ rows[j].day = day THEN Effective(rows[j]) ELSE 0]
<1>1. DueOn(n, day) = SumSeq(g)
  BY DEF DueOn, Sent
<1>2. IsList(rows) /\ \A i \in 1..Len(rows) : Effective(rows[i]) \in Int
  BY EffectiveIsWhole DEF AreSources, IsSource
<1>3. places \in SUBSET (1..Len(rows)) /\ \A i \in 1..Len(rows) : i \in places <=> i <= n
  BY <1>2 DEF IsList
<1> HIDE DEF places
<1>5. \A i \in 1..Len(rows) : cost[rows[i]] = Effective(rows[i])
  OBVIOUS
<1>6. HaveCosts(rows, cost)
  <2> HIDE DEF cost
  <2> QED BY <1>2, <1>5 DEF HaveCosts
<1>7. CostsOn(g, due, cost, day)
  <2>1. \A m \in 1..Len(due) : \E i \in places : due[m] = rows[i]
    BY <1>2, <1>3, KeptList
  <2> HIDE DEF due
  <2>2. \A m \in 1..Len(due) : cost[due[m]] = Effective(due[m])
    BY <1>3, <1>5, <2>1
  <2> HIDE DEF cost
  <2>3. g = [m \in 1..Len(due) |-> IF due[m].day = day THEN cost[due[m]] ELSE 0]
    BY <2>2
  <2> HIDE DEF g
  <2> QED BY <2>3 DEF CostsOn
<1> HIDE DEF g, cost
<1>8. SumSeq(g) = Total(f, 1..Len(rows))
  BY <1>2, <1>3, <1>6, <1>7, SpentIsMasked
<1>9. \A i \in 1..Len(rows) : f[i] = e[i]
  <2> TAKE i \in 1..Len(rows)
  <2>1. f[i] = IF i \in places /\ rows[i].day = day THEN cost[rows[i]] ELSE 0
    BY DEF MaskedCosts
  <2>2. e[i] = IF i <= n /\ rows[i].day = day THEN Effective(rows[i]) ELSE 0
    OBVIOUS
  <2> HIDE DEF f, e, rows
  <2> QED BY <1>3, <1>5, <2>1, <2>2
<1>10. IsFiniteSet(1..Len(rows))
  BY <1>2, UpTo DEF IsList
<1> HIDE DEF f, e
<1>11. Total(f, 1..Len(rows)) = Total(e, 1..Len(rows))
  BY <1>9, <1>10, TotalSame
<1> QED BY <1>1, <1>8, <1>11 DEF e

LEMMA DayWithin ==
  ASSUME NEW through \in Int, NEW last \in Int, through <= EndOfDay(last)
  PROVE  DayOf(through) \in Int /\ DayOf(through) <= last
<1> DEFINE q == DayOf(through)
<1>1. q \in Int /\ q * HoursPerDay < through
  BY DayOfIs
<1> HIDE DEF q
<1>2. q * HoursPerDay \in Int /\ EndOfDay(last) \in Int
  BY <1>1, DaysEndInOrder
<1>3. last < q => EndOfDay(last) <= q * HoursPerDay
  BY <1>1, DaysEndInOrder
<1>4. q <= last
  BY <1>1, <1>2, <1>3
<1> QED BY <1>1, <1>4 DEF q

\* An answer made of what a provider had reported at some moment is of that.
LEMMA AnsweredWhole ==
  ASSUME AreSources(ledger.rows), KnownFormat, NEW call, WindowOK(call), NEW n \in 0..Len(ledger.rows),
         NEW rows, CameAt(rows, CacheKey(call.window), n)
  PROVE  Whole(Answered(call, rows), n)
<1> DEFINE key == CacheKey(call.window)
           records == Parse(ledger.format, rows)
           through == LiveThrough(rows, records, call.window)
           answer == Answered(call, rows)
           lines == ledger.rows
           N == Len(lines)
           places == {i \in 1..Len(records) :
                        /\ records[i].day <= DayOf(through)
                        /\ \E p \in call.periods : PeriodContains(p, records[i].day)}
<1>1. /\ IsKey(key) /\ key[1] = call.window.start /\ key[2] = call.window.end /\ IsPeriod(call.window)
      /\ EndsWithAPeriod(call)
  BY DEF IsKey, CacheKey, IsPeriod, WindowOK
<1>2. AreLines(rows)
  BY DEF CameAt, AreLines
<1>3. ReadFrom(records, rows)
  BY <1>2, ParsedLines
<1>4. /\ answer.through = through /\ answer.window = call.window /\ answer.periods = call.periods
      /\ answer.records = ElementsAt(records, places)
  BY DEF Answered, NotAsked
<1>5. \A day : SpentOn(day, answer.records, LAMBDA r : r.cost) = GotOn(call, rows, day)
  <2> TAKE day
  <2> QED BY <1>4 DEF SpentOn, GotOn
<1>6. IsList(lines) /\ N \in Nat /\ IsFiniteSet(1..N)
      /\ \A j \in 1..N : lines[j].day \in Int /\ Effective(lines[j]) \in Int
  <2>1. IsList(lines) /\ N \in Nat /\ \A j \in 1..N : IsRow(lines[j])
    BY DEF AreSources, IsSource, IsList
  <2>2. IsFiniteSet(1..N)
    BY <2>1, UpTo
  <2>3. \A j \in 1..N : lines[j].day \in Int /\ Effective(lines[j]) \in Int
    BY <2>1, EffectiveIsWhole DEF IsRow
  <2> QED BY <2>1, <2>2, <2>3
<1>7. /\ \A i \in 1..Len(rows) : \E j \in 1..N : Seen(j, key, n) /\ OfDay(rows[i], lines[j])
      /\ \A j \in 1..N : Seen(j, key, n) => \E i \in 1..Len(rows) : OfDay(rows[i], lines[j])
  BY DEF CameAt
<1>8. InWindow(rows, key)
  <2> SUFFICES ASSUME NEW i \in 1..Len(rows) PROVE rows[i].day \in Int /\ rows[i].day <= key[2]
    BY DEF InWindow
  <2>1. PICK j \in 1..N : Seen(j, key, n) /\ OfDay(rows[i], lines[j])
    BY <1>7
  <2> QED BY <1>6, <2>1 DEF Seen, OfDay
<1>9. Reaches(through, rows, key)
  <2> HIDE DEF records
  <2> QED BY <1>1, <1>2, <1>3, <1>8, AnswerReaches
<1>10. ASSUME NEW day PROVE GotOn(call, rows, day) = IF day <= DayOf(through) /\ MineOn(call, day)
                                                     THEN Total(DayCosts(rows, day), 1..Len(rows)) ELSE 0
  BY <1>2, GotIs
<1>11. /\ through \in Int /\ through <= EndOfDay(key[2])
       /\ \A i, j \in 1..Len(rows) : rows[i].day < rows[j].day => rows[i].day <= DayOf(through)
       /\ through >= EndOfDay(key[2]) => \E i \in 1..Len(rows) : rows[i].day = key[2]
  BY <1>9 DEF Reaches
<1> DEFINE last == DayOf(through)
<1>12. last \in Int /\ last <= key[2]
  <2> HIDE DEF through
  <2> QED BY <1>1, <1>11, DayWithin DEF IsKey
<1>13. ASSUME NEW day \in Int
       PROVE  GotOn(call, rows, day) = IF MineOn(call, day) /\ day <= last THEN DueOn(n, day) ELSE 0
  <2> DEFINE got == SeenCosts(day, key, n)
             due == [j \in 1..N |-> IF j <= n /\ lines[j].day = day THEN Effective(lines[j]) ELSE 0]
  <2>1. CASE MineOn(call, day) /\ day <= last
    <3>1. GotOn(call, rows, day) = Total(DayCosts(rows, day), 1..Len(rows))
      <4> HIDE DEF through
      <4> QED BY <1>10, <2>1
    <3>2. Total(DayCosts(rows, day), 1..Len(rows)) = Total(got, 1..N)
      BY DEF CameAt
    <3>3. DueOn(n, day) = Total(due, 1..N)
      BY DueIs
    <3>4. \A j \in 1..N :
            /\ got[j] = IF lines[j].day = day /\ Seen(j, key, n) THEN Effective(lines[j]) ELSE 0
            /\ due[j] = IF j <= n /\ lines[j].day = day THEN Effective(lines[j]) ELSE 0
      BY DEF SeenCosts
    <3>5. key[1] <= day /\ day <= key[2]
      <4>1. PICK p \in call.periods : PeriodContains(p, day)
        BY <2>1 DEF MineOn
      <4>2. p.start \in Int /\ p.start <= day /\ key[1] <= p.start /\ key[1] \in Int
        BY <1>1, <4>1 DEF WindowOK, IsPeriod, PeriodContains
      <4>3. key[2] \in Int
        BY <1>1 DEF IsKey
      <4> HIDE DEF key, last
      <4> QED BY <1>12, <2>1, <4>2, <4>3
    <3> HIDE DEF got, due, key, through, N, lines, last
    <3>6. \A j \in 1..N : got[j] = due[j]
      BY <3>4, <3>5 DEF Seen, lines
    <3>7. Total(got, 1..N) = Total(due, 1..N)
      BY <1>6, <3>6, TotalSame
    <3> QED BY <2>1, <3>1, <3>2, <3>3, <3>7
  <2>2. CASE ~(MineOn(call, day) /\ day <= last)
    <3> HIDE DEF through
    <3> QED BY <1>10, <2>2
  <2> QED BY <2>1, <2>2
<1>14. \A day \in DaysOf(lines) : day \in Int
  BY <1>6 DEF DaysOf
<1>15. \A day : SpentOn(day, Sent(n), Effective) = DueOn(n, day)
  BY DEF SpentOn, DueOn
<1> DEFINE sent == {i \in 1..n : PeriodContains(call.window, lines[i].day)}
<1>16. \A i, j \in sent : lines[i].day < lines[j].day => lines[i].day <= last
  <2> SUFFICES ASSUME NEW i \in sent, NEW j \in sent, lines[i].day < lines[j].day PROVE lines[i].day <= last
    OBVIOUS
  <2>1. i \in 1..N /\ j \in 1..N /\ Seen(i, key, n) /\ Seen(j, key, n)
    BY <1>1, <1>6 DEF Seen, PeriodContains
  <2>2. PICK k \in 1..Len(rows) : OfDay(rows[k], lines[i])
    BY <1>7, <2>1
  <2>3. PICK l \in 1..Len(rows) : OfDay(rows[l], lines[j])
    BY <1>7, <2>1
  <2>4. rows[k].day = lines[i].day /\ rows[l].day = lines[j].day
    BY <2>2, <2>3 DEF OfDay
  <2> HIDE DEF through, lines, sent
  <2> QED BY <1>11, <2>4
<1>17. ASSUME through >= EndOfDay(key[2]), MineOn(call, key[2])
       PROVE  \E m \in 1..Len(answer.records) : answer.records[m].day = key[2]
  <2>1. PICK i \in 1..Len(rows) : rows[i].day = key[2]
    BY <1>11, <1>17
  <2>2. /\ IsList(records) /\ Len(records) = Len(rows) /\ Len(rows) \in Nat /\ records[i].day = key[2]
        /\ i \in 1..Len(records)
    <3> HIDE DEF records
    <3> QED BY <1>2, <1>3, <2>1 DEF ReadFrom, AreLines, IsList
  <2>3. key[2] <= last
    <3>1. last \in Int /\ through <= EndOfDay(last)
      <4> HIDE DEF through
      <4> QED BY <1>11, DayOfIs
    <3>2. key[2] \in Int
      BY <1>1 DEF IsKey
    <3> HIDE DEF key, through, last
    <3>3. last < key[2] => EndOfDay(last) <= key[2] * HoursPerDay
      BY <3>1, <3>2, DaysEndInOrder
    <3>4. /\ EndOfDay(key[2]) = key[2] * HoursPerDay + HoursPerDay /\ key[2] * HoursPerDay \in Int
          /\ EndOfDay(last) \in Int
      BY <3>1, <3>2, DaysEndInOrder
    <3> QED BY <1>11, <1>17, <3>1, <3>2, <3>3, <3>4
  <2>4. i \in places
    <3>1. \E p \in call.periods : PeriodContains(p, records[i].day)
      BY <1>17, <2>2 DEF MineOn
    <3> QED BY <2>2, <2>3, <3>1
  <2>5. places \in SUBSET (1..Len(records))
    OBVIOUS
  <2> HIDE DEF places, records
  <2>6. Keeps(ElementsAt(records, places), records, places)
    BY <2>2, <2>5, Filtered
  <2>7. DOMAIN ElementsAt(records, places) = 1..Len(ElementsAt(records, places))
    BY <2>6, KeptIsList DEF Keeps
  <2>8. PICK m \in DOMAIN ElementsAt(records, places) : ElementsAt(records, places)[m] = records[i]
    BY <2>4, <2>6, KeptPlace
  <2> QED BY <1>4, <2>2, <2>7, <2>8
<1> HIDE DEF answer, records, places
<1>18. /\ answer.through = through /\ through \in Int /\ through <= EndOfDay(call.window.end)
       /\ answer.window = call.window /\ answer.periods = call.periods
  BY <1>1, <1>4, <1>11
<1> HIDE DEF through
<1>19. \A day \in DaysOf(lines) :
         SpentOn(day, answer.records, LAMBDA r : r.cost)
           = IF MineOn(call, day) /\ day <= last THEN SpentOn(day, Sent(n), Effective) ELSE 0
  BY <1>5, <1>13, <1>14, <1>15
<1>20. AnswerIsOf(answer, n)
  BY <1>16, <1>18, <1>19 DEF AnswerIsOf, MineOn
<1>21. ToldOfTheEnd(answer)
  BY <1>1, <1>17, <1>18 DEF ToldOfTheEnd, MineOn
<1>22. EndsWithAPeriod(answer)
  BY <1>1, <1>18 DEF EndsWithAPeriod
<1> QED BY <1>18, <1>20, <1>21, <1>22 DEF Whole, answer

-----------------------------------------------------------------------------
(* The money of the answers, as an invariant. *)

\* What had been reported as the clock came to a time stays, and there was never less later.
HeardOK ==
  /\ now \in Nat /\ reported \in 0..Len(ledger.rows)
  /\ \A t \in 0..now : heard[t] \in 0..reported
  /\ \A t, u \in 0..now : t <= u => heard[t] <= heard[u]

\* Rows that came for a key, at a moment not before a time.
Came(rows, key, t) == \E n \in heard[t]..reported : CameAt(rows, key, n)
KeptSince(entry, key) ==
  entry.expires \in Int /\ entry.expires - Ttl \in 0..now /\ Came(entry.rows, key, entry.expires - Ttl)

CallWhole(call) ==
  /\ call.stage \in {"waiting", "fetching"} => WindowOK(call)
  /\ call.stage = "waiting" => call.pages = 0
  /\ call.stage = "fetching" =>
       call.started \in 0..now /\ (call.pages # 0 => Came(call.total, CacheKey(call.window), call.started))
  /\ call.stage = "answered" /\ call.window # None => \E n \in 0..Len(ledger.rows) : Whole(call, n)

MoneyOK ==
  origin = "live" =>
    /\ ledger \in Ledgers /\ today \in Int /\ HeardOK
    /\ \A k \in DOMAIN cache : KeptSince(cache[k], k)
    /\ \A c \in Callers : CallWhole(calls[c])

\* A ledger stays what it is, of which ever more is reported.
OnlyMore == reported <= reported' /\ now <= now' /\ \A t \in 0..now : heard'[t] = heard[t]

LEMMA LedgerStays ==
  ASSUME UNCHANGED ledger, HeardOK, HeardOK', OnlyMore
  PROVE  /\ \A entry, key : KeptSince(entry, key) => KeptSince(entry, key)'
         /\ \A call : CallWhole(call) => CallWhole(call)'
<1>0. ledger' = ledger
  OBVIOUS
<1>1. ASSUME NEW row PROVE Effective(row)' = Effective(row)
  BY <1>0 DEF Effective
<1>2. Bare' <=> Bare
  BY <1>0 DEF Bare
<1>3. ASSUME NEW row PROVE IsLine(row)' <=> IsLine(row)
  BY <1>0, <1>2 DEF IsLine, Figured, Timed
<1>4. ASSUME NEW j, NEW key, NEW n PROVE Seen(j, key, n)' <=> Seen(j, key, n)
  BY <1>0 DEF Seen
<1>5. ASSUME NEW rows, NEW day PROVE DayCosts(rows, day)' = DayCosts(rows, day)
  BY <1>1 DEF DayCosts
<1>6. ASSUME NEW day, NEW key, NEW n PROVE SeenCosts(day, key, n)' = SeenCosts(day, key, n)
  BY <1>0, <1>1, <1>4 DEF SeenCosts
<1>7. ASSUME NEW rows, NEW key, NEW n PROVE CameAt(rows, key, n)' <=> CameAt(rows, key, n)
  BY <1>0, <1>3, <1>4, <1>5, <1>6 DEF CameAt
<1>8. /\ reported \in Int /\ reported' \in Int /\ reported <= reported' /\ now \in Nat /\ now' \in Nat
      /\ now <= now' /\ \A t \in 0..now : heard'[t] = heard[t] /\ heard[t] \in Int
  BY DEF HeardOK, OnlyMore
<1>9. ASSUME NEW rows, NEW key, NEW t \in 0..now, Came(rows, key, t) PROVE Came(rows, key, t)'
  <2>1. PICK n \in heard[t]..reported : CameAt(rows, key, n)
    BY <1>9 DEF Came
  <2>2. n \in heard'[t]..reported'
    BY <1>8
  <2>3. CameAt(rows, key, n)'
    BY <1>7, <2>1
  <2> QED BY <2>2, <2>3 DEF Came
<1>10. \A t \in 0..now : t \in 0..now'
  BY <1>8
<1>11. ASSUME NEW entry, NEW key, KeptSince(entry, key) PROVE KeptSince(entry, key)'
  BY <1>9, <1>10, <1>11 DEF KeptSince
<1>12. ASSUME NEW call, NEW n PROVE Whole(call, n)' <=> Whole(call, n)
  <2>1. Sent(n)' = Sent(n)
    BY <1>0 DEF Sent
  <2>2. AnswerIsOf(call, n)' <=> AnswerIsOf(call, n)
    BY <1>0, <1>1, <2>1 DEF AnswerIsOf, SpentOn
  <2> QED BY <2>2 DEF Whole, EndsWithAPeriod, ToldOfTheEnd
<1>13. ASSUME NEW call, CallWhole(call) PROVE CallWhole(call)'
  <2>1. WindowOK(call)' <=> WindowOK(call)
    BY DEF WindowOK, EndsWithAPeriod
  <2> QED BY <1>0, <1>9, <1>10, <1>12, <1>13, <2>1 DEF CallWhole
<1> QED BY <1>11, <1>13

\* What a caller is answered is of no older moment than it may be.
Fresh(c, call) ==
  call.stage = "answered" /\ call.window # None => \E n \in heard[Oldest(c)]..reported : AnswerIsOf(call, n)

\* A caller's turn: it is in order again, and what is kept came for its key.
Turns(c) ==
  /\ UNCHANGED <<ledger, reported, heard, today, now>>
  /\ \A k \in DOMAIN cache' : KeptSince(cache'[k], k)
  /\ \E call : CallWhole(call) /\ Fresh(c, call) /\ calls' = [calls EXCEPT ![c] = call]

GoodPeriods(periods) == periods # {} /\ IsFiniteSet(periods) /\ \A p \in periods : IsPeriod(p)

LEMMA LedgerIs ==
  ASSUME ledger \in Ledgers
  PROVE  AreSources(ledger.rows) /\ KnownFormat /\ ledger.known \in 0..Len(ledger.rows)
<1> DEFINE rows == ledger.rows
<1>1. /\ ledger.format \in {"aws", "azure", "gcp"} /\ IsLedger(rows) /\ ledger.known \in 0..Len(rows)
      /\ \A i \in 1..Len(rows) : IF ledger.format = "gcp" THEN rows[i].ends \in 1..HoursPerDay ELSE rows[i].ends = None
      /\ ledger.format = "aws" =>
           \A i, j \in 1..Len(rows) : rows[i].amortized = None => rows[j].amortized = None
  BY LedgersAssumption
<1>2. \A i \in 1..Len(rows) : IsRow(rows[i]) /\ Timed(rows[i])
  BY <1>1 DEF IsLedger, Timed
<1>3. ledger.format = "aws" => \A i \in 1..Len(rows) : rows[i].amortized = None <=> Bare
  BY <1>1 DEF Bare
<1>4. \A i \in 1..Len(rows) : IsSource(rows[i])
  BY <1>2, <1>3 DEF IsSource
<1> QED BY <1>1, <1>4 DEF AreSources, IsLedger, KnownFormat

LEMMA WindowIs ==
  ASSUME NEW periods, GoodPeriods(periods), today \in Int, LiveWindow(periods) # None
  PROVE  /\ IsPeriod(LiveWindow(periods))
         /\ \A p \in periods : IsPeriod(p) /\ LiveWindow(periods).start <= p.start
         /\ \E p \in periods : LiveWindow(periods).end <= p.end
<1> DEFINE start == [p \in periods |-> p.start]
           end == [p \in periods |-> p.end]
           S == {p.start : p \in periods}
           E == {p.end : p \in periods}
           first == Smallest(S)
           last == Smaller(Largest(E), today - 1)
<1>1. \A p \in periods : p.start \in Int /\ p.end \in Int /\ IsPeriod(p)
  BY DEF GoodPeriods, IsPeriod
<1>2. IsFiniteSet(S) /\ IsFiniteSet(E)
  <2>1. IsFiniteSet({start[p] : p \in periods}) /\ IsFiniteSet({end[p] : p \in periods})
    <3> HIDE DEF start, end
    <3> QED BY ImageIsFinite DEF GoodPeriods
  <2>2. {start[p] : p \in periods} = S /\ {end[p] : p \in periods} = E
    OBVIOUS
  <2> HIDE DEF S, E, start, end
  <2> QED BY <2>1, <2>2
<1>3. S \in SUBSET Int /\ E \in SUBSET Int /\ S # {} /\ E # {}
  BY <1>1 DEF GoodPeriods
<1>4. /\ \A p \in periods : p.start \in S
      /\ \A e \in E : \E p \in periods : e = p.end
  OBVIOUS
<1>5. LiveWindow(periods) = IF last < first THEN None ELSE [start |-> first, end |-> last]
  BY DEF LiveWindow
<1> HIDE DEF S, E
<1>6. first \in S /\ \A y \in S : first <= y
  BY <1>2, <1>3, HasSmallest
<1>7. Largest(E) \in E
  BY <1>2, <1>3, HasLargest
<1>8. first \in Int /\ last \in Int /\ Largest(E) \in Int /\ last <= Largest(E)
  <2>1. first \in Int
    <3> HIDE DEF first
    <3> QED BY <1>3, <1>6
  <2>2. Largest(E) \in Int /\ today - 1 \in Int
    <3>1. E \in SUBSET Int /\ Largest(E) \in E
      BY <1>3, <1>7
    <3>2. Largest(E) \in Int
      BY <3>1
    <3> QED BY <3>2
  <2>3. last \in Int /\ last <= Largest(E)
    BY <2>2 DEF Smaller
  <2> QED BY <2>1, <2>2, <2>3
<1> HIDE DEF first, last
<1>9. LiveWindow(periods) = [start |-> first, end |-> last] /\ first <= last
  BY <1>5, <1>8
<1>10. PICK p \in periods : Largest(E) = p.end
  BY <1>4, <1>7
<1>11. last <= p.end
  BY <1>8, <1>10
<1> QED BY <1>1, <1>4, <1>6, <1>8, <1>9, <1>11 DEF IsPeriod

\* Whoever gets the lock of a window fetches, or takes what is kept and has not expired.
LEMMA EnteredWhole ==
  ASSUME AreSources(ledger.rows), KnownFormat, HeardOK, NEW c, ~Fetching(c),
         NEW call, DOMAIN call = CallFields, WindowOK(call), call.pages = 0,
         NEW entries, \A k \in DOMAIN entries : KeptSince(entries[k], k)
  PROVE  CallWhole(Entered(call, entries)) /\ Fresh(c, Entered(call, entries))
<1> DEFINE key == CacheKey(call.window)
           started == [call EXCEPT !.stage = "fetching", !.started = now, !.attempt = 1]
<1>1. CASE key \in DOMAIN entries /\ entries[key].expires > now
  <2> DEFINE t == entries[key].expires - Ttl
             answer == Answered(call, entries[key].rows)
             oldest == Oldest(c)
  <2>1. Entered(call, entries) = answer
    BY <1>1 DEF Entered
  <2>2. entries[key].expires \in Int /\ t \in 0..now /\ Came(entries[key].rows, key, t)
    BY <1>1 DEF KeptSince
  <2>3. oldest \in 0..now /\ oldest <= t
    <3>1. oldest = Larger(0, now + 1 - Ttl)
      BY DEF Oldest
    <3>2. now \in Nat /\ Ttl \in Nat
      BY DEF HeardOK
    <3>3. now + 1 - Ttl <= t /\ t \in Int /\ 0 <= t /\ t <= now
      BY <1>1, <2>2, <3>2
    <3> HIDE DEF t, oldest
    <3> QED BY <3>1, <3>2, <3>3 DEF Larger
  <2> HIDE DEF t, oldest
  <2>4. PICK n \in heard[t]..reported : CameAt(entries[key].rows, key, n)
    BY <2>2 DEF Came
  <2>5. n \in 0..Len(ledger.rows) /\ n \in heard[oldest]..reported
    <3>1. /\ heard[t] \in 0..reported /\ heard[oldest] \in 0..reported /\ heard[oldest] <= heard[t]
          /\ reported \in 0..Len(ledger.rows)
      BY <2>2, <2>3 DEF HeardOK
    <3>2. Len(ledger.rows) \in Nat
      BY DEF AreSources, IsList
    <3> QED BY <3>1, <3>2
  <2>6. Whole(answer, n)
    BY <2>4, <2>5, AnsweredWhole
  <2>7. answer.stage = "answered"
    BY DEF Answered, NotAsked
  <2> HIDE DEF answer
  <2>8. CallWhole(answer)
    BY <2>5, <2>6, <2>7 DEF CallWhole
  <2>9. Fresh(c, answer)
    BY <2>5, <2>6 DEF Fresh, Whole, oldest
  <2> QED BY <2>1, <2>8, <2>9
<1>2. CASE ~(key \in DOMAIN entries /\ entries[key].expires > now)
  <2>1. Entered(call, entries) = started
    BY <1>2 DEF Entered
  <2>2. /\ started.stage = "fetching" /\ started.pages = call.pages /\ started.started = now
        /\ started.window = call.window /\ started.periods = call.periods
    BY DEF CallFields, NotAsked
  <2> HIDE DEF started
  <2>3. WindowOK(started)
    BY <2>2 DEF WindowOK, EndsWithAPeriod
  <2>4. started.started \in 0..now
    BY <2>2 DEF HeardOK
  <2> QED BY <2>1, <2>2, <2>3, <2>4 DEF CallWhole, Fresh
<1> QED BY <1>1, <1>2

LEMMA OverIsWhole == CallWhole(Over) /\ \A c : Fresh(c, Over)
<1>1. Over.stage = "over"
  BY DEF Over, NotAsked
<1> QED BY <1>1 DEF CallWhole, Fresh

LEMMA CallMade ==
  ASSUME MoneyOK, FetchIInv, origin = "live", UNCHANGED origin, NEW c \in Callers, Turns(c)
  PROVE  MoneyOK'
<1>0. PICK call : CallWhole(call) /\ calls' = [calls EXCEPT ![c] = call]
  BY DEF Turns
<1>1. \A d \in Callers : calls'[d] = IF d = c THEN call ELSE calls[d]
  BY <1>0 DEF FetchIInv, LiveTypes
<1>2. \A d \in Callers : CallWhole(calls'[d])
  BY <1>0, <1>1 DEF MoneyOK
<1>3. UNCHANGED <<ledger, reported, heard, today, now>> /\ HeardOK
  BY DEF Turns, MoneyOK
<1>4. HeardOK'
  BY <1>3 DEF HeardOK
<1>5. OnlyMore
  BY <1>3 DEF OnlyMore, HeardOK
<1>6. /\ \A entry, key : KeptSince(entry, key) => KeptSince(entry, key)'
      /\ \A d : CallWhole(d) => CallWhole(d)'
  BY <1>3, <1>4, <1>5, LedgerStays
<1>7. (\A k \in DOMAIN cache : KeptSince(cache[k], k))'
  BY <1>6 DEF Turns
<1>8. (\A d \in Callers : CallWhole(calls[d]))'
  BY <1>2, <1>6
<1>9. ledger' \in Ledgers /\ today' \in Int
  BY <1>3 DEF MoneyOK
<1> QED BY <1>4, <1>7, <1>8, <1>9 DEF MoneyOK

LEMMA AskWhole ==
  ASSUME MoneyOK, FetchIInv, origin = "live", UNCHANGED origin, NEW c \in Callers,
         NEW periods, GoodPeriods(periods), Ask(c, periods)
  PROVE  Turns(c)
<1> DEFINE window == LiveWindow(periods)
           call == [NotAsked EXCEPT !.periods = periods, !.window = window]
<1>1. UNCHANGED <<ledger, reported, heard, today, now>>
  BY DEF Ask
<1>2. /\ \A k \in DOMAIN cache : KeptSince(cache[k], k)
      /\ today \in Int /\ ledger \in Ledgers /\ HeardOK
  BY DEF MoneyOK
<1>3. AreSources(ledger.rows) /\ KnownFormat
  BY <1>2, LedgerIs
<1>4. CASE window = None
  <2> DEFINE answered == [call EXCEPT !.stage = "answered", !.through = EndOfDay(today - 1)]
  <2>1. calls' = [calls EXCEPT ![c] = answered] /\ cache' = cache
    BY <1>4 DEF Ask
  <2>2. answered.window = None /\ answered.stage = "answered"
    BY <1>4 DEF NotAsked
  <2> HIDE DEF answered
  <2>3. CallWhole(answered) /\ Fresh(c, answered)
    BY <2>2 DEF CallWhole, Fresh
  <2> QED BY <1>1, <1>2, <2>1, <2>3 DEF Turns
<1>5. CASE window # None /\ Days(window) > MaxDays
  <2>1. calls' = [calls EXCEPT ![c] = Over] /\ cache' = cache
    BY <1>5 DEF Ask
  <2> QED BY <1>1, <1>2, <2>1, OverIsWhole DEF Turns
<1>6. CASE window # None /\ ~(Days(window) > MaxDays)
  <2>1. PICK kept \in Purged : \E lock :
          LET entries == [k \in kept |-> cache[k]]
          IN  /\ cache' = entries
              /\ \/ calls' = [calls EXCEPT ![c] = Entered([call EXCEPT !.lock = lock], entries)]
                 \/ calls' = [calls EXCEPT ![c] = [call EXCEPT !.stage = "waiting", !.lock = lock]]
    BY <1>6 DEF Ask
  <2> DEFINE entries == [k \in kept |-> cache[k]]
  <2>2. PICK lock : \/ calls' = [calls EXCEPT ![c] = Entered([call EXCEPT !.lock = lock], entries)]
                    \/ calls' = [calls EXCEPT ![c] = [call EXCEPT !.stage = "waiting", !.lock = lock]]
    BY <2>1
  <2>3. kept \subseteq DOMAIN cache
    BY DEF Purged
  <2>4. \A k \in DOMAIN entries : KeptSince(entries[k], k)
    BY <1>2, <2>3
  <2>5. cache' = entries
    BY <2>1
  <2> HIDE DEF entries
  <2> DEFINE first == [call EXCEPT !.lock = lock]
             waiting == [call EXCEPT !.stage = "waiting", !.lock = lock]
  <2>6. /\ DOMAIN first = CallFields /\ first.window = window /\ first.periods = periods /\ first.pages = 0
        /\ waiting.window = window /\ waiting.periods = periods /\ waiting.pages = 0 /\ waiting.stage = "waiting"
    BY DEF NotAsked, CallFields
  <2>7. /\ IsPeriod(window) /\ \A p \in periods : IsPeriod(p) /\ window.start <= p.start
        /\ \E p \in periods : window.end <= p.end
    BY <1>2, <1>6, WindowIs
  <2>8. ~Fetching(c)
    BY DEF Ask, Fetching
  <2> HIDE DEF first, waiting, window
  <2>9. WindowOK(first) /\ WindowOK(waiting)
    BY <2>6, <2>7 DEF WindowOK, EndsWithAPeriod, IsPeriod
  <2>10. CallWhole(Entered(first, entries)) /\ Fresh(c, Entered(first, entries))
    BY <1>2, <1>3, <2>4, <2>6, <2>8, <2>9, EnteredWhole
  <2>11. CallWhole(waiting) /\ Fresh(c, waiting)
    BY <2>6, <2>9 DEF CallWhole, Fresh
  <2>12. \A k \in DOMAIN cache' : KeptSince(cache'[k], k)
    BY <2>4, <2>5
  <2>13. \E made : CallWhole(made) /\ Fresh(c, made) /\ calls' = [calls EXCEPT ![c] = made]
    BY <2>2, <2>10, <2>11 DEF first, waiting
  <2> QED BY <1>1, <2>12, <2>13 DEF Turns
<1> QED BY <1>4, <1>5, <1>6

LEMMA TurnWhole ==
  ASSUME MoneyOK, FetchIInv, origin = "live", NEW c \in Callers,
         Acquire(c) \/ ReadAll(c) \/ ReadPage(c) \/ PostAgain(c) \/ FetchFails(c) \/ Cancel(c)
  PROVE  Turns(c)
<1> DEFINE mine == calls[c]
           key == CacheKey(mine.window)
           same == UNCHANGED <<ledger, reported, heard, today, now>>
           order(call) == CallWhole(call) /\ Fresh(c, call)
<1>1. /\ \A k \in DOMAIN cache : KeptSince(cache[k], k)
      /\ ledger \in Ledgers /\ HeardOK /\ CallWhole(mine)
  BY DEF MoneyOK
<1>2. AreSources(ledger.rows) /\ KnownFormat
  BY <1>1, LedgerIs
<1>3. DOMAIN mine = CallFields
  BY DEF FetchIInv, LiveTypes
<1>4. /\ mine.stage \in {"waiting", "fetching"} => WindowOK(mine)
      /\ mine.stage = "waiting" => mine.pages = 0
      /\ mine.stage = "fetching" =>
           mine.started \in 0..now /\ (mine.pages # 0 => Came(mine.total, key, mine.started))
  BY <1>1 DEF CallWhole
<1>5. mine.stage = "fetching" => Came(Query(mine.window), key, mine.started)
  <2> SUFFICES ASSUME mine.stage = "fetching" PROVE Came(Query(mine.window), key, mine.started)
    OBVIOUS
  <2>1. CameAt(Query(mine.window), key, reported)
    BY <1>2, QueryCame
  <2> HIDE DEF mine
  <2>2. heard[mine.started] \in 0..reported /\ reported \in 0..Len(ledger.rows)
    BY <1>1, <1>4 DEF HeardOK
  <2>3. reported \in heard[mine.started]..reported
    BY <2>2
  <2> QED BY <2>1, <2>3 DEF Came
<1>6. Fetching(c) <=> mine.stage = "fetching"
  BY DEF Fetching
<1>7. Fetching(c) => Oldest(c) = mine.started
  BY DEF Oldest
<1>8. ASSUME same, cache' = cache, NEW call, order(call), calls' = [calls EXCEPT ![c] = call] PROVE Turns(c)
  BY <1>1, <1>8 DEF Turns
<1> HIDE DEF mine, key
<1>9. ASSUME GiveUp(c) PROVE Turns(c)
  <2>1. calls' = [calls EXCEPT ![c] = Over] /\ same /\ cache' = cache
    BY <1>9 DEF GiveUp
  <2> HIDE DEF same
  <2> QED BY <1>8, <2>1, OverIsWhole
<1>10. ASSUME NEW rows, Fetching(c), Came(rows, key, mine.started), Complete(c, rows) PROVE Turns(c)
  <2> DEFINE answer == Answered(mine, rows)
             expires == mine.started + Ttl
  <2>1. /\ calls' = [calls EXCEPT ![c] = answer] /\ same
        /\ \A k \in DOMAIN cache' : \/ k = key /\ cache'[k] = [expires |-> expires, rows |-> rows]
                                    \/ k \in DOMAIN cache /\ cache'[k] = cache[k]
    BY <1>10 DEF Complete, mine, key
  <2>2. mine.started \in 0..now /\ now \in Nat /\ WindowOK(mine)
    BY <1>1, <1>4, <1>6, <1>10 DEF HeardOK
  <2>3. expires \in Int /\ expires - Ttl = mine.started
    BY <2>2
  <2> HIDE DEF answer, expires, same
  <2>4. KeptSince([expires |-> expires, rows |-> rows], key)
    BY <1>10, <2>2, <2>3 DEF KeptSince
  <2>5. \A k \in DOMAIN cache' : KeptSince(cache'[k], k)
    BY <1>1, <2>1, <2>4
  <2>6. PICK n \in heard[mine.started]..reported : CameAt(rows, key, n)
    BY <1>10 DEF Came
  <2>7. n \in 0..Len(ledger.rows)
    <3>1. heard[mine.started] \in 0..reported /\ reported \in 0..Len(ledger.rows) /\ Len(ledger.rows) \in Nat
      BY <1>1, <1>2, <2>2 DEF HeardOK, AreSources, IsList
    <3> QED BY <3>1
  <2>8. Whole(answer, n)
    BY <1>2, <2>2, <2>6, <2>7, AnsweredWhole DEF answer, key
  <2>9. answer.stage = "answered"
    BY DEF Answered, NotAsked, answer
  <2>10. CallWhole(answer)
    BY <2>7, <2>8, <2>9 DEF CallWhole
  <2>11. Fresh(c, answer)
    BY <1>7, <1>10, <2>6, <2>8 DEF Fresh, Whole
  <2> QED BY <2>1, <2>5, <2>10, <2>11 DEF Turns, same
<1>11. CASE Acquire(c)
  <2>1. calls' = [calls EXCEPT ![c] = Entered(mine, cache)] /\ same /\ cache' = cache /\ mine.stage = "waiting"
    BY <1>11 DEF Acquire, mine
  <2> HIDE DEF same
  <2>2. CallWhole(Entered(mine, cache)) /\ Fresh(c, Entered(mine, cache))
    <3>1. ~Fetching(c) /\ WindowOK(mine) /\ mine.pages = 0
      BY <1>4, <1>6, <2>1
    <3> QED BY <1>1, <1>2, <1>3, <3>1, EnteredWhole
  <2> QED BY <1>8, <2>1, <2>2
<1>12. CASE ReadAll(c)
  <2>1. Fetching(c) /\ Complete(c, Query(mine.window))
    BY <1>12 DEF ReadAll, mine
  <2> HIDE DEF same, order
  <2> QED BY <1>5, <1>6, <1>10, <2>1
<1>13. CASE FetchFails(c) \/ Cancel(c)
  BY <1>9, <1>13 DEF FetchFails, Cancel
<1>14. CASE PostAgain(c)
  <2> DEFINE call == [mine EXCEPT !.attempt = @ + 1]
  <2>1. calls' = [calls EXCEPT ![c] = call] /\ same /\ cache' = cache /\ mine.stage = "fetching"
    BY <1>14 DEF PostAgain, Fetching, mine
  <2>2. /\ call.stage = mine.stage /\ call.window = mine.window /\ call.periods = mine.periods
        /\ call.pages = mine.pages /\ call.total = mine.total /\ call.started = mine.started
    BY <1>3 DEF CallFields, NotAsked
  <2> HIDE DEF call, same
  <2>3. CallWhole(call) /\ Fresh(c, call)
    BY <1>4, <2>1, <2>2 DEF CallWhole, WindowOK, EndsWithAPeriod, Fresh, key
  <2> QED BY <1>8, <2>1, <2>3
<1>15. CASE ReadPage(c)
  <2> DEFINE total == IF mine.pages = 0 THEN Query(mine.window) ELSE mine.total
             call == [mine EXCEPT !.total = total, !.pages = @ + 1, !.attempt = 1]
  <2>1. /\ Fetching(c)
        /\ \/ Complete(c, total)
           \/ GiveUp(c)
           \/ calls' = [calls EXCEPT ![c] = call] /\ same /\ cache' = cache
    BY <1>15 DEF ReadPage, mine
  <2>2. mine.stage = "fetching"
    BY <1>6, <2>1
  <2>3. Came(total, key, mine.started)
    BY <1>4, <1>5, <2>2
  <2> HIDE DEF total
  <2>4. /\ call.stage = mine.stage /\ call.window = mine.window /\ call.periods = mine.periods
        /\ call.total = total /\ call.started = mine.started
    BY <1>3 DEF CallFields, NotAsked
  <2> HIDE DEF call, same
  <2>5. CallWhole(call) /\ Fresh(c, call)
    BY <1>4, <2>2, <2>3, <2>4 DEF CallWhole, WindowOK, EndsWithAPeriod, Fresh, key
  <2> QED BY <1>8, <1>9, <1>10, <2>1, <2>3, <2>5
<1> QED BY <1>11, <1>12, <1>13, <1>14, <1>15

LEMMA InitMoneyOK == Init => MoneyOK
<1> SUFFICES ASSUME Init, origin = "live" PROVE MoneyOK
  BY DEF MoneyOK
<1>1. /\ ledger \in Ledgers /\ reported = ledger.known /\ today = FirstToday
      /\ calls = [c \in Callers |-> NotAsked] /\ cache = [k \in {} |-> None]
      /\ now = 0 /\ heard = [t \in {0} |-> reported]
  BY DEF Init, LiveInit
<1>2. today \in Int /\ reported \in 0..Len(ledger.rows)
  BY <1>1, LedgerIs, AskedAssumption
<1>3. HeardOK
  <2>1. 0..0 = {0} /\ heard[0] = reported /\ reported \in Nat
    BY <1>1, <1>2
  <2> QED BY <1>1, <1>2, <2>1 DEF HeardOK
<1>4. NotAsked.stage = "idle"
  BY DEF NotAsked
<1>5. CallWhole(NotAsked)
  BY <1>4 DEF CallWhole
<1>6. \A c \in Callers : CallWhole(calls[c])
  BY <1>1, <1>5
<1>7. \A k \in DOMAIN cache : KeptSince(cache[k], k)
  BY <1>1
<1> QED BY <1>1, <1>2, <1>3, <1>6, <1>7 DEF MoneyOK

LEMMA PeriodsAsked ==
  ASSUME IsInput(input), NEW c \in Callers, NEW periods \in AskedNow(c)
  PROVE  GoodPeriods(periods)
<1>1. periods = Periods \/ periods \in Asked
  BY DEF AskedNow
<1>2. CASE periods \in Asked
  BY <1>2, AskedAssumption DEF GoodPeriods
<1>3. CASE periods = Periods
  <2>1. IsFiniteSet({input.current, input.baseline})
    <3>1. IsFiniteSet({input.current}) /\ IsFiniteSet({input.baseline})
      BY FS_Singleton
    <3>2. {input.current, input.baseline} = {input.current} \cup {input.baseline}
      OBVIOUS
    <3> QED BY <3>1, <3>2, FS_Union
  <2>2. IsPeriod(input.current) /\ IsPeriod(input.baseline)
    BY DEF IsInput
  <2> QED BY <1>3, <2>1, <2>2 DEF GoodPeriods, Periods
<1> QED BY <1>1, <1>2, <1>3

\* Every step of the live data is a caller's turn, or of the world.
LEMMA LiveTurns ==
  ASSUME MoneyOK, IsInput(input), FetchIInv, LiveStep
  PROVE  (\E c \in Callers : Turns(c)) \/ Report \/ Tick \/ Midnight
<1>1. origin = "live" /\ UNCHANGED origin
  BY DEF LiveStep
<1>2. CASE \E c \in Callers : \E periods \in AskedNow(c) : Ask(c, periods)
  <2>1. PICK c \in Callers : \E periods \in AskedNow(c) : Ask(c, periods)
    BY <1>2
  <2>2. PICK periods \in AskedNow(c) : Ask(c, periods)
    BY <2>1
  <2>3. GoodPeriods(periods)
    BY PeriodsAsked
  <2> QED BY <1>1, <2>2, <2>3, AskWhole
<1>3. CASE \E c \in Callers : \/ Acquire(c) \/ ReadAll(c) \/ ReadPage(c) \/ PostAgain(c)
                              \/ FetchFails(c) \/ Cancel(c)
  BY <1>1, <1>3, TurnWhole
<1> QED BY <1>2, <1>3 DEF LiveStep, LiveNext

LEMMA MoneyStep == MoneyOK /\ DataIInv /\ FetchIInv /\ [Next]_pipelineVars => MoneyOK'
<1> SUFFICES ASSUME MoneyOK, DataIInv, FetchIInv, [Next]_pipelineVars PROVE MoneyOK'
  OBVIOUS
<1>1. ASSUME UNCHANGED <<ledger, cache, calls, origin>>, origin = "live" => HeardOK' /\ OnlyMore /\ today' \in Int
      PROVE  MoneyOK'
  <2> SUFFICES ASSUME origin' = "live" PROVE MoneyOK'
    BY DEF MoneyOK
  <2>1. origin = "live" /\ HeardOK' /\ today' \in Int
    BY <1>1
  <2>2. /\ \A entry, key : KeptSince(entry, key) => KeptSince(entry, key)'
        /\ \A d : CallWhole(d) => CallWhole(d)'
    BY <1>1, <2>1, LedgerStays DEF MoneyOK
  <2>3. /\ (\A k \in DOMAIN cache : KeptSince(cache[k], k))'
        /\ (\A d \in Callers : CallWhole(calls[d]))'
    BY <1>1, <2>1, <2>2 DEF MoneyOK
  <2>4. ledger' \in Ledgers
    BY <1>1, <2>1 DEF MoneyOK
  <2> QED BY <2>1, <2>3, <2>4 DEF MoneyOK
<1>2. ASSUME UNCHANGED <<ledger, cache, calls, origin, reported, heard, today, now>> PROVE MoneyOK'
  <2>1. origin = "live" => HeardOK' /\ OnlyMore /\ today' \in Int
    BY <1>2 DEF MoneyOK, HeardOK, OnlyMore
  <2> QED BY <1>1, <1>2, <2>1
<1>3. CASE UNCHANGED pipelineVars
  BY <1>2, <1>3 DEF pipelineVars, liveVars
<1>4. CASE LiveStep
  <2>1. origin = "live" /\ UNCHANGED origin /\ HeardOK /\ today \in Int
    BY <1>4 DEF LiveStep, MoneyOK
  <2>2. now \in Nat /\ reported \in Nat /\ \A t \in 0..now : heard[t] \in 0..reported
    BY <2>1 DEF HeardOK
  <2>3. CASE \E c \in Callers : Turns(c)
    BY <2>1, <2>3, CallMade
  <2>4. CASE Report
    <3>1. UNCHANGED <<ledger, cache, calls, today, heard, now>> /\ reported' = reported + 1
          /\ reported < Len(ledger.rows)
      BY <2>4 DEF Report
    <3>2. Len(ledger.rows) \in Nat
      BY LedgerIs DEF MoneyOK, AreSources, IsList, LiveStep
    <3>3. HeardOK'
      <4>1. reported' \in 0..Len(ledger.rows)
        BY <2>2, <3>1, <3>2
      <4>2. \A t \in 0..now : heard[t] \in 0..reported'
        BY <2>2, <3>1
      <4> QED BY <2>1, <3>1, <4>1, <4>2 DEF HeardOK
    <3>4. OnlyMore
      BY <2>2, <3>1 DEF OnlyMore
    <3> QED BY <1>1, <2>1, <3>1, <3>3, <3>4
  <2>5. CASE Tick
    <3>1. /\ UNCHANGED <<ledger, cache, calls, today, reported>> /\ now' = now + 1
          /\ heard' = [t \in 0..(now + 1) |-> IF t = now + 1 THEN reported ELSE heard[t]]
      BY <2>5 DEF Tick
    <3>2. \A t \in 0..(now + 1) : t = now + 1 \/ t \in 0..now
      BY <2>2
    <3>3. /\ \A t \in 0..now : heard'[t] = heard[t]
          /\ heard'[now + 1] = reported
      BY <2>2, <3>1
    <3>4. OnlyMore
      BY <2>2, <3>1, <3>3 DEF OnlyMore
    <3>5. \A t \in 0..(now + 1) : heard'[t] \in 0..reported
      BY <2>2, <3>2, <3>3
    <3>6. \A t, u \in 0..(now + 1) : t <= u => heard'[t] <= heard'[u]
      <4> SUFFICES ASSUME NEW t \in 0..(now + 1), NEW u \in 0..(now + 1), t <= u PROVE heard'[t] <= heard'[u]
        OBVIOUS
      <4>1. CASE u = now + 1
        BY <2>2, <3>3, <3>5, <4>1
      <4>2. CASE u \in 0..now
        <5>1. t \in 0..now
          BY <2>2, <4>2
        <5> QED BY <2>1, <3>3, <4>2, <5>1 DEF HeardOK
      <4> QED BY <3>2, <4>1, <4>2
    <3>7. HeardOK'
      BY <2>1, <2>2, <3>1, <3>5, <3>6 DEF HeardOK
    <3> QED BY <1>1, <2>1, <3>1, <3>4, <3>7
  <2>6. CASE Midnight
    <3>1. UNCHANGED <<ledger, cache, calls, reported, heard, now>> /\ today' = today + 1
      BY <2>6 DEF Midnight
    <3>2. HeardOK' /\ OnlyMore /\ today' \in Int
      BY <2>1, <3>1 DEF HeardOK, OnlyMore
    <3> QED BY <1>1, <2>1, <3>1, <3>2
  <2> QED BY <1>4, <2>3, <2>4, <2>5, <2>6, LiveTurns DEF DataIInv
<1>5. CASE \/ \E kind \in Kinds : PutSource(kind)
           \/ LoadDataset \/ LoadLive \/ LoadFails \/ LoadBundle \/ BundleFails \/ AnalysisStep
  BY <1>2, <1>5
  DEF PutSource, LoadDataset, LoadLive, LoadFails, LoadBundle, BundleFails, AnalysisStep, liveVars
<1> QED BY <1>3, <1>4, <1>5 DEF Next

LEMMA MoneyInvariance == Spec => []MoneyOK
<1> QED BY InitMoneyOK, MoneyStep, DataInvariance, FetchInvariance, PTL DEF Spec

\* Whoever fetched a response and however the provider reported, in order or days late:
\* what any caller gets of any ledger, for any periods it asks for, is what the provider
\* had reported at one moment that is not too long ago, on each of their days up to the
\* boundary, of which it cuts off at most the last day.
THEOREM LiveAnswersAreWhole == Spec => AnswersAreWhole
<1>1. MoneyOK /\ DataIInv /\ FetchIInv /\ [Next]_pipelineVars =>
        [\A c \in Callers :
           calls[c].stage # "answered" /\ calls'[c].stage = "answered" /\ calls'[c].window # None =>
             \E n \in heard[Oldest(c)]..reported : AnswerIsOf(calls'[c], n)]_liveVars
  <2> SUFFICES ASSUME MoneyOK, DataIInv, FetchIInv, [Next]_pipelineVars, NEW c \in Callers,
                      calls[c].stage # "answered", calls'[c].stage = "answered", calls'[c].window # None
               PROVE  \E n \in heard[Oldest(c)]..reported : AnswerIsOf(calls'[c], n)
    OBVIOUS
  <2>1. calls' # calls
    OBVIOUS
  <2>2. LiveStep
    BY <2>1 DEF Next, PutSource, LoadDataset, LoadLive, LoadFails, LoadBundle, BundleFails, AnalysisStep,
                liveVars, pipelineVars
  <2>3. PICK d \in Callers : Turns(d)
    <3>1. ~Report /\ ~Tick /\ ~Midnight
      BY <2>1 DEF Report, Tick, Midnight
    <3> QED BY <2>2, <3>1, LiveTurns DEF DataIInv
  <2>4. PICK call : Fresh(d, call) /\ calls' = [calls EXCEPT ![d] = call]
    BY <2>3 DEF Turns
  <2>5. DOMAIN calls = Callers
    BY DEF FetchIInv, LiveTypes
  <2>6. c = d
    BY <2>4, <2>5
  <2> QED BY <2>4, <2>5, <2>6 DEF Fresh
<1> QED BY <1>1, MoneyInvariance, DataInvariance, FetchInvariance, PTL DEF Spec, AnswersAreWhole
=============================================================================
