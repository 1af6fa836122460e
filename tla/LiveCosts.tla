------------------------------- MODULE LiveCosts -------------------------------
(***************************************************************************)
(* Costs read from the operator's own bill (providers live.py): the window *)
(* that is asked for, the cache of responses that the callers of a process *)
(* share, the requests to the three providers and what their answers lose. *)
(* One provider; the ledger is all the usage it will ever report,          *)
(*   [format, rows, known, detailed],                                      *)
(* in the rows of UploadParsing and in the order in which it reports them, *)
(* which is any order: usage of a day can come days later.  It knows the   *)
(* first rows from the start; detailed is GCP's resource-level export.     *)
(* One response, of however many pages, is of one moment.                  *)
(***************************************************************************)
EXTENDS UploadParsing

CONSTANTS
  Callers,       \* the orchestrator, the worker and the tool server of one process
  Asked,         \* sets of periods a caller may ask for
  Ttl,           \* LIVE_FETCH_TTL_SECONDS, in ticks
  MaxEntries,    \* LIVE_FETCH_MAX_ENTRIES
  MaxAttempts,   \* AZURE_MAX_ATTEMPTS
  MaxPages,      \* AZURE_MAX_PAGES
  PageSize,      \* rows the provider puts on a page
  MaxDays,       \* live_query_max_days
  Horizon,       \* bound of the clock
  LastToday      \* bound of the calendar

ASSUME LiveAssumption == Ttl \in Nat \ {0} /\ MaxEntries \in Nat \ {0} /\ MaxPages \in Nat \ {0}

VARIABLES
  ledger,      \* what the provider comes to know
  reported,    \* how many of its rows it has reported
  heard,       \* heard[t]: how many it had reported as the clock came to t
  today,       \* the UTC day
  now,         \* the monotonic clock
  cache,       \* _fetch_cache: a response and when it expires, by key
  locks,       \* _fetch_locks: which lock object a key has now
  ahead,       \* ahead[c]: the callers in front of c at its lock; with nobody there it gets the lock
  calls,       \* what each caller is at
  strained     \* a response was evicted for room, or expired while a caller was at its lock

liveVars == <<ledger, reported, heard, today, now, cache, locks, ahead, calls, strained>>

NotAsked == [stage |-> "idle", periods |-> {}, window |-> None, lock |-> None, started |-> 0,
         attempt |-> 0, pages |-> 0, total |-> <<>>, records |-> <<>>, through |-> None]

LiveInit ==
  /\ now = 0 /\ heard = [t \in {0} |-> reported] /\ ahead = [c \in Callers |-> {}] /\ strained = FALSE
  /\ cache = [k \in {} |-> None] /\ locks = [k \in {} |-> None]
  /\ calls = [c \in Callers |-> NotAsked]

-----------------------------------------------------------------------------
Smallest(S) == CHOOSE x \in S : \A y \in S : x <= y

\* The union of the periods without today; None when all of it is yet to come.
LiveWindow(periods) ==
  LET first == Smallest({p.start : p \in periods})
      last == Smaller(Largest({p.end : p \in periods}), today - 1)
  IN  IF last < first THEN None ELSE [start |-> first, end |-> last]

CacheKey_EndOnly(window) == window.end

CacheKey(window) == <<window.start, window.end>>

\* What each provider's query leaves of a row: Azure groups by resource and service, Cost
\* Explorer by record type, service and usage type, BigQuery by all but the credits, and
\* by resource only where the export has the column.
AzureView(row) ==
  [row EXCEPT !.kind = None, !.sku = None, !.region = None, !.owner = None, !.product = None,
              !.amortized = None, !.quantity = None, !.credits = None, !.hour = None, !.ends = None]
AwsView(row) ==
  [row EXCEPT !.service = FirstOf(@, row.product), !.product = None, !.resource = None,
              !.region = None, !.owner = None, !.credits = None, !.hour = None, !.ends = None]
GcpView(row) ==
  [row EXCEPT !.resource = IF ledger.detailed THEN @ ELSE None, !.kind = None, !.product = None,
              !.amortized = None, !.hour = None]
View(row) ==
  CASE ledger.format = "azure" -> AzureView(row)
    [] ledger.format = "aws"   -> AwsView(row)
    [] ledger.format = "gcp"   -> GcpView(row)

\* One row per group: the sums of its figures and the end of its last usage.
GroupOf(row) == [row EXCEPT !.cost = 0, !.amortized = 0, !.credits = 0, !.quantity = 0, !.ends = 0]
SumOf(a, b) == IF a = None /\ b = None THEN None ELSE Amount(a) + Amount(b)

AddToGroup(groups, row) ==
  LET at == {i \in 1..Len(groups) : GroupOf(groups[i]) = GroupOf(row)}
  IN  IF at = {} THEN Append(groups, row)
      ELSE [i \in 1..Len(groups) |->
              IF i \notin at THEN groups[i]
              ELSE [groups[i] EXCEPT
                      !.cost = SumOf(@, row.cost), !.amortized = SumOf(@, row.amortized),
                      !.credits = SumOf(@, row.credits), !.quantity = SumOf(@, row.quantity),
                      !.ends = IF @ = None THEN row.ends ELSE Larger(@, Amount(row.ends))]]

Visible(window) ==
  {i \in 1..Len(ledger.rows) : i <= reported /\ PeriodContains(window, ledger.rows[i].day)}

Query(window) ==
  LET visible == ElementsAt(ledger.rows, Visible(window))
      after[n \in 0..Len(visible)] == IF n = 0 THEN <<>> ELSE AddToGroup(after[n - 1], View(visible[n]))
  IN  after[Len(visible)]

\* The day before the window when nothing came; otherwise AWS and Azure are taken at the
\* last day that has anything, GCP by the rule of an uploaded export.
LiveThrough(rows, records, window) ==
  IF records = <<>> THEN EndOfDay(window.start - 1)
  ELSE IF ledger.format = "gcp" THEN GcpDataThrough(rows, records) ELSE EndOfDay(LastDay(records))

DayOf(instant) == (instant - 1) \div HoursPerDay

\* get_costs after the response: mapped, and cut to the boundary and the caller's periods.
Answered(call, rows) ==
  LET records == Parse(ledger.format, rows)
      through == LiveThrough(rows, records, call.window)
  IN  [NotAsked EXCEPT !.stage = "answered", !.periods = call.periods, !.window = call.window,
         !.through = through,
         !.records = ElementsAt(records, {i \in 1..Len(records) :
                       /\ records[i].day <= DayOf(through)
                       /\ \E p \in call.periods : PeriodContains(p, records[i].day)})]

-----------------------------------------------------------------------------
\* Under the lock: a response that has not expired is used, otherwise one is fetched.
Entered(call, entries) ==
  LET key == CacheKey(call.window)
  IN  IF key \in DOMAIN entries /\ entries[key].expires > now
      THEN Answered(call, entries[key].rows)
      ELSE [call EXCEPT !.stage = "fetching", !.started = now, !.attempt = 1]

\* The caller gets an exception.
Over == [NotAsked EXCEPT !.stage = "over"]

\* The callers that hold a lock or wait for one.
AtALock == {c \in Callers : calls[c].stage \in {"waiting", "fetching"}}
LineOf(lock) == {c \in AtALock : calls[c].lock = lock}
Leaves(c) == [d \in Callers |-> IF d = c THEN {} ELSE ahead[d] \ {c}]

LockFree_Always(lock) == TRUE

LockFree(lock) == LineOf(lock) = {}

\* What is left after the purge of expired responses and, when the cache is still full,
\* of one with the earliest expiry.
Purged ==
  LET alive == {k \in DOMAIN cache : cache[k].expires > now}
      oldest == {k \in alive : \A l \in alive : cache[k].expires <= cache[l].expires}
  IN  IF Cardinality(alive) < MaxEntries THEN {alive} ELSE {alive \ {k} : k \in oldest}

\* get_costs up to its first wait: the purge takes the locks of what it removes with it,
\* whoever holds them, and a key without a lock gets a new one.
Ask(c, periods) ==
  /\ calls[c].stage = "idle"
  /\ LET window == LiveWindow(periods)
         call == [NotAsked EXCEPT !.periods = periods, !.window = window]
     IN  IF window = None
         THEN /\ calls' = [calls EXCEPT ![c] = [call EXCEPT !.stage = "answered", !.through = EndOfDay(today - 1)]]
              /\ UNCHANGED <<cache, locks, ahead, strained>>
         ELSE IF Days(window) > MaxDays
         THEN /\ calls' = [calls EXCEPT ![c] = Over]
              /\ UNCHANGED <<cache, locks, ahead, strained>>
         ELSE \E kept \in Purged :
              LET entries == [k \in kept |-> cache[k]]
                  known == [k \in DOMAIN locks \ (DOMAIN cache \ kept) |-> locks[k]]
                  key == CacheKey(window)
                  used == {known[k] : k \in DOMAIN known} \union {calls[d].lock : d \in AtALock}
                  lock == IF key \in DOMAIN known THEN known[key]
                          ELSE Smallest((0..Cardinality(used)) \ used)
                  entered == Entered([call EXCEPT !.lock = lock], entries)
              IN  /\ cache' = entries
                  /\ locks' = [k \in DOMAIN known \union {key} |-> IF k = key THEN lock ELSE known[k]]
                  /\ strained' = (strained \/ \E k \in DOMAIN cache \ kept : cache[k].expires > now)
                  /\ calls' = [calls EXCEPT ![c] =
                                 IF LockFree(lock) THEN entered
                                 ELSE [call EXCEPT !.stage = "waiting", !.lock = lock]]
                  /\ ahead' = [ahead EXCEPT ![c] = LineOf(lock)]
  /\ UNCHANGED <<ledger, reported, heard, today, now>>

\* The first waiter gets the lock.
Acquire(c) ==
  LET entered == Entered(calls[c], cache)
  IN  /\ calls[c].stage = "waiting"
      /\ ahead[c] = {}
      /\ calls' = [calls EXCEPT ![c] = entered]
      /\ ahead' = IF entered.stage = "fetching" THEN ahead ELSE Leaves(c)
      /\ UNCHANGED <<ledger, reported, heard, today, now, cache, locks, strained>>

\* The response is kept for the TTL from when it was asked for, and the lock is free.
Complete(c, rows) ==
  LET key == CacheKey(calls[c].window)
      expires == calls[c].started + Ttl
  IN  /\ cache' = [k \in DOMAIN cache \union {key} |->
                     IF k = key THEN [expires |-> expires, rows |-> rows] ELSE cache[k]]
      /\ calls' = [calls EXCEPT ![c] = Answered(@, rows)]
      /\ ahead' = Leaves(c)
      /\ strained' = (strained \/ expires <= now)
      /\ UNCHANGED <<ledger, reported, heard, today, now, locks>>

Fetching(c) == calls[c].stage = "fetching"

\* The caller fails or is cancelled: nothing is cached, the lock is free and stays known.
GiveUp(c) ==
  /\ calls' = [calls EXCEPT ![c] = Over]
  /\ ahead' = Leaves(c)
  /\ UNCHANGED <<ledger, reported, heard, today, now, cache, locks, strained>>

\* Cost Explorer's record types, or the rows of the BigQuery job: one call in a thread.
ReadAll(c) ==
  /\ Fetching(c) /\ ledger.format # "azure"
  /\ Complete(c, Query(calls[c].window))

\* A page of the Query API, and the next link until there is none.
ReadPage(c) ==
  LET call == calls[c]
      total == IF call.pages = 0 THEN Query(call.window) ELSE call.total
      more == (call.pages + 1) * PageSize < Len(total)
  IN  /\ Fetching(c) /\ ledger.format = "azure"
      /\ \/ ~more /\ Complete(c, total)
         \/ more /\ call.pages + 1 >= MaxPages /\ GiveUp(c)
         \/ /\ more /\ call.pages + 1 < MaxPages
            /\ calls' = [calls EXCEPT ![c] = [call EXCEPT !.total = total, !.pages = @ + 1, !.attempt = 1]]
            /\ UNCHANGED <<ledger, reported, heard, today, now, cache, locks, ahead, strained>>

\* No connection, or a status that says to try again after a wait that is not too long.
PostAgain(c) ==
  /\ Fetching(c) /\ ledger.format = "azure"
  /\ calls[c].attempt < MaxAttempts
  /\ calls' = [calls EXCEPT ![c].attempt = @ + 1]
  /\ UNCHANGED <<ledger, reported, heard, today, now, cache, locks, ahead, strained>>

\* Not configured, the last attempt, another status, a long Retry-After, a next link that
\* is not the provider's or was followed before: a LiveConnectorError for the caller.
FetchFails(c) == Fetching(c) /\ GiveUp(c)

Cancel(c) == c \in AtALock /\ GiveUp(c)

-----------------------------------------------------------------------------
\* The next row of the ledger, of today or of a day long over.
Report ==
  /\ reported < Len(ledger.rows) /\ ledger.rows[reported + 1].day <= today
  /\ reported' = reported + 1
  /\ UNCHANGED <<ledger, heard, today, now, cache, locks, ahead, calls, strained>>

Tick ==
  /\ now < Horizon
  /\ now' = now + 1
  /\ heard' = [t \in 0..(now + 1) |-> IF t = now + 1 THEN reported ELSE heard[t]]
  /\ strained' = (strained \/ \E c \in AtALock :
                     LET key == CacheKey(calls[c].window)
                     IN  key \in DOMAIN cache /\ cache[key].expires <= now + 1)
  /\ UNCHANGED <<ledger, reported, today, cache, locks, ahead, calls>>

Midnight ==
  /\ today < LastToday
  /\ today' = today + 1
  /\ UNCHANGED <<ledger, reported, heard, now, cache, locks, ahead, calls, strained>>

LiveNext ==
  \/ \E c \in Callers :
       \/ Acquire(c) \/ ReadAll(c) \/ ReadPage(c) \/ PostAgain(c) \/ FetchFails(c) \/ Cancel(c)
  \/ Report \/ Tick \/ Midnight
-----------------------------------------------------------------------------
\* live.py:294: "One fetch per provider, scope and window per process, for the TTL": no two
\* callers fetch the same window at once and none fetches what is cached, whoever fails,
\* is cancelled or asks again in between.  Only an eviction for room, or a response that
\* has expired when the next waiter comes to it, takes a lock away from those behind it.
OneFetchPerWindow ==
  ~strained =>
    \A c \in Callers : Fetching(c) =>
      LET key == CacheKey(calls[c].window)
      IN  /\ \A d \in Callers \ {c} : Fetching(d) => CacheKey(calls[d].window) # key
          /\ key \in DOMAIN cache => cache[key].expires <= now

\* What a line of the ledger costs the way its provider answers.
Effective(row) ==
  CASE ledger.format = "aws"   -> FirstOf(row.amortized, Amount(row.cost))
    [] ledger.format = "azure" -> Amount(row.cost)
    [] ledger.format = "gcp"   -> Amount(row.cost) + Amount(row.credits)
SpentOn(day, rows, Cost(_)) ==
  SumSeq([i \in 1..Len(rows) |-> IF rows[i].day = day THEN Cost(rows[i]) ELSE 0])

\* "Money is deterministic" (live.py:25): what a caller is answered is what the provider
\* had reported at one moment, of which at most the last day is cut off; it is the money
\* of each day of the caller's periods up to the boundary and nothing else, also when
\* another caller with other periods fetched it, and the boundary is never today.  The
\* moment is not before the caller's own fetch began, nor longer ago than a response is
\* kept (live.py:108 "How long one raw response is reused").  That the days are complete
\* then is not said: what comes later is in no answer before.
Sent(n) == ElementsAt(ledger.rows, 1..n)
Oldest(c) == IF Fetching(c) THEN calls[c].started ELSE Larger(0, now + 1 - Ttl)

AnswerIsOf(call, n) ==
  LET Mine(day) == \E p \in call.periods : PeriodContains(p, day)
      sent == {i \in 1..n : PeriodContains(call.window, ledger.rows[i].day)}
      through == DayOf(call.through)
  IN  /\ call.through <= EndOfDay(call.window.end)
      /\ \A i, j \in sent : ledger.rows[i].day < ledger.rows[j].day => ledger.rows[i].day <= through
      /\ \A day \in DaysOf(ledger.rows) :
           SpentOn(day, call.records, LAMBDA r : r.cost)
             = IF Mine(day) /\ day <= through THEN SpentOn(day, Sent(n), Effective) ELSE 0

AnswersAreWhole ==
  [][\A c \in Callers :
       calls[c].stage # "answered" /\ calls'[c].stage = "answered" /\ calls'[c].window # None =>
         \E n \in heard[Oldest(c)]..reported : AnswerIsOf(calls'[c], n)]_liveVars
=============================================================================
