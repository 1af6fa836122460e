-------------------------- MODULE RedisLeasesProofs --------------------------
(***************************************************************************)
(* The safety of the distributed leases for any finite set of calls, any   *)
(* maximum and any lease that outlasts the renewals a call may miss        *)
(* (LeaseOutlastsMisses).  The argument is that the heartbeat stays ahead  *)
(* of the lease: a call that is at work holds a lease that is not over     *)
(* (HoldersAreLeased), so the script that counts leases counts every       *)
(* call at work.                                                           *)
(***************************************************************************)
EXTENDS RedisLeases, FiniteSetTheorems, TLAPS

\* A call at work has a heartbeat due, and the lease lasts Ttl from the last
\* renewal that did not fail.
HoldersAreLeased ==
  \A c \in Calls : at[c] = "holding" =>
    /\ now <= due[c]
    /\ due[c] + Ttl <= score[c] + 1 + missed[c]

\* No lease is longer than one granted now, and no call that has none has missed
\* a renewal.
LeasesAreShort ==
  \A c \in Calls :
    /\ score[c] <= now + Ttl
    /\ at[c] \in {"idle", "asking", "polling"} => missed[c] = 0

\* An acquire is in flight for a call that asks or that went away asking, a
\* renewal for one that is over; neither is newer than the call.
FlightsMatchCalls ==
  \A r \in flying :
    /\ r.kind = "acquire" => at[r.call] \in {"asking", "ended"}
    /\ r.kind = "renew" => at[r.call] \in {"releasing", "ended"}
    /\ at[r.call] = "asking" => r.sent = now
    /\ at[r.call] \in {"releasing", "ended"} => r.sent <= left[r.call]

\* A released call is over, without a lease or a request that would get it one.
ReleasedIsOver ==
  /\ \A c \in released : at[c] = "ended" /\ score[c] = 0
  /\ \A r \in flying : r.call \in released => r.kind = "renew"
  /\ \A r \in flying : at[r.call] = "releasing" => r.kind = "renew"

IInv ==
  /\ TypeOK
  /\ HoldersAreLeased
  /\ LeasesAreShort
  /\ FlightsMatchCalls
  /\ ReleasedIsOver
  /\ OrphansExpire
  /\ HoldersWithinMaximum
-----------------------------------------------------------------------------
(* Counting. *)

\* Sets of calls are counted by natural numbers.
LEMMA CallsCounted ==
  ASSUME NEW S \in SUBSET Calls
  PROVE  IsFiniteSet(S) /\ Cardinality(S) \in Nat
<1>1. IsFiniteSet(S)
  BY CallsFinite, FS_Subset
<1> QED BY <1>1, FS_CardinalityType

\* Fewer calls at work are within the maximum.
LEMMA FewerHolders ==
  ASSUME HoldersWithinMaximum, Holding' \subseteq Holding
  PROVE  HoldersWithinMaximum'
<1>1. Holding \in SUBSET Calls
  BY DEF Holding
<1>2. Cardinality(Holding') <= Cardinality(Holding)
  BY <1>1, CallsCounted, FS_Subset
<1>3. Cardinality(Holding) \in Nat /\ Cardinality(Holding') \in Nat
  BY <1>1, CallsCounted
<1> QED BY <1>2, <1>3, MaximumPositive DEF HoldersWithinMaximum

\* Every call at work holds a lease that is not over, one heartbeat ahead.
LEMMA HoldersUnexpired ==
  ASSUME TypeOK, HoldersAreLeased
  PROVE  /\ Holding \subseteq Unexpired(now)
         /\ \A c \in Holding : due[c] > now => score[c] > now + 1
<1> SUFFICES ASSUME NEW c \in Holding
             PROVE  /\ c \in Unexpired(now)
                    /\ due[c] > now => score[c] > now + 1
  OBVIOUS
<1>1. /\ c \in Calls /\ now \in Nat /\ score[c] \in Nat /\ due[c] \in Nat
      /\ missed[c] \in 0..MaxMissed
      /\ now <= due[c]
      /\ due[c] + Ttl <= score[c] + 1 + missed[c]
  BY MaximumPositive, TtlPositive, BoundsNatural DEF Holding, TypeOK, HoldersAreLeased
<1>2. now + 1 <= score[c] /\ (due[c] > now => score[c] > now + 1)
  BY <1>1, LeaseOutlastsMisses, TtlPositive, BoundsNatural
<1> QED BY <1>1, <1>2 DEF Unexpired, Leases
-----------------------------------------------------------------------------
(* The invariant is inductive. *)

LEMMA InitIInv == Init => IInv
<1> SUFFICES ASSUME Init PROVE IInv
  OBVIOUS
<1>1. TypeOK
  BY TtlPositive, BoundsNatural DEF Init, TypeOK, Points, Requests
<1>2. Holding = {}
  BY DEF Init, Holding
<1>3. HoldersWithinMaximum
  BY <1>2, FS_EmptySet, MaximumPositive DEF HoldersWithinMaximum
<1> QED BY <1>1, <1>3, TtlPositive
        DEF Init, IInv, HoldersAreLeased, LeasesAreShort, FlightsMatchCalls,
            ReleasedIsOver, OrphansExpire

LEMMA AskStep ==
  ASSUME IInv, NEW c \in Calls, Ask(c)
  PROVE  IInv'
<1>1. TypeOK'
  BY TtlPositive, BoundsNatural DEF IInv, TypeOK, Ask, Request, Requests, Points
<1>2. HoldersAreLeased' /\ LeasesAreShort' /\ OrphansExpire'
  BY DEF IInv, TypeOK, Ask, HoldersAreLeased, LeasesAreShort, OrphansExpire
<1>3. \A r \in flying : r.call # c
  BY DEF IInv, TypeOK, Ask, FlightsMatchCalls, Requests
<1>4. FlightsMatchCalls' /\ ReleasedIsOver'
  BY <1>3 DEF IInv, TypeOK, Ask, FlightsMatchCalls, ReleasedIsOver, Request, Requests
<1>5. HoldersWithinMaximum'
  BY FewerHolders DEF IInv, TypeOK, Ask, Holding
<1> QED BY <1>1, <1>2, <1>4, <1>5 DEF IInv

LEMMA GiveUpStep ==
  ASSUME IInv, NEW c \in Calls, GiveUp(c)
  PROVE  IInv'
<1>1. TypeOK'
  BY TtlPositive, BoundsNatural DEF IInv, TypeOK, GiveUp, Points
<1>2. HoldersAreLeased' /\ LeasesAreShort' /\ OrphansExpire'
  BY DEF IInv, TypeOK, GiveUp, HoldersAreLeased, LeasesAreShort, OrphansExpire
<1>3. FlightsMatchCalls' /\ ReleasedIsOver'
  BY DEF IInv, TypeOK, GiveUp, FlightsMatchCalls, ReleasedIsOver, Requests
<1>4. HoldersWithinMaximum'
  BY FewerHolders DEF IInv, TypeOK, GiveUp, Holding
<1> QED BY <1>1, <1>2, <1>3, <1>4 DEF IInv

\* The acquire script shortens no lease that is not over and grants none that is
\* longer than one granted now.
LEMMA AcquireScore ==
  ASSUME IInv, NEW r \in flying, r.kind = "acquire", AcquireScript(r)
  PROVE  /\ score' \in [Calls -> 0..MaxTime + Ttl]
         /\ \A c \in Calls : \/ score'[c] = score[c]
                             \/ score'[c] = 0 /\ score[c] <= now
                             \/ c = r.call /\ Granted(r) /\ score'[c] = r.sent + Ttl
         /\ Granted(r) => score'[r.call] = r.sent + Ttl
         /\ r.call \in Calls /\ r.sent \in 0..MaxTime /\ r.sent <= now
<1>1. r \in Requests /\ r.call \in Calls /\ r.sent \in 0..MaxTime
  BY DEF IInv, TypeOK, Requests
<1>2. r.sent <= now
  BY <1>1, TtlPositive, BoundsNatural DEF IInv, TypeOK, FlightsMatchCalls
<1>3. score' \in [Calls -> 0..MaxTime + Ttl]
  BY <1>1, TtlPositive, BoundsNatural DEF IInv, TypeOK, AcquireScript
<1>4. ASSUME NEW c \in Calls
      PROVE  \/ score'[c] = score[c]
             \/ score'[c] = 0 /\ score[c] <= now
             \/ c = r.call /\ Granted(r) /\ score'[c] = r.sent + Ttl
  BY <1>1, <1>2, TtlPositive, BoundsNatural
  DEF IInv, TypeOK, AcquireScript, Unexpired, Leases
<1> QED BY <1>1, <1>2, <1>3, <1>4 DEF AcquireScript

LEMMA RunAcquireStep ==
  ASSUME IInv, NEW r \in flying, RunAcquire(r)
  PROVE  IInv'
<1>0. /\ r.kind = "acquire" /\ AcquireScript(r) /\ flying' = flying \ {r}
      /\ now' = now /\ missed' = missed /\ released' = released
  BY DEF RunAcquire
<1>1. /\ r \in Requests /\ r.call \in Calls /\ r.sent \in 0..MaxTime /\ r.sent <= now
      /\ at[r.call] \in {"asking", "ended"}
      /\ r.call \notin released
  BY <1>0, AcquireScore DEF IInv, TypeOK, Requests, FlightsMatchCalls, ReleasedIsOver
<1>2. /\ score' \in [Calls -> 0..MaxTime + Ttl]
      /\ \A c \in Calls : \/ score'[c] = score[c]
                          \/ score'[c] = 0 /\ score[c] <= now
                          \/ c = r.call /\ Granted(r) /\ score'[c] = r.sent + Ttl
      /\ Granted(r) => score'[r.call] = r.sent + Ttl
  BY <1>0, AcquireScore
<1>3. \A c \in Calls : at[c] = "holding" => score'[c] = score[c]
  <2>1. \A c \in Holding : score[c] > now /\ c # r.call
    BY <1>1, HoldersUnexpired, TtlPositive, BoundsNatural
    DEF IInv, TypeOK, Unexpired, Holding
  <2> QED BY <1>2, <2>1, TtlPositive, BoundsNatural DEF Holding, IInv, TypeOK
<1>4. CASE at[r.call] # "asking"
  <2>1. UNCHANGED <<at, due, left>> /\ at[r.call] = "ended"
    BY <1>1, <1>4 DEF RunAcquire
  <2>2. TypeOK'
    BY <1>0, <1>2, <2>1 DEF IInv, TypeOK
  <2>3. HoldersAreLeased'
    BY <1>0, <1>3, <2>1 DEF IInv, HoldersAreLeased
  <2>4. LeasesAreShort' /\ OrphansExpire'
    BY <1>0, <1>1, <1>2, <2>1, TtlPositive, BoundsNatural
    DEF IInv, TypeOK, LeasesAreShort, OrphansExpire, FlightsMatchCalls
  <2>5. FlightsMatchCalls' /\ ReleasedIsOver'
    BY <1>0, <1>1, <1>2, <2>1 DEF IInv, TypeOK, FlightsMatchCalls, ReleasedIsOver
  <2>6. HoldersWithinMaximum'
    BY <2>1, FewerHolders DEF IInv, Holding
  <2> QED BY <2>2, <2>3, <2>4, <2>5, <2>6 DEF IInv
<1>5. CASE at[r.call] = "asking"
  <2>0. r.sent = now
    BY <1>5 DEF IInv, FlightsMatchCalls
  <2>1. \A q \in flying' : q.call # r.call
    <3> SUFFICES ASSUME NEW q \in flying, q # r, q.call = r.call PROVE FALSE
      BY <1>0
    <3>1. q \in Requests /\ q.kind = "acquire" /\ q.sent = now
      BY <1>5 DEF IInv, TypeOK, FlightsMatchCalls, Requests
    <3> QED BY <1>0, <1>1, <2>0, <3>1 DEF Requests
  <2>2. PICK point \in {"holding", "polling", "ended"} :
          /\ at' = [at EXCEPT ![r.call] = point]
          /\ point = "holding" => Granted(r) /\ due' = [due EXCEPT ![r.call] = now + 1]
          /\ point # "holding" => due' = due
          /\ point = "ended" => left' = [left EXCEPT ![r.call] = now]
          /\ point # "ended" => left' = left
    BY <1>5 DEF RunAcquire
  <2>3. TypeOK'
    BY <1>0, <1>1, <1>2, <2>2, TtlPositive, BoundsNatural DEF IInv, TypeOK, Points
  <2>4. HoldersAreLeased'
    BY <1>0, <1>1, <1>2, <1>3, <1>5, <2>0, <2>2, TtlPositive, BoundsNatural
    DEF IInv, TypeOK, HoldersAreLeased, LeasesAreShort
  <2>5. LeasesAreShort' /\ OrphansExpire'
    BY <1>0, <1>1, <1>2, <1>5, <2>0, <2>2, TtlPositive, BoundsNatural
    DEF IInv, TypeOK, LeasesAreShort, OrphansExpire
  <2>6. FlightsMatchCalls'
    BY <1>0, <1>1, <2>1, <2>2 DEF IInv, TypeOK, FlightsMatchCalls, Requests
  <2>7. ReleasedIsOver'
    BY <1>0, <1>1, <1>2, <2>1, <2>2 DEF IInv, TypeOK, ReleasedIsOver, Requests
  <2>8. CASE point # "holding"
    <3>1. HoldersWithinMaximum'
      BY <1>1, <2>2, <2>8, FewerHolders DEF IInv, TypeOK, Holding
    <3> QED BY <2>3, <2>4, <2>5, <2>6, <2>7, <3>1 DEF IInv
  <2>9. CASE point = "holding"
    <3>1. Holding' \subseteq Unexpired(now) \cup {r.call}
      BY <1>1, <2>2, <2>9, HoldersUnexpired DEF IInv, TypeOK, Holding
    <3>2. Unexpired(now) \in SUBSET Calls /\ Cardinality(Unexpired(now)) < Maximum
      BY <2>0, <2>2, <2>9 DEF Granted, Unexpired, Leases
    <3>3. /\ IsFiniteSet(Unexpired(now) \cup {r.call})
          /\ Cardinality(Unexpired(now) \cup {r.call}) <= Cardinality(Unexpired(now)) + 1
          /\ Cardinality(Unexpired(now)) \in Nat
      BY <3>2, CallsCounted, FS_AddElement
    <3>4. /\ Cardinality(Holding') <= Cardinality(Unexpired(now) \cup {r.call})
          /\ Cardinality(Unexpired(now) \cup {r.call}) \in Nat
          /\ Cardinality(Holding') \in Nat
      BY <3>1, <3>3, FS_Subset, FS_CardinalityType
    <3>5. HoldersWithinMaximum'
      BY <3>2, <3>3, <3>4, MaximumPositive DEF HoldersWithinMaximum
    <3> QED BY <2>3, <2>4, <2>5, <2>6, <2>7, <3>5 DEF IInv
  <2> QED BY <2>8, <2>9
<1> QED BY <1>4, <1>5

LEMMA RenewStep ==
  ASSUME IInv, NEW c \in Calls, Renew(c) \/ RenewFails(c)
  PROVE  IInv'
<1>0. c \in Leases
  BY HoldersUnexpired DEF IInv, Renew, RenewFails, Holding, Unexpired
<1>1. TypeOK'
  BY TtlPositive, BoundsNatural DEF IInv, TypeOK, Renew, RenewFails, RenewScript
<1>2. HoldersAreLeased'
  BY <1>0, TtlPositive, BoundsNatural
  DEF IInv, TypeOK, Renew, RenewFails, RenewScript, HoldersAreLeased
<1>3. LeasesAreShort' /\ OrphansExpire'
  BY <1>0, TtlPositive, BoundsNatural
  DEF IInv, TypeOK, Renew, RenewFails, RenewScript, LeasesAreShort, OrphansExpire
<1>4. FlightsMatchCalls' /\ ReleasedIsOver'
  BY DEF IInv, TypeOK, Renew, RenewFails, RenewScript, FlightsMatchCalls, ReleasedIsOver
<1>5. HoldersWithinMaximum'
  BY FewerHolders DEF IInv, Renew, RenewFails, Holding
<1> QED BY <1>1, <1>2, <1>3, <1>4, <1>5 DEF IInv

LEMMA RunRenewStep ==
  ASSUME IInv, NEW r \in flying, RunRenew(r)
  PROVE  IInv'
<1>0. /\ r.call \in Calls /\ r.sent \in 0..MaxTime
      /\ at[r.call] \in {"releasing", "ended"} /\ r.sent <= left[r.call]
      /\ left[r.call] <= now
  BY DEF IInv, TypeOK, RunRenew, FlightsMatchCalls, Requests
<1>1. /\ score' \in [Calls -> 0..MaxTime + Ttl]
      /\ \A c \in Calls \ {r.call} : score'[c] = score[c]
      /\ score'[r.call] \in {0, r.sent + Ttl}
      /\ score[r.call] = 0 => score'[r.call] = 0
  BY <1>0, TtlPositive, BoundsNatural DEF IInv, TypeOK, RunRenew, RenewScript, Leases
<1>2. TypeOK'
  BY <1>1 DEF IInv, TypeOK, RunRenew
<1>3. HoldersAreLeased'
  BY <1>0, <1>1 DEF IInv, RunRenew, HoldersAreLeased
<1>4. LeasesAreShort' /\ OrphansExpire'
  BY <1>0, <1>1, TtlPositive, BoundsNatural
  DEF IInv, TypeOK, RunRenew, LeasesAreShort, OrphansExpire
<1>5. FlightsMatchCalls' /\ ReleasedIsOver'
  BY <1>0, <1>1 DEF IInv, TypeOK, RunRenew, FlightsMatchCalls, ReleasedIsOver
<1>6. HoldersWithinMaximum'
  BY FewerHolders DEF IInv, RunRenew, Holding
<1> QED BY <1>2, <1>3, <1>4, <1>5, <1>6 DEF IInv

LEMMA StopStep ==
  ASSUME IInv, NEW c \in Calls, NEW point \in {"releasing", "ended"}, Stop(c, point)
  PROVE  IInv'
<1>1. TypeOK'
  BY TtlPositive, BoundsNatural DEF IInv, TypeOK, Stop, Points, Request, Requests
<1>2. HoldersAreLeased' /\ LeasesAreShort' /\ OrphansExpire'
  BY DEF IInv, TypeOK, Stop, HoldersAreLeased, LeasesAreShort, OrphansExpire
<1>3. FlightsMatchCalls'
  BY DEF IInv, TypeOK, Stop, FlightsMatchCalls, Request, Requests
<1>4. ReleasedIsOver'
  BY DEF IInv, TypeOK, Stop, FlightsMatchCalls, ReleasedIsOver, Request, Requests
<1>5. HoldersWithinMaximum'
  BY FewerHolders DEF IInv, TypeOK, Stop, Holding
<1> QED BY <1>1, <1>2, <1>3, <1>4, <1>5 DEF IInv

LEMMA ReleaseStep ==
  ASSUME IInv, NEW c \in Calls, Release(c) \/ ReleaseFails(c)
  PROVE  IInv'
<1>1. TypeOK'
  BY TtlPositive, BoundsNatural DEF IInv, TypeOK, Release, ReleaseFails, Points
<1>2. HoldersAreLeased' /\ LeasesAreShort' /\ OrphansExpire'
  BY TtlPositive, BoundsNatural
  DEF IInv, TypeOK, Release, ReleaseFails, HoldersAreLeased, LeasesAreShort, OrphansExpire
<1>3. FlightsMatchCalls' /\ ReleasedIsOver'
  BY DEF IInv, TypeOK, Release, ReleaseFails, FlightsMatchCalls, ReleasedIsOver, Requests
<1>4. HoldersWithinMaximum'
  BY FewerHolders DEF IInv, TypeOK, Release, ReleaseFails, Holding
<1> QED BY <1>1, <1>2, <1>3, <1>4 DEF IInv

LEMMA TickStep ==
  ASSUME IInv, Tick
  PROVE  IInv'
<1>1. TypeOK'
  BY TtlPositive, BoundsNatural DEF IInv, TypeOK, Tick
<1>2. HoldersAreLeased' /\ LeasesAreShort' /\ OrphansExpire'
  BY TtlPositive, BoundsNatural
  DEF IInv, TypeOK, Tick, HoldersAreLeased, LeasesAreShort, OrphansExpire
<1>3. FlightsMatchCalls' /\ ReleasedIsOver'
  BY DEF IInv, TypeOK, Tick, FlightsMatchCalls, ReleasedIsOver, Requests
<1>4. HoldersWithinMaximum'
  BY FewerHolders DEF IInv, Tick, Holding
<1> QED BY <1>1, <1>2, <1>3, <1>4 DEF IInv

LEMMA StepPreservesIInv == IInv /\ [Next]_vars => IInv'
<1> SUFFICES ASSUME IInv, [Next]_vars PROVE IInv'
  OBVIOUS
<1>1. CASE UNCHANGED vars
  BY <1>1 DEF vars, IInv, TypeOK, HoldersAreLeased, LeasesAreShort, FlightsMatchCalls,
              ReleasedIsOver, OrphansExpire, HoldersWithinMaximum, Holding
<1>2. CASE Next
  BY <1>2, AskStep, GiveUpStep, RenewStep, StopStep, ReleaseStep, RunAcquireStep,
     RunRenewStep, TickStep DEF Next, Leave, Crash
<1> QED BY <1>1, <1>2

LEMMA Invariance == Spec => []IInv
<1> QED BY InitIInv, StepPreservesIInv, PTL DEF Spec
-----------------------------------------------------------------------------
\* Scores, requests and calls are of their types, for every finite set of calls.
THEOREM LeaseTypesCorrect == Spec => []TypeOK
<1> QED BY Invariance, PTL DEF IInv

\* The leases keep the cluster within its maximum: the heartbeat and the scripts
\* together never put more than Maximum bodies to work, whatever is run late.
THEOREM LeasesBoundCluster == Spec => []HoldersWithinMaximum
<1> QED BY Invariance, PTL DEF IInv

\* A call that stopped - crashed, cancelled, or whose release failed - blocks its
\* slot for at most one lease more.
THEOREM OrphanedLeasesExpire == Spec => []OrphansExpire
<1> QED BY Invariance, PTL DEF IInv

\* The guard of the renewal script is enough: a released lease never comes back.
THEOREM ReleasedLeasesStayGone == Spec => []ReleasedStaysReleased
<1>1. IInv => ReleasedStaysReleased
  BY DEF IInv, ReleasedIsOver, ReleasedStaysReleased
<1> QED BY <1>1, Invariance, PTL
=============================================================================
