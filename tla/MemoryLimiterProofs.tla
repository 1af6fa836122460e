-------------------------- MODULE MemoryLimiterProofs --------------------------
(***************************************************************************)
(* The two halves of MemoryRateLimiter, its token buckets (Admission) and  *)
(* its permits (PermitPool), which share no state, for any values of their *)
(* constants.                                                              *)
(*                                                                         *)
(* What a denied client is told is enough.  The argument is that a bucket  *)
(* that denied earns what it lacks by the moment promised                  *)
(* (PromisesAreFunded): nothing but a check of the same key takes from it, *)
(* and that check makes a new promise or none.                             *)
(*                                                                         *)
(* The rate of the deployment is bounded.  What was given since a moment   *)
(* and what the bucket holds now never exceed a full bucket and what it    *)
(* has earned since (SpendingIsCovered): a grant moves a token from the    *)
(* one to the other, a tick earns one unit at most, and what the sweep     *)
(* takes is full.                                                          *)
(*                                                                         *)
(* The permits are conserved and bound the calls.  Conservation is         *)
(* inductive together with the link between a call's point and the         *)
(* semaphore it chose; the limit follows from it while no sweep came early *)
(* (OneSemaphore), for then all calls in progress share one semaphore.     *)
(***************************************************************************)
EXTENDS Admission, PermitPool, FiniteSetTheorems, WellFoundedInduction, TLAPS

USE BoundsNatural, MaximumPositive, MaxSemaphoresPositive

-----------------------------------------------------------------------------
(* Sums of finite sets of integers.  The library's induction takes an operator, which the
   provers cannot instantiate; a least element of a set of naturals does as well. *)

\* A set of naturals that is not empty has a least element,
LEMMA LeastNatural ==
  ASSUME NEW T \in SUBSET Nat, T # {}
  PROVE  \E x \in T : \A y \in T : x <= y
<1> DEFINE R == OpToRel(<, Nat)
<1>1. IsWellFoundedOn(R, Nat) 
  BY NatLessThanWellFounded
<1>2. \A x, y \in Nat : y < x => <<y, x>> \in R
  BY DEF OpToRel
<1> HIDE DEF R
<1>3. PICK x \in T : \A y \in T : ~ (<<y, x>> \in R)
  BY <1>1, WFMin
<1>4. \A y \in T : ~(y < x)
  <2> TAKE y \in T
  <2>1. x \in Nat /\ y \in Nat
    BY <1>3
  <2> QED BY <2>1, <1>2, <1>3, Zenon
<1> QED BY <1>3, <1>4

\* so that a set with 0 and each successor is all of them.
LEMMA EveryNatural ==
  ASSUME NEW P \in SUBSET Nat, 0 \in P, \A n \in P : n + 1 \in P
  PROVE  P = Nat
<1> SUFFICES ASSUME Nat \ P # {} PROVE FALSE
  OBVIOUS
<1>1. PICK n \in Nat \ P : \A y \in Nat \ P : n <= y
  BY LeastNatural
<1>2. n # 0 /\ n - 1 \in Nat /\ n - 1 < n
  BY <1>1
<1>3. n - 1 \in P /\ (n - 1) + 1 = n
  BY <1>1, <1>2
<1> QED BY <1>1, <1>3

\* How SumFunctionOnSet adds up: g is the sums of all subsets of S, one element at a time.
Pick(s) == CHOOSE x \in s : TRUE
PartialSum(f, g, s) == IF s = {} THEN 0 ELSE f[Pick(s)] + g[s \ {Pick(s)}]
IsSum(f, g, S) == g = [s \in SUBSET S |-> PartialSum(f, g, s)]

LEMMA PickOne ==
  ASSUME NEW S, IsFiniteSet(S), NEW s \in SUBSET S, s # {}
  PROVE  /\ Pick(s) \in s /\ s \ {Pick(s)} \in SUBSET S
         /\ Cardinality(s) \in Nat \ {0}
         /\ Cardinality(s \ {Pick(s)}) = Cardinality(s) - 1
<1>1. Pick(s) \in s
  BY DEF Pick
<1>2. IsFiniteSet(s)
  BY FS_Subset
<1>3. Cardinality(s \ {Pick(s)}) = Cardinality(s) - 1
  BY <1>1, <1>2, FS_RemoveElement
<1>4. Cardinality(s) \in Nat \ {0}
  BY <1>2, FS_CardinalityType, FS_EmptySet
<1> QED BY <1>1, <1>3, <1>4

\* There are such sums,
LEMMA SumExists ==
  ASSUME NEW f, NEW S, IsFiniteSet(S), \A x \in S : f[x] \in Int
  PROVE  \E g : IsSum(f, g, S)
<1> DEFINE Small(n) == {s \in SUBSET S : Cardinality(s) <= n}
           Good(n) == \E g \in [Small(n) -> Int] : \A s \in Small(n) : g[s] = PartialSum(f, g, s)
           P == {n \in Nat : Good(n)}
<1>0. \A s \in SUBSET S : IsFiniteSet(s) /\ Cardinality(s) \in Nat /\ Cardinality(s) <= Cardinality(S)
  BY FS_Subset, FS_CardinalityType
<1>1. 0 \in P
  <2> DEFINE g == [s \in Small(0) |-> 0]
  <2>1. \A s \in Small(0) : s = {}
    BY <1>0, FS_EmptySet
  <2>2. g \in [Small(0) -> Int]
    OBVIOUS
  <2>3. \A s \in Small(0) : g[s] = PartialSum(f, g, s)
    BY <2>1 DEF PartialSum
  <2> HIDE DEF g
  <2> QED BY <2>2, <2>3
<1>2. \A n \in P : n + 1 \in P
  <2> TAKE n \in P
  <2>1. n \in Nat /\ n + 1 \in Nat
    OBVIOUS
  <2>2. PICK g \in [Small(n) -> Int] : \A s \in Small(n) : g[s] = PartialSum(f, g, s)
    OBVIOUS
  <2> DEFINE h == [s \in Small(n + 1) |-> IF s \in Small(n) THEN g[s] ELSE PartialSum(f, g, s)]
  <2>3. \A s \in Small(n) : s # {} => s \ {Pick(s)} \in Small(n)
    BY <1>0, <2>1, PickOne
  <2>4. \A s \in Small(n + 1) : s # {} => s \ {Pick(s)} \in Small(n) /\ f[Pick(s)] \in Int
    BY <1>0, <2>1, PickOne
  <2>5. \A s \in Small(n + 1) : PartialSum(f, g, s) \in Int
    BY <2>4, <2>2 DEF PartialSum
  <2>6. h \in [Small(n + 1) -> Int]
    BY <2>2, <2>5
  <2>7. \A s \in Small(n) : s \in Small(n + 1)
    BY <1>0, <2>1
  <2>8. \A s \in Small(n + 1) : PartialSum(f, h, s) = PartialSum(f, g, s)
    BY <2>4, <2>7 DEF PartialSum
  <2>9. \A s \in Small(n + 1) : h[s] = PartialSum(f, h, s)
    BY <2>2, <2>8
  <2> HIDE DEF h
  <2> QED BY <2>1, <2>6, <2>9
<1>3. P = Nat
  <2> HIDE DEF Good
  <2>1. P \in SUBSET Nat
    OBVIOUS
  <2> HIDE DEF P
  <2> QED BY <1>1, <1>2, <2>1, EveryNatural
<1>4. Good(Cardinality(S))
  BY <1>3, FS_CardinalityType
<1>5. Small(Cardinality(S)) = SUBSET S
  BY <1>0
<1>6. PICK g \in [SUBSET S -> Int] : \A s \in SUBSET S : g[s] = PartialSum(f, g, s)
  BY <1>4, <1>5
<1>7. g = [s \in SUBSET S |-> g[s]]
  BY <1>6
<1> QED BY <1>6, <1>7 DEF IsSum

\* they depend on nothing but the terms,
LEMMA SumsAgree ==
  ASSUME NEW f1, NEW f2, NEW S, IsFiniteSet(S), NEW T \in SUBSET S,
         \A x \in T : f1[x] = f2[x] /\ f1[x] \in Int,
         NEW g, IsSum(f1, g, S), NEW h, IsSum(f2, h, T)
  PROVE  \A s \in SUBSET T : g[s] = h[s] /\ g[s] \in Int
<1> DEFINE P == {n \in Nat : \A s \in SUBSET T : Cardinality(s) <= n => g[s] = h[s] /\ g[s] \in Int}
<1>0. \A s \in SUBSET T : IsFiniteSet(s) /\ Cardinality(s) \in Nat
  BY FS_Subset, FS_CardinalityType
<1>1. \A s \in SUBSET T : g[s] = PartialSum(f1, g, s) /\ h[s] = PartialSum(f2, h, s)
  BY DEF IsSum
<1>2. 0 \in P
  <2>1. \A s \in SUBSET T : Cardinality(s) <= 0 => s = {}
    BY <1>0, FS_EmptySet
  <2>2. g[{}] = PartialSum(f1, g, {}) /\ h[{}] = PartialSum(f2, h, {})
    BY <1>1
  <2>3. g[{}] = 0 /\ h[{}] = 0
    BY <2>2 DEF PartialSum
  <2> QED BY <2>1, <2>3
<1>3. \A n \in P : n + 1 \in P
  <2> TAKE n \in P
  <2> SUFFICES ASSUME NEW s \in SUBSET T, Cardinality(s) <= n + 1
               PROVE  g[s] = h[s] /\ g[s] \in Int
    OBVIOUS
  <2>0. g[s] = PartialSum(f1, g, s) /\ h[s] = PartialSum(f2, h, s)
    BY <1>1
  <2>1. CASE s = {}
    BY <2>1, <2>0 DEF PartialSum
  <2>2. CASE s # {}
    <3> DEFINE t == s \ {Pick(s)}
    <3>1. Pick(s) \in s /\ t \in SUBSET T /\ Cardinality(t) <= n
      BY <1>0, <2>2, PickOne
    <3>2. g[t] = h[t] /\ g[t] \in Int
      BY <3>1
    <3>3. f1[Pick(s)] = f2[Pick(s)] /\ f1[Pick(s)] \in Int
      BY <3>1
    <3> QED BY <2>0, <2>2, <3>2, <3>3 DEF PartialSum
  <2> QED BY <2>1, <2>2
<1>4. P = Nat
  <2>1. P \in SUBSET Nat
    OBVIOUS
  <2> HIDE DEF P
  <2> QED BY <1>2, <1>3, <2>1, EveryNatural
<1> QED BY <1>0, <1>4

\* and SumFunctionOnSet is one of them.
LEMMA SumUnfolds ==
  ASSUME NEW f, NEW S, IsFiniteSet(S), \A x \in S : f[x] \in Int
  PROVE  \E g : IsSum(f, g, S) /\ SumFunctionOnSet(f, S) = g[S]
<1> DEFINE g == CHOOSE g : IsSum(f, g, S)
<1>1. IsSum(f, g, S)
  BY SumExists
<1>2. SumFunctionOnSet(f, S) = g[S]
  BY DEF SumFunctionOnSet, FoldFunctionOnSet, MapThenFoldSet, IsSum, PartialSum, Pick
<1> QED BY <1>1, <1>2

\* The sum of a finite set of integers is an integer that only its terms determine.
LEMMA SumsOfEqualTerms ==
  ASSUME NEW f1, NEW f2, NEW S, IsFiniteSet(S), \A x \in S : f1[x] = f2[x] /\ f1[x] \in Int
  PROVE  SumFunctionOnSet(f1, S) = SumFunctionOnSet(f2, S) /\ SumFunctionOnSet(f1, S) \in Int
<1>1. PICK g : IsSum(f1, g, S) /\ SumFunctionOnSet(f1, S) = g[S]
  BY SumUnfolds
<1>2. PICK h : IsSum(f2, h, S) /\ SumFunctionOnSet(f2, S) = h[S]
  <2>1. \A x \in S : f2[x] \in Int
    OBVIOUS
  <2> QED BY <2>1, SumUnfolds
<1>3. S \in SUBSET S
  OBVIOUS
<1>4. \A s \in SUBSET S : g[s] = h[s] /\ g[s] \in Int
  BY <1>1, <1>2, <1>3, SumsAgree
<1> QED BY <1>1, <1>2, <1>3, <1>4

LEMMA SumOfNothing == ASSUME NEW f PROVE SumFunctionOnSet(f, {}) = 0
<1>1. PICK g : IsSum(f, g, {}) /\ SumFunctionOnSet(f, {}) = g[{}]
  BY SumUnfolds, FS_EmptySet
<1> QED BY <1>1 DEF IsSum, PartialSum

\* Whichever element is taken out first, the sum is the same.
LEMMA SumWithout ==
  ASSUME NEW f, NEW S, IsFiniteSet(S), \A x \in S : f[x] \in Int, NEW x \in S
  PROVE  SumFunctionOnSet(f, S) = f[x] + SumFunctionOnSet(f, S \ {x})
<1> DEFINE Sum(T) == SumFunctionOnSet(f, T)
           P == {n \in Nat : \A T \in SUBSET S : Cardinality(T) <= n =>
                                \A y \in T : Sum(T) = f[y] + Sum(T \ {y})}
<1>0. \A T \in SUBSET S : IsFiniteSet(T) /\ Cardinality(T) \in Nat /\ Sum(T) \in Int
  BY FS_Subset, FS_CardinalityType, SumsOfEqualTerms
<1>1. \A T \in SUBSET S : T # {} => Sum(T) = f[Pick(T)] + Sum(T \ {Pick(T)})
  <2> TAKE T \in SUBSET S
  <2> HAVE T # {}
  <2> DEFINE R == T \ {Pick(T)}
  <2>1. R \in SUBSET T /\ Pick(T) \in T
    BY PickOne
  <2>2. IsFiniteSet(T) /\ IsFiniteSet(R) /\ \A y \in T : f[y] \in Int
    BY <1>0, <2>1
  <2>3. PICK g : IsSum(f, g, T) /\ Sum(T) = g[T]
    BY <2>2, SumUnfolds
  <2>4. PICK h : IsSum(f, h, R) /\ Sum(R) = h[R]
    BY <2>1, <2>2, SumUnfolds
  <2>5. \A s \in SUBSET R : g[s] = h[s] /\ g[s] \in Int
    <3>1. \A y \in R : f[y] = f[y] /\ f[y] \in Int
      BY <2>1, <2>2
    <3> HIDE DEF R
    <3> QED BY <2>1, <2>2, <2>3, <2>4, <3>1, SumsAgree
  <2>6. g[T] = f[Pick(T)] + g[R]
    BY <2>3 DEF IsSum, PartialSum
  <2> QED BY <2>3, <2>4, <2>5, <2>6
<1>2. 0 \in P
  BY <1>0, FS_EmptySet
<1>3. \A n \in P : n + 1 \in P
  <2> TAKE n \in P
  <2> SUFFICES ASSUME NEW T \in SUBSET S, Cardinality(T) <= n + 1, NEW y \in T
               PROVE  Sum(T) = f[y] + Sum(T \ {y})
    OBVIOUS
  <2> DEFINE c == Pick(T)
  <2>1. CASE y = c
    BY <1>1, <2>1
  <2>2. CASE y # c
    <3>1. c \in T /\ IsFiniteSet(T) /\ Cardinality(T) \in Nat
      BY <1>0, PickOne
    <3>2. Cardinality(T \ {c}) <= n /\ Cardinality(T \ {y}) <= n
      <4>1. Cardinality(T \ {c}) = Cardinality(T) - 1
        BY <3>1, FS_RemoveElement
      <4>2. Cardinality(T \ {y}) = Cardinality(T) - 1
        BY <3>1, FS_RemoveElement
      <4> QED BY <3>1, <4>1, <4>2
    <3>3. Sum(T \ {c}) = f[y] + Sum((T \ {c}) \ {y})
      BY <2>2, <3>2
    <3>4. Sum(T \ {y}) = f[c] + Sum((T \ {y}) \ {c})
      BY <2>2, <3>1, <3>2
    <3>5. (T \ {y}) \ {c} = (T \ {c}) \ {y}
      OBVIOUS
    <3>6. Sum(T) = f[c] + Sum(T \ {c})
      BY <1>1
    <3>7. f[c] \in Int /\ f[y] \in Int /\ Sum((T \ {c}) \ {y}) \in Int
      BY <1>0, <3>1
    <3> HIDE DEF c, Sum
    <3>8. Sum(T \ {y}) = f[c] + Sum((T \ {c}) \ {y})
      BY <3>4, <3>5
    <3> QED BY <3>3, <3>8, <3>6, <3>7
  <2> QED BY <2>1, <2>2
<1>4. P = Nat
  <2>1. P \in SUBSET Nat
    OBVIOUS
  <2> HIDE DEF P
  <2> QED BY <1>2, <1>3, <2>1, EveryNatural
<1> QED BY <1>0, <1>4

-----------------------------------------------------------------------------
(* Token buckets. *)

\* By the time promised the bucket holds the price of a token.
PromisesAreFunded ==
  \A k \in Keys : promised[k] # 0 /\ bucket[k].exists =>
    bucket[k].units + promised[k] >= Period[k] + bucket[k].last

BucketIInv == TypeOK /\ PromisesAreFunded

\* A full bucket holds at least the price of a token.
LEMMA FullPaysForOne ==
  ASSUME NEW k \in Keys
  PROVE  Full(k) \in Nat /\ Full(k) >= Period[k] /\ Period[k] \in Nat \ {0}
<1> DEFINE capacity == Capacity[k]
           period == Period[k]
<1>1. capacity \in Nat \ {0} /\ period \in Nat \ {0}
  BY CapacityPositive, PeriodPositive
<1> HIDE DEF capacity, period
<1>2. capacity * period \in Nat /\ capacity * period >= period
  BY <1>1
<1> QED BY <1>1, <1>2 DEF Full, capacity, period

\* A refill is a natural number and no more than a full bucket.
LEMMA RefillBounded ==
  ASSUME TypeOK, NEW k \in Keys
  PROVE  Refilled(k) \in Nat /\ Refilled(k) <= Full(k)
<1>1. /\ bucket[k].units \in Nat /\ bucket[k].last \in Nat
      /\ now \in Nat /\ bucket[k].last <= now
  BY DEF TypeOK
<1>2. now - bucket[k].last \in Nat
  BY <1>1
<1> QED BY <1>1, <1>2, FullPaysForOne DEF Refilled, AtMost

\* A bucket that is past its promise allows.
LEMMA FundedAllows ==
  ASSUME BucketIInv, NEW k \in Keys, promised[k] # 0, now >= promised[k]
  PROVE  Allowed(k)
<1>1. /\ bucket[k].units \in Nat /\ bucket[k].last \in Nat
      /\ now \in Nat /\ bucket[k].last <= now /\ promised[k] \in Nat
  BY DEF BucketIInv, TypeOK
<1>2. Full(k) \in Nat /\ Full(k) >= Period[k] /\ Period[k] \in Nat \ {0}
  BY FullPaysForOne
<1>3. CASE bucket[k].exists
  <2>1. bucket[k].units + promised[k] >= Period[k] + bucket[k].last
    BY <1>3 DEF BucketIInv, PromisesAreFunded
  <2>2. bucket[k].units + (now - bucket[k].last) >= Period[k]
    BY <1>1, <1>2, <2>1
  <2> QED BY <1>1, <1>2, <1>3, <2>2 DEF Allowed, Refilled, AtMost
<1>4. CASE ~bucket[k].exists
  BY <1>2, <1>4 DEF Allowed, Refilled
<1> QED BY <1>3, <1>4
-----------------------------------------------------------------------------
LEMMA InitBucketIInv == Init => BucketIInv
<1> SUFFICES ASSUME Init PROVE BucketIInv
  OBVIOUS
<1>1. \A k \in Keys : 0 <= Full(k)
  BY FullPaysForOne
<1>2. NoBucket \in [units : Nat, last : 0..MaxTime, exists : BOOLEAN]
  BY DEF NoBucket
<1> QED BY <1>1, <1>2 DEF Init, BucketIInv, TypeOK, PromisesAreFunded, NoBucket

LEMMA GrantStep ==
  ASSUME BucketIInv, NEW k \in Keys, Allowed(k), Grant(k), now' = now,
         at' \in [Clients -> {"idle", "global"}]
  PROVE  BucketIInv'
<1>1. /\ Refilled(k) - Period[k] \in Nat
      /\ Refilled(k) - Period[k] <= Full(k)
  BY RefillBounded, FullPaysForOne DEF BucketIInv, Allowed
<1>2. bucket' \in [Keys -> [units : Nat, last : 0..MaxTime, exists : BOOLEAN]]
  BY <1>1 DEF BucketIInv, TypeOK, Grant, Count
<1>3. \A j \in Keys : bucket'[j].units <= Full(j) /\ bucket'[j].last <= now
  BY <1>1 DEF BucketIInv, TypeOK, Grant, Count
<1>4. granted' \in [Keys -> [0..MaxTime -> Nat]] /\ promised' \in [Keys -> Nat]
  <2> DEFINE given == [granted[k] EXCEPT ![now] = @ + 1]
  <2>1. granted[k] \in [0..MaxTime -> Nat] /\ now \in 0..MaxTime
    BY DEF BucketIInv, TypeOK
  <2>2. given \in [0..MaxTime -> Nat]
    BY <2>1
  <2>3. granted' = [granted EXCEPT ![k] = given]
    BY DEF Grant
  <2> HIDE DEF given
  <2> QED BY <2>2, <2>3 DEF BucketIInv, TypeOK, Grant
<1>5. TypeOK'
  BY <1>2, <1>3, <1>4 DEF BucketIInv, TypeOK, Full
<1>6. PromisesAreFunded'
  BY DEF BucketIInv, TypeOK, PromisesAreFunded, Grant, Count
<1> QED BY <1>5, <1>6 DEF BucketIInv

LEMMA DenyStep ==
  ASSUME BucketIInv, NEW k \in Keys, ~Allowed(k), Deny(k), now' = now,
         at' \in [Clients -> {"idle", "global"}]
  PROVE  BucketIInv'
<1>1. /\ Refilled(k) \in Nat /\ Refilled(k) <= Full(k)
      /\ RetryAfter(k) \in Nat /\ Refilled(k) + RetryAfter(k) = Period[k]
      /\ Period[k] \in Nat
  BY RefillBounded, FullPaysForOne DEF BucketIInv, Allowed, RetryAfter
<1>2. bucket' \in [Keys -> [units : Nat, last : 0..MaxTime, exists : BOOLEAN]]
  BY <1>1 DEF BucketIInv, TypeOK, Deny, Count
<1>3. \A j \in Keys : bucket'[j].units <= Full(j) /\ bucket'[j].last <= now
  BY <1>1 DEF BucketIInv, TypeOK, Deny, Count
<1>4. granted' \in [Keys -> [0..MaxTime -> Nat]] /\ promised' \in [Keys -> Nat]
  <2>1. now + RetryAfter(k) \in Nat
    BY <1>1 DEF BucketIInv, TypeOK
  <2> QED BY <2>1 DEF BucketIInv, TypeOK, Deny
<1>5. TypeOK'
  BY <1>2, <1>3, <1>4 DEF BucketIInv, TypeOK, Full
<1>6. PromisesAreFunded'
  <2>1. bucket'[k] = Count(Refilled(k)) /\ promised'[k] = now + RetryAfter(k) /\ now \in Nat
    BY DEF BucketIInv, TypeOK, Deny
  <2>2. bucket'[k].units + promised'[k] >= Period[k] + bucket'[k].last
    BY <1>1, <2>1 DEF Count
  <2>3. \A j \in Keys \ {k} : bucket'[j] = bucket[j] /\ promised'[j] = promised[j]
    BY DEF BucketIInv, TypeOK, Deny
  <2> QED BY <2>2, <2>3 DEF BucketIInv, PromisesAreFunded
<1> QED BY <1>5, <1>6 DEF BucketIInv

LEMMA EvictStep ==
  ASSUME BucketIInv, NEW k \in Keys, Evict(k)
  PROVE  BucketIInv'
<1>1. NoBucket \in [units : Nat, last : 0..MaxTime, exists : BOOLEAN] /\ 0 <= Full(k)
  BY FullPaysForOne DEF NoBucket
<1>2. bucket' \in [Keys -> [units : Nat, last : 0..MaxTime, exists : BOOLEAN]]
  BY <1>1 DEF BucketIInv, TypeOK, Evict
<1>3. \A j \in Keys : bucket'[j].units <= Full(j) /\ bucket'[j].last <= now
  BY <1>1 DEF BucketIInv, TypeOK, Evict, NoBucket
<1>4. TypeOK'
  BY <1>2, <1>3 DEF BucketIInv, TypeOK, Evict, Full
<1> QED BY <1>4 DEF BucketIInv, TypeOK, PromisesAreFunded, Evict, NoBucket

LEMMA StepPreservesBucketIInv == BucketIInv /\ [Next]_vars => BucketIInv'
<1> SUFFICES ASSUME BucketIInv, [Next]_vars PROVE BucketIInv'
  OBVIOUS
<1>1. CASE UNCHANGED vars
  BY <1>1 DEF vars, BucketIInv, TypeOK, PromisesAreFunded, Full
<1>2. ASSUME NEW c \in Clients, ClientDenied(c) \/ ClientAllowed(c) \/ GlobalCheck(c)
      PROVE  BucketIInv'
  <2>1. at' \in [Clients -> {"idle", "global"}] /\ now' = now /\ c \in Keys /\ Global \in Keys
    BY <1>2 DEF BucketIInv, TypeOK, ClientDenied, ClientAllowed, GlobalCheck, Keys
  <2> QED BY <1>2, <2>1, GrantStep, DenyStep DEF ClientDenied, ClientAllowed, GlobalCheck
<1>3. CASE Tick
  BY <1>3 DEF BucketIInv, TypeOK, PromisesAreFunded, Tick, Full
<1> QED BY <1>1, <1>2, <1>3, EvictStep DEF Next

LEMMA BucketInvariance == Spec => []BucketIInv
<1> QED BY InitBucketIInv, StepPreservesBucketIInv, PTL DEF Spec
-----------------------------------------------------------------------------
\* Buckets and counters keep their types and no bucket is more than full, for any
\* clients, capacities and rates.
THEOREM BucketTypesCorrect == Spec => []TypeOK
<1> QED BY BucketInvariance, PTL DEF BucketIInv

\* A client that waits as long as it was told is let through by its bucket, however
\* long the bucket was left and whether or not the sweep dropped it.
THEOREM RetryAfterSuffices == Spec => []RetryAfterIsEnough
<1>1. BucketIInv => RetryAfterIsEnough
  BY FundedAllows DEF RetryAfterIsEnough, Keys
<1> QED BY <1>1, BucketInvariance, PTL

-----------------------------------------------------------------------------
(* The rate of the deployment. *)

\* Nothing is given ahead of time,
NothingAhead == \A t \in 0..MaxTime : t > now => granted[Global][t] = 0

\* and what was given since any moment and what the bucket holds now are no more than a
\* full bucket and what it has earned since.
SpendingIsCovered ==
  \A from \in 0..now :
    Given(Global, from, now) * Period[Global] + Refilled(Global) <= Full(Global) + (now - from)

RateIInv == BucketIInv /\ NothingAhead /\ SpendingIsCovered /\ GlobalRateBounded

\* What a history f gives over a stretch is what it gives in the last tick and before,
AddsUp(f) ==
  \A from \in Nat : \A to \in 0..MaxTime : from <= to =>
    /\ SumFunctionOnSet(f, from..to) \in Int
    /\ SumFunctionOnSet(f, from..(to - 1)) \in Int
    /\ SumFunctionOnSet(f, from..to) = f[to] + SumFunctionOnSet(f, from..(to - 1))

\* and it is the same as that of a history g that agrees with it there.
SumsAlike(f, g) ==
  \A from \in Nat : \A to \in Int : to <= MaxTime /\ (\A t \in from..to : f[t] = g[t]) =>
    SumFunctionOnSet(f, from..to) = SumFunctionOnSet(g, from..to)

LEMMA GivenUpTo ==
  ASSUME NEW f, \A t \in 0..MaxTime : f[t] \in Nat
  PROVE  AddsUp(f)
<1> SUFFICES \A from \in Nat : \A to \in 0..MaxTime : from <= to =>
               /\ SumFunctionOnSet(f, from..to) \in Int
               /\ SumFunctionOnSet(f, from..(to - 1)) \in Int
               /\ SumFunctionOnSet(f, from..to) = f[to] + SumFunctionOnSet(f, from..(to - 1))
  BY DEF AddsUp
<1> TAKE from \in Nat
<1> TAKE to \in 0..MaxTime
<1> HAVE from <= to
<1>1. /\ IsFiniteSet(from..to) /\ IsFiniteSet(from..(to - 1))
      /\ \A t \in from..to : f[t] \in Int
      /\ \A t \in from..(to - 1) : f[t] \in Int
  <2>1. to \in Int /\ to - 1 \in Int /\ from \in Int
    OBVIOUS
  <2>2. IsFiniteSet(from..to) /\ IsFiniteSet(from..(to - 1))
    BY <2>1, FS_Interval
  <2> QED BY <2>2
<1>2. to \in from..to /\ (from..to) \ {to} = from..(to - 1)
  OBVIOUS
<1>3. SumFunctionOnSet(f, from..to) \in Int /\ SumFunctionOnSet(f, from..(to - 1)) \in Int
  BY <1>1, SumsOfEqualTerms
<1>4. SumFunctionOnSet(f, from..to) = f[to] + SumFunctionOnSet(f, (from..to) \ {to})
  <2> DEFINE S == from..to
  <2>1. IsFiniteSet(S) /\ to \in S /\ \A t \in S : f[t] \in Int
    BY <1>1, <1>2
  <2> HIDE DEF S
  <2>2. \A t \in S : SumFunctionOnSet(f, S) = f[t] + SumFunctionOnSet(f, S \ {t})
    BY <2>1, SumWithout
  <2> QED BY <2>1, <2>2 DEF S
<1> QED BY <1>2, <1>3, <1>4

LEMMA GivenAlike ==
  ASSUME NEW f, NEW g, \A t \in 0..MaxTime : f[t] \in Nat
  PROVE  SumsAlike(f, g)
<1> SUFFICES \A from \in Nat : \A to \in Int : to <= MaxTime /\ (\A t \in from..to : f[t] = g[t]) =>
               SumFunctionOnSet(f, from..to) = SumFunctionOnSet(g, from..to)
  BY DEF SumsAlike
<1> TAKE from \in Nat
<1> TAKE to \in Int
<1> HAVE to <= MaxTime /\ \A t \in from..to : f[t] = g[t]
<1>1. IsFiniteSet(from..to)
  <2>1. from \in Int /\ to \in Int
    OBVIOUS
  <2> QED BY <2>1, FS_Interval
<1>2. \A t \in from..to : f[t] = g[t] /\ f[t] \in Int
  OBVIOUS
<1> QED BY <1>1, <1>2, SumsOfEqualTerms

\* What bounds the present bounds the past too, if the past is left alone.
LEMMA RateFollows ==
  ASSUME RateIInv, BucketIInv', NothingAhead', SpendingIsCovered',
         Refilled(Global)' \in Nat, now' \in {now, now + 1},
         \A t \in 0..MaxTime : t < now' => granted'[Global][t] = granted[Global][t]
  PROVE  RateIInv'
<1>0. /\ Global \in Keys /\ Period[Global] \in Nat /\ Full(Global) \in Nat
      /\ now \in Nat /\ now' \in Nat /\ now <= MaxTime /\ now' <= MaxTime
      /\ \A t \in 0..MaxTime : granted[Global][t] \in Nat /\ granted'[Global][t] \in Nat
  <2>1. Global \in Keys /\ TypeOK /\ TypeOK'
    BY DEF Keys, RateIInv, BucketIInv
  <2>2. granted[Global] \in [0..MaxTime -> Nat] /\ granted'[Global] \in [0..MaxTime -> Nat]
    BY <2>1 DEF TypeOK
  <2>3. now \in 0..MaxTime /\ now' \in 0..MaxTime
    BY <2>1 DEF TypeOK
  <2> QED BY <2>1, <2>2, <2>3, FullPaysForOne
<1> SUFFICES ASSUME NEW from \in 0..now', NEW to \in from..now'
             PROVE  SumFunctionOnSet(granted'[Global], from..to) * Period[Global]
                      <= Full(Global) + (to - from)
  BY DEF RateIInv, GlobalRateBounded, RateBoundedFor, Given, Full
<1>1. CASE to = now'
  <2>1. SumFunctionOnSet(granted'[Global], from..now') * Period[Global] + Refilled(Global)'
          <= Full(Global) + (now' - from)
    BY DEF SpendingIsCovered, Given, Full
  <2>2. SumFunctionOnSet(granted'[Global], from..now') \in Int
    <3>1. from \in Nat /\ now' \in 0..MaxTime /\ from <= now'
      BY <1>0
    <3>2. AddsUp(granted'[Global])
      BY <1>0, GivenUpTo
    <3> QED BY <3>1, <3>2 DEF AddsUp
  <2> DEFINE x == SumFunctionOnSet(granted'[Global], from..now') * Period[Global]
  <2>3. x \in Int
    BY <1>0, <2>2
  <2>4. x + Refilled(Global)' <= Full(Global) + (now' - from)
    BY <2>1
  <2> HIDE DEF x
  <2>5. x <= Full(Global) + (now' - from)
    BY <1>0, <2>3, <2>4
  <2> QED BY <1>1, <2>5 DEF x
<1>2. CASE to # now'
  <2>1. to <= now /\ from \in 0..now /\ to \in from..now /\ to <= MaxTime /\ to < now'
    BY <1>0, <1>2
  <2>2. SumFunctionOnSet(granted'[Global], from..to) = SumFunctionOnSet(granted[Global], from..to)
    <3>1. \A t \in from..to : granted'[Global][t] = granted[Global][t]
      BY <1>0, <2>1
    <3>2. from \in Nat /\ to \in Int
      BY <1>0
    <3>3. SumsAlike(granted'[Global], granted[Global])
      BY <1>0, GivenAlike
    <3> QED BY <2>1, <3>1, <3>2, <3>3 DEF SumsAlike
  <2> QED BY <2>1, <2>2 DEF RateIInv, GlobalRateBounded, RateBoundedFor, Given
<1> QED BY <1>1, <1>2

\* A step that leaves the tokens where they are.
LEMMA NothingSpent ==
  ASSUME RateIInv, BucketIInv', now' = now, granted'[Global] = granted[Global],
         Refilled(Global)' = Refilled(Global)
  PROVE  RateIInv'
<1>1. NothingAhead'
  BY DEF RateIInv, NothingAhead
<1>2. SpendingIsCovered'
  BY DEF RateIInv, SpendingIsCovered, Given, Full
<1>3. Refilled(Global)' \in Nat
  BY RefillBounded DEF RateIInv, BucketIInv, Keys
<1> QED BY <1>1, <1>2, <1>3, RateFollows

\* A bucket that is counted now holds what was counted.
LEMMA CountedNow ==
  ASSUME BucketIInv, NEW k \in Keys, NEW units \in Nat, units <= Full(k),
         bucket' = [bucket EXCEPT ![k] = Count(units)], now' = now
  PROVE  Refilled(k)' = units
<1>1. bucket'[k] = Count(units) /\ now \in Nat
  BY DEF BucketIInv, TypeOK
<1>2. Full(k)' = Full(k) /\ Full(k) \in Nat
  BY FullPaysForOne DEF Full
<1> QED BY <1>1, <1>2 DEF Refilled, Count, AtMost

LEMMA OthersKeepGlobal ==
  ASSUME BucketIInv, bucket'[Global] = bucket[Global], now' = now
  PROVE  Refilled(Global)' = Refilled(Global)
BY DEF Refilled, Full

LEMMA GlobalGranted ==
  ASSUME RateIInv, BucketIInv', Allowed(Global), Grant(Global), now' = now
  PROVE  RateIInv'
<1> DEFINE given == granted[Global]
           more == granted'[Global]
           refilled == Refilled(Global)
           period == Period[Global]
           full == Full(Global)
<1>0. Global \in Keys /\ TypeOK /\ BucketIInv
  BY DEF Keys, RateIInv, BucketIInv
<1>1. /\ period \in Nat /\ full \in Nat /\ refilled \in Nat /\ refilled >= period /\ refilled <= full
      /\ now \in 0..MaxTime /\ given \in [0..MaxTime -> Nat]
      /\ \A t \in 0..MaxTime : given[t] \in Nat
  <2>1. given \in [0..MaxTime -> Nat] /\ now \in 0..MaxTime
    BY <1>0 DEF TypeOK
  <2>2. refilled >= period
    BY DEF Allowed
  <2> QED BY <1>0, <2>1, <2>2, FullPaysForOne, RefillBounded
<1>2. more = [given EXCEPT ![now] = @ + 1]
  BY <1>0, <1>1 DEF Grant, TypeOK
<1>3. (\A t \in 0..MaxTime : more[t] \in Nat) /\ more[now] = given[now] + 1
      /\ \A t \in 0..MaxTime : t # now => more[t] = given[t]
  BY <1>1, <1>2
<1>4. Refilled(Global)' = refilled - period
  <2>1. refilled - period \in Nat /\ refilled - period <= full
    BY <1>1
  <2> QED BY <1>0, <2>1, CountedNow DEF Grant
<1>5. NothingAhead'
  <2>1. \A t \in 0..MaxTime : t > now => t # now /\ given[t] = 0
    BY <1>1 DEF RateIInv, NothingAhead
  <2> QED BY <1>3, <2>1 DEF NothingAhead
<1>6. SpendingIsCovered'
  <2> SUFFICES ASSUME NEW from \in 0..now
               PROVE  SumFunctionOnSet(more, from..now) * period + (refilled - period) <= full + (now - from)
    BY <1>4 DEF SpendingIsCovered, Given, Full
  <2> DEFINE x == SumFunctionOnSet(given, from..now)
             y == SumFunctionOnSet(more, from..now)
             before == SumFunctionOnSet(given, from..(now - 1))
  <2>0. from \in Nat /\ from <= now /\ now - 1 \in Int /\ now - 1 <= MaxTime
        /\ \A t \in from..(now - 1) : given[t] = more[t]
    BY <1>1, <1>3
  <2>1. x = given[now] + before /\ x \in Int /\ before \in Int
    <3>1. AddsUp(given)
      BY <1>1, GivenUpTo
    <3> QED BY <1>1, <2>0, <3>1 DEF AddsUp
  <2>2. y = more[now] + SumFunctionOnSet(more, from..(now - 1))
    <3>1. AddsUp(more)
      BY <1>3, GivenUpTo
    <3> QED BY <1>1, <2>0, <3>1 DEF AddsUp
  <2>3. SumFunctionOnSet(more, from..(now - 1)) = before
    <3>1. SumsAlike(given, more)
      BY <1>1, GivenAlike
    <3> QED BY <2>0, <3>1 DEF SumsAlike
  <2>4. y = x + 1
    <3>1. given[now] \in Nat
      BY <1>1
    <3> HIDE DEF x, y, before, given, more
    <3> QED BY <1>3, <2>1, <2>2, <2>3, <3>1
  <2>5. x * period + refilled <= full + (now - from)
    BY DEF RateIInv, SpendingIsCovered, Given
  <2> HIDE DEF x, y, before, given, more, refilled, period, full
  <2>6. y * period = x * period + period /\ x * period \in Int
    BY <1>1, <2>1, <2>4
  <2>7. y * period + (refilled - period) <= full + (now - from)
    BY <1>1, <2>5, <2>6
  <2> QED BY <2>7 DEF y
<1>7. \A t \in 0..MaxTime : t < now' => granted'[Global][t] = granted[Global][t]
  BY <1>1, <1>3
<1>8. Refilled(Global)' \in Nat
  BY <1>1, <1>4
<1> QED BY <1>1, <1>5, <1>6, <1>7, <1>8, RateFollows

\* A tick earns one unit at most.
LEMMA RateTick ==
  ASSUME RateIInv, BucketIInv', Tick
  PROVE  RateIInv'
<1> DEFINE given == granted[Global]
           period == Period[Global]
           full == Full(Global)
<1>0. Global \in Keys /\ TypeOK /\ TypeOK' /\ BucketIInv /\ granted' = granted /\ bucket' = bucket /\ now' = now + 1
  BY DEF Keys, RateIInv, BucketIInv, Tick
<1>1. /\ period \in Nat /\ full \in Nat /\ Refilled(Global) \in Nat
      /\ now \in 0..MaxTime /\ now + 1 \in 0..MaxTime
      /\ \A t \in 0..MaxTime : given[t] \in Nat
      /\ bucket[Global].units \in Nat /\ bucket[Global].last \in Nat /\ bucket[Global].last <= now
  <2>1. now + 1 \in 0..MaxTime /\ now \in 0..MaxTime
    BY <1>0 DEF TypeOK, Tick
  <2>2. given \in [0..MaxTime -> Nat] /\ bucket[Global] \in [units : Nat, last : 0..MaxTime, exists : BOOLEAN]
        /\ bucket[Global].last <= now
    BY <1>0 DEF TypeOK
  <2> QED BY <1>0, <2>1, <2>2, FullPaysForOne, RefillBounded
<1>2. /\ Refilled(Global)' \in Nat /\ Refilled(Global)' <= Refilled(Global) + 1
      /\ Refilled(Global)' <= full
  <2>0. Full(Global)' = full
    BY DEF Full
  <2> DEFINE b == bucket[Global]
  <2>1. bucket'[Global] = b /\ now' - b.last = (now - b.last) + 1 /\ now - b.last \in Nat
    BY <1>0, <1>1
  <2>2. CASE b.exists
    <3>1. Refilled(Global) = AtMost(full, b.units + (now - b.last))
      BY <2>2 DEF Refilled
    <3>2. Refilled(Global)' = AtMost(full, b.units + ((now - b.last) + 1))
      BY <2>0, <2>1, <2>2 DEF Refilled
    <3> HIDE DEF b, full
    <3> QED BY <1>1, <2>1, <3>1, <3>2 DEF AtMost, b
  <2>3. CASE ~b.exists
    <3>1. Refilled(Global)' = full /\ Refilled(Global) = full
      BY <2>0, <2>1, <2>3 DEF Refilled
    <3> HIDE DEF full
    <3> QED BY <1>1, <3>1
  <2> QED BY <2>2, <2>3
<1>3. given[now + 1] = 0
  BY <1>1 DEF RateIInv, NothingAhead
<1>4. NothingAhead'
  BY <1>0, <1>1 DEF RateIInv, NothingAhead
<1>5. SpendingIsCovered'
  <2> SUFFICES ASSUME NEW from \in 0..(now + 1)
               PROVE  SumFunctionOnSet(given, from..(now + 1)) * period + Refilled(Global)'
                        <= full + ((now + 1) - from)
    BY <1>0 DEF SpendingIsCovered, Given, Full
  <2> DEFINE x == SumFunctionOnSet(given, from..now)
             y == SumFunctionOnSet(given, from..(now + 1))
  <2>1. y = x /\ x \in Int
    <3>1. (now + 1) - 1 = now /\ from <= now + 1 /\ from \in Nat
      BY <1>1
    <3>2. y = given[now + 1] + SumFunctionOnSet(given, from..((now + 1) - 1))
          /\ SumFunctionOnSet(given, from..((now + 1) - 1)) \in Int
      <4>1. AddsUp(given)
        BY <1>1, GivenUpTo
      <4> QED BY <1>1, <3>1, <4>1 DEF AddsUp
    <3>3. y = given[now + 1] + x /\ x \in Int
      BY <3>1, <3>2
    <3> HIDE DEF x, y, given
    <3> QED BY <1>3, <3>3
  <2>2. CASE from \in 0..now
    <3>1. x * period + Refilled(Global) <= full + (now - from)
      BY <2>2 DEF RateIInv, SpendingIsCovered, Given
    <3>2. x * period \in Int
      BY <1>1, <2>1
    <3> DEFINE z == x * period
    <3>3. z + Refilled(Global) <= full + (now - from) /\ z \in Int
      BY <3>1, <3>2
    <3> HIDE DEF x, y, z, full
    <3>4. z + Refilled(Global)' <= full + ((now + 1) - from)
      BY <1>1, <1>2, <2>2, <3>3
    <3> QED BY <2>1, <3>4 DEF z, y
  <2>3. CASE from = now + 1
    <3>1. from..now = {}
      BY <1>1, <2>3
    <3>2. x = 0
      BY <3>1, SumOfNothing
    <3> HIDE DEF x, full
    <3>3. y * period = 0
      BY <1>1, <2>1, <3>2
    <3> QED BY <1>1, <1>2, <2>3, <3>3 
  <2> QED BY <1>1, <2>2, <2>3
<1>6. \A t \in 0..MaxTime : t < now' => granted'[Global][t] = granted[Global][t]
  BY <1>0
<1> QED BY <1>0, <1>2, <1>4, <1>5, <1>6, RateFollows

\* A bucket the sweep takes is full.
LEMMA RateEvict ==
  ASSUME RateIInv, BucketIInv', NEW k \in Keys, Evict(k)
  PROVE  RateIInv'
<1>0. Global \in Keys /\ TypeOK /\ BucketIInv /\ granted' = granted /\ now' = now
  BY DEF Keys, RateIInv, BucketIInv, Evict
<1>1. CASE k # Global
  <2>1. bucket'[Global] = bucket[Global]
    BY <1>0, <1>1 DEF Evict, TypeOK
  <2> QED BY <1>0, <2>1, OthersKeepGlobal, NothingSpent
<1>2. CASE k = Global
  <2>1. /\ bucket[Global].exists /\ now - bucket[Global].last >= EvictAfter
        /\ ~bucket'[Global].exists
    BY <1>0, <1>2 DEF Evict, TypeOK, NoBucket
  <2>2. bucket[Global].units \in Nat /\ bucket[Global].last \in Nat /\ now \in Nat /\ Full(Global) \in Nat
    BY <1>0, FullPaysForOne DEF TypeOK
  <2>3. bucket[Global].units + (now - bucket[Global].last) >= Full(Global)
    BY <2>1, <2>2, EvictedIsFull, EvictAfterNatural
  <2>4. Refilled(Global) = Full(Global)
    BY <2>1, <2>2, <2>3 DEF Refilled, AtMost
  <2>5. Refilled(Global)' = Full(Global)
    BY <2>1 DEF Refilled, Full
  <2> QED BY <1>0, <2>4, <2>5, NothingSpent
<1> QED BY <1>1, <1>2

LEMMA StepPreservesRateIInv == RateIInv /\ [Next]_vars => RateIInv'
<1> SUFFICES ASSUME RateIInv, [Next]_vars PROVE RateIInv'
  OBVIOUS
<1>0. Global \in Keys /\ TypeOK /\ BucketIInv /\ BucketIInv'
  BY StepPreservesBucketIInv DEF Keys, RateIInv, BucketIInv
<1>1. CASE UNCHANGED vars
  <2>1. bucket'[Global] = bucket[Global] /\ now' = now /\ granted' = granted
    BY <1>1 DEF vars
  <2> QED BY <1>0, <2>1, OthersKeepGlobal, NothingSpent
<1>2. ASSUME NEW c \in Clients, ClientDenied(c) \/ ClientAllowed(c)
      PROVE  RateIInv'
  <2>1. c # Global /\ now' = now
    BY <1>2, GlobalApart DEF ClientDenied, ClientAllowed
  <2>2. bucket'[Global] = bucket[Global] /\ granted'[Global] = granted[Global]
    BY <1>0, <1>2, <2>1 DEF ClientDenied, ClientAllowed, Deny, Grant, TypeOK
  <2> QED BY <1>0, <2>1, <2>2, OthersKeepGlobal, NothingSpent
<1>3. ASSUME NEW c \in Clients, GlobalCheck(c)
      PROVE  RateIInv'
  <2>1. now' = now
    BY <1>3 DEF GlobalCheck
  <2>2. CASE Allowed(Global) /\ Grant(Global)
    BY <1>0, <2>1, <2>2, GlobalGranted
  <2>3. CASE ~Allowed(Global) /\ Deny(Global)
    <3>1. Refilled(Global) \in Nat /\ Refilled(Global) <= Full(Global)
      BY <1>0, RefillBounded
    <3>2. Refilled(Global)' = Refilled(Global)
      BY <1>0, <2>1, <2>3, <3>1, CountedNow DEF Deny
    <3> QED BY <1>0, <2>1, <2>3, <3>2, NothingSpent DEF Deny
  <2> QED BY <1>3, <2>2, <2>3 DEF GlobalCheck
<1>4. CASE Tick
  BY <1>0, <1>4, RateTick
<1>5. ASSUME NEW k \in Keys, Evict(k)
      PROVE  RateIInv'
  BY <1>0, <1>5, RateEvict
<1> QED BY <1>1, <1>2, <1>3, <1>4, <1>5 DEF Next

LEMMA InitRateIInv == Init => RateIInv
<1> SUFFICES ASSUME Init PROVE RateIInv
  OBVIOUS
<1>0. BucketIInv /\ now = 0 /\ Global \in Keys /\ granted[Global] = [t \in 0..MaxTime |-> 0]
  BY InitBucketIInv DEF Init, Keys
<1>1. Full(Global) \in Nat /\ Period[Global] \in Nat /\ Refilled(Global) = Full(Global)
  BY <1>0, FullPaysForOne DEF Init, Refilled, NoBucket
<1>2. SumFunctionOnSet(granted[Global], 0..0) = 0
  <2> DEFINE none == [t \in 0..MaxTime |-> 0]
  <2>1. (\A t \in 0..MaxTime : none[t] \in Nat) /\ none[0] = 0 /\ 0 \in 0..MaxTime
    OBVIOUS
  <2>2. 0..0 = {0} /\ {0} \ {0} = {} /\ IsFiniteSet({0})
    BY FS_Singleton
  <2> HIDE DEF none
  <2>3. SumFunctionOnSet(none, {0}) = none[0] + SumFunctionOnSet(none, {0} \ {0})
    <3>1. \A t \in {0} : none[t] \in Int
      BY <2>1
    <3>2. \A t \in {0} : SumFunctionOnSet(none, {0}) = none[t] + SumFunctionOnSet(none, {0} \ {t})
      BY <2>2, <3>1, SumWithout
    <3> QED BY <3>2
  <2>5. SumFunctionOnSet(none, 0..0) = 0
    BY <2>1, <2>2, <2>3, SumOfNothing
  <2> QED BY <1>0, <2>5 DEF none
<1>3. NothingAhead
  BY <1>0 DEF NothingAhead
<1>4. \A from \in 0..now : from = 0
  BY <1>0
<1>5. SpendingIsCovered
  BY <1>0, <1>1, <1>2, <1>4 DEF SpendingIsCovered, Given
<1>6. GlobalRateBounded
  <2> SUFFICES ASSUME NEW from \in 0..now, NEW to \in from..now
               PROVE  SumFunctionOnSet(granted[Global], from..to) * Period[Global] <= Full(Global) + (to - from)
    BY DEF GlobalRateBounded, RateBoundedFor, Given
  <2>1. from = 0 /\ to = 0
    BY <1>0
  <2> QED BY <1>1, <1>2, <2>1
<1> QED BY <1>0, <1>3, <1>5, <1>6 DEF RateIInv

LEMMA RateInvariance == Spec => []RateIInv
<1> QED BY InitRateIInv, StepPreservesRateIInv, PTL DEF Spec

\* Whatever clients ask and whenever the sweep runs, the deployment gives over any stretch
\* of time no more than a full bucket and what it earned meanwhile.
THEOREM DeploymentRateBounded == Spec => []GlobalRateBounded
<1> QED BY RateInvariance, PTL DEF RateIInv


-----------------------------------------------------------------------------
(* Permits. *)

Counted == {"granted", "acquired", "holding"}

\* The calls that have a permit of s when the calls are at p and use u.
Taken(p, u, s) == {c \in Calls : u[c] = s /\ p[c] \in Counted}

\* A call has chosen a semaphore exactly while it is under way.
UsesFollowPoints == \A c \in Calls : uses[c] = 0 <=> point[c] = "idle"

\* What _active counts has a permit.
ActiveIsCovered == active <= Cardinality(Holding)

\* Without an early sweep every call in progress uses the semaphore of the key, and
\* _active counts the calls that hold a permit of it.
OneSemaphore ==
  ~sweptEarly => /\ \A c \in Calls : uses[c] # 0 => uses[c] = current
                 /\ active = Cardinality(Holding)

PoolIInv ==
  /\ PoolTypeOK
  /\ UsesFollowPoints
  /\ PermitsConserved
  /\ ActiveIsCovered
  /\ OneSemaphore

-----------------------------------------------------------------------------
(* Counting permits. *)

LEMMA CallsCounted ==
  ASSUME NEW S \in SUBSET Calls
  PROVE  IsFiniteSet(S) /\ Cardinality(S) \in Nat /\ Cardinality(S) <= Cardinality(Calls)
<1>1. IsFiniteSet(S) /\ Cardinality(S) <= Cardinality(Calls)
  BY CallsFinite, FS_Subset
<1> QED BY <1>1, FS_CardinalityType

LEMMA TakenIsOn ==
  ASSUME NEW s
  PROVE  /\ Taken(point, uses, s) = On(s, Counted)
         /\ Taken(point, uses, s)' = On(s, Counted)'
         /\ Taken(point, uses, s) \in SUBSET Calls
BY DEF Taken, On, Counted

\* One more and one fewer.
LEMMA CountOneMore ==
  ASSUME NEW S \in SUBSET Calls, NEW c \in Calls, c \notin S
  PROVE  Cardinality(S \cup {c}) = Cardinality(S) + 1
BY CallsCounted, FS_AddElement

LEMMA CountOneLess ==
  ASSUME NEW S \in SUBSET Calls, NEW c \in S
  PROVE  Cardinality(S \ {c}) = Cardinality(S) - 1
BY CallsCounted, FS_RemoveElement

\* Moving a call and waking a waiter keeps the permits of every semaphore: what the
\* caller accounted for at f, and those of the others.
LEMMA MoveConserves ==
  ASSUME PoolIInv, NEW c \in Calls, NEW next \in {"acquired", "idle"}, NEW f \in Nat,
         point[c] # "idle",
         Move(c, next, uses[c], f),
         uses' = uses \/ (uses' = [uses EXCEPT ![c] = 0] /\ next = "idle"),
         f + Cardinality(Taken([point EXCEPT ![c] = next], uses', uses[c])) = Maximum
  PROVE  /\ point' \in [Calls -> Points]
         /\ ahead' \in [Calls -> SUBSET Calls]
         /\ free' \in [Semaphores -> 0..Maximum]
         /\ PermitsConserved'
         /\ point'[c] = next
         /\ \A d \in Calls \ {c} : point'[d] = point[d] \/ (point[d] = "waiting" /\ point'[d] = "granted")
<1> DEFINE s == uses[c]
           moved == [point EXCEPT ![c] = next]
           first == {d \in On(s, {"waiting"}) \ {c} : ahead[d] \subseteq {c}}
<1>0. /\ s \in Semaphores /\ moved \in [Calls -> Points] /\ f \in 0..Maximum
      /\ uses' \in [Calls -> 0..made]
  <2>1. s \in 0..made /\ s # 0 /\ made \in 0..MaxSemaphores
    BY DEF PoolIInv, PoolTypeOK, UsesFollowPoints
  <2>2. Cardinality(Taken(moved, uses', s)) \in Nat
    BY CallsCounted DEF Taken
  <2>3. f <= Maximum
    BY <2>2
  <2> QED BY <2>1, <2>3 DEF PoolIInv, PoolTypeOK, Points, Semaphores
<1>1. ASSUME NEW t \in Semaphores, t # s
      PROVE  Taken(moved, uses', t) = Taken(point, uses, t)
  BY <1>0, <1>1 DEF PoolIInv, PoolTypeOK, Taken, Semaphores
<1>2. \A t \in Semaphores : free[t] + Cardinality(Taken(point, uses, t)) = Maximum
  BY TakenIsOn DEF PoolIInv, PermitsConserved, Counted
<1>3. CASE f > 0 /\ first # {}
  <2>1. PICK d \in first : /\ point' = [moved EXCEPT ![d] = "granted"]
                           /\ free' = [free EXCEPT ![s] = f - 1]
                           /\ ahead' = [e \in Calls |-> Without(c)[e] \ {d}]
    BY <1>3 DEF Move
  <2>2. d \in Calls /\ d # c /\ point[d] = "waiting" /\ uses[d] = s /\ uses'[d] = s
    BY DEF On, PoolIInv, PoolTypeOK
  <2>3. /\ Taken(point', uses', s) = Taken(moved, uses', s) \cup {d}
        /\ d \notin Taken(moved, uses', s)
    BY <1>0, <2>1, <2>2 DEF Taken, Counted, PoolIInv, PoolTypeOK
  <2>4. Cardinality(Taken(point', uses', s)) = Cardinality(Taken(moved, uses', s)) + 1
    BY <2>2, <2>3, CountOneMore DEF Taken
  <2>5. \A t \in Semaphores \ {s} : Taken(point', uses', t) = Taken(point, uses, t)
    <3> SUFFICES ASSUME NEW t \in Semaphores, t # s
                 PROVE  Taken(point', uses', t) = Taken(moved, uses', t)
      BY <1>1
    <3> QED BY <1>0, <2>1, <2>2 DEF Taken, PoolIInv, PoolTypeOK
  <2>6. free' \in [Semaphores -> 0..Maximum]
    BY <1>0, <1>3, <2>1 DEF PoolIInv, PoolTypeOK
  <2>7. /\ free'[s] = f - 1
        /\ \A t \in Semaphores \ {s} : free'[t] = free[t]
    BY <1>0, <2>1 DEF PoolIInv, PoolTypeOK
  <2>8. \A t \in Semaphores : free'[t] + Cardinality(Taken(point', uses', t)) = Maximum
    <3> SUFFICES ASSUME NEW t \in Semaphores
                 PROVE  free'[t] + Cardinality(Taken(point', uses', t)) = Maximum
      OBVIOUS
    <3>1. CASE t = s
      <4>1. Cardinality(Taken(moved, uses', s)) \in Nat
        BY CallsCounted DEF Taken
      <4> HIDE DEF moved, s
      <4> QED BY <1>0, <1>3, <2>4, <2>7, <3>1, <4>1 DEF s, moved
    <3>2. CASE t # s
      BY <1>2, <2>5, <2>7, <3>2
    <3> QED BY <3>1, <3>2
  <2>9. PermitsConserved'
    BY <2>8 DEF PermitsConserved, On, Taken, Counted
  <2>10. ahead' \in [Calls -> SUBSET Calls]
    BY <2>1 DEF Without, PoolIInv, PoolTypeOK
  <2> QED BY <1>0, <2>1, <2>2, <2>6, <2>9, <2>10 DEF PoolIInv, PoolTypeOK, Points
<1>4. CASE ~(f > 0 /\ first # {})
  <2>1. point' = moved /\ free' = [free EXCEPT ![s] = f] /\ ahead' = Without(c)
    BY <1>4 DEF Move
  <2>2. \A t \in Semaphores : free'[t] + Cardinality(Taken(point', uses', t)) = Maximum
    BY <1>0, <1>1, <1>2, <2>1 DEF PoolIInv, PoolTypeOK
  <2>3. PermitsConserved'
    BY <2>2 DEF PermitsConserved, On, Taken, Counted
  <2>4. ahead' \in [Calls -> SUBSET Calls]
    BY <2>1 DEF Without, PoolIInv, PoolTypeOK
  <2>5. free' \in [Semaphores -> 0..Maximum]
    BY <1>0, <2>1 DEF PoolIInv, PoolTypeOK
  <2> QED BY <1>0, <2>1, <2>3, <2>4, <2>5 DEF PoolIInv, PoolTypeOK
<1> QED BY <1>3, <1>4

\* Nobody began or stopped holding.
LEMMA SameHolders ==
  ASSUME ActiveIsCovered, OneSemaphore, Holding' = Holding, active' = active,
         current' = current, sweptEarly' = sweptEarly,
         \A c \in Calls : uses'[c] = uses[c] \/ uses'[c] = 0
  PROVE  ActiveIsCovered' /\ OneSemaphore'
BY DEF ActiveIsCovered, OneSemaphore
-----------------------------------------------------------------------------
(* The invariant is inductive. *)

LEMMA InitPoolIInv == PoolInit => PoolIInv
<1> SUFFICES ASSUME PoolInit PROVE PoolIInv
  OBVIOUS
<1>1. PoolTypeOK
  <2>1. Cardinality(Calls) \in Nat
    BY CallsCounted
  <2>2. /\ 0 \in 0..Cardinality(Calls) /\ Maximum \in 0..Maximum
        /\ 0 \in 0..MaxSemaphores /\ 0 \in 0..0
    BY <2>1
  <2> QED BY <2>2 DEF PoolInit, PoolTypeOK, Points
<1>2. Holding = {} /\ \A s \in Semaphores : On(s, {"granted", "acquired", "holding"}) = {}
  BY DEF PoolInit, Holding, On
<1>3. PermitsConserved /\ ActiveIsCovered /\ OneSemaphore
  <2>1. Cardinality({}) = 0
    BY FS_EmptySet
  <2> QED BY <1>2, <2>1 DEF PoolInit, PermitsConserved, ActiveIsCovered, OneSemaphore
<1> QED BY <1>1, <1>3 DEF PoolInit, PoolIInv, UsesFollowPoints

LEMMA CallStep ==
  ASSUME PoolIInv, NEW c \in Calls, Call(c)
  PROVE  PoolIInv'
<1>0. 0 \in 0..Cardinality(Calls) /\ made \in 0..MaxSemaphores
  BY CallsCounted DEF PoolIInv, PoolTypeOK
<1>1. PoolTypeOK'
  <2>1. made' \in 0..MaxSemaphores /\ current' \in 0..made' /\ active' \in 0..Cardinality(Calls)
    BY <1>0 DEF PoolIInv, PoolTypeOK, Call
  <2>2. uses' \in [Calls -> 0..made']
    BY <1>0 DEF PoolIInv, PoolTypeOK, Call
  <2>3. point' \in [Calls -> Points] /\ UNCHANGED <<free, ahead, sweptEarly>>
    BY DEF PoolIInv, PoolTypeOK, Call, Points
  <2> QED BY <2>1, <2>2, <2>3 DEF PoolIInv, PoolTypeOK
<1>2. UsesFollowPoints'
  BY DEF PoolIInv, PoolTypeOK, UsesFollowPoints, Call
<1>3. \A s \in Semaphores : On(s, {"granted", "acquired", "holding"})'
                              = On(s, {"granted", "acquired", "holding"})
  BY DEF PoolIInv, PoolTypeOK, Call, On
<1>4. PermitsConserved'
  BY <1>3 DEF PoolIInv, PermitsConserved, Call
<1>5. Holding' = Holding /\ Holding \in SUBSET Calls
  BY DEF PoolIInv, PoolTypeOK, Call, Holding
<1>6. CASE current # 0
  BY <1>1, <1>2, <1>4, <1>5, <1>6
  DEF PoolIInv, PoolTypeOK, ActiveIsCovered, OneSemaphore, Call
<1>7. CASE current = 0
  <2>1. active' = 0 /\ current' = made + 1 /\ uses' = [uses EXCEPT ![c] = made + 1]
    BY <1>7 DEF Call
  <2>2. ~sweptEarly => Holding = {}
    BY <1>7 DEF PoolIInv, OneSemaphore, UsesFollowPoints, Holding
  <2>3. ActiveIsCovered'
    BY <1>5, <2>1, CallsCounted DEF ActiveIsCovered
  <2>4. OneSemaphore'
    BY <1>5, <1>7, <2>1, <2>2, FS_EmptySet DEF PoolIInv, PoolTypeOK, OneSemaphore, Call
  <2> QED BY <1>1, <1>2, <1>4, <2>3, <2>4 DEF PoolIInv
<1> QED BY <1>6, <1>7

LEMMA AcquireStep ==
  ASSUME PoolIInv, NEW c \in Calls, Acquire(c)
  PROVE  PoolIInv'
<1>0. PICK s \in Semaphores : s = uses[c]
  BY DEF PoolIInv, PoolTypeOK, UsesFollowPoints, Acquire, Semaphores
<1>1. Holding' = Holding /\ Holding \in SUBSET Calls
  BY DEF PoolIInv, PoolTypeOK, Acquire, Holding
<1>2. UsesFollowPoints' /\ ActiveIsCovered' /\ OneSemaphore'
  BY <1>1, SameHolders DEF PoolIInv, PoolTypeOK, UsesFollowPoints, Acquire
<1>3. CASE Locked(s)
  <2>1. PoolTypeOK'
    BY <1>0, <1>3 DEF PoolIInv, PoolTypeOK, Acquire, Points, On
  <2>2. \A t \in Semaphores : On(t, {"granted", "acquired", "holding"})'
                                = On(t, {"granted", "acquired", "holding"})
    BY <1>0, <1>3 DEF PoolIInv, PoolTypeOK, Acquire, On
  <2>3. PermitsConserved'
    BY <1>0, <1>3, <2>2 DEF PoolIInv, PermitsConserved, Acquire
  <2> QED BY <1>2, <2>1, <2>3 DEF PoolIInv
<1>4. CASE ~Locked(s)
  <2>1. free[s] \in 0..Maximum /\ free[s] # 0
    BY <1>0, <1>4 DEF PoolIInv, PoolTypeOK, Locked
  <2>2. point' = [point EXCEPT ![c] = "acquired"] /\ free' = [free EXCEPT ![s] = free[s] - 1]
        /\ UNCHANGED <<made, current, active, uses, sweptEarly, ahead>> /\ point[c] = "called"
    BY <1>0, <1>4 DEF Acquire
  <2>3. PoolTypeOK'
    BY <1>0, <2>1, <2>2 DEF PoolIInv, PoolTypeOK, Points
  <2>4. /\ On(s, Counted)' = On(s, Counted) \cup {c} /\ c \notin On(s, Counted)
        /\ \A t \in Semaphores \ {s} : On(t, Counted)' = On(t, Counted)
        /\ On(s, Counted) \in SUBSET Calls
    BY <1>0, <2>2 DEF PoolIInv, PoolTypeOK, On, Counted
  <2>5. Cardinality(On(s, Counted)') = Cardinality(On(s, Counted)) + 1
        /\ Cardinality(On(s, Counted)) \in Nat
    BY <2>4, CountOneMore, CallsCounted
  <2>6. \A t \in Semaphores : free'[t] + Cardinality(On(t, Counted)') = Maximum
    <3> SUFFICES ASSUME NEW t \in Semaphores
                 PROVE  free'[t] + Cardinality(On(t, Counted)') = Maximum
      OBVIOUS
    <3>1. free[t] + Cardinality(On(t, Counted)) = Maximum
      BY DEF PoolIInv, PermitsConserved, Counted
    <3>2. CASE t = s
      <4>1. free'[t] = free[t] - 1 /\ free[t] \in 0..Maximum /\ free[t] # 0
        BY <1>0, <2>1, <2>2, <3>2 DEF PoolIInv, PoolTypeOK
      <4>2. /\ Cardinality(On(t, Counted)') = Cardinality(On(t, Counted)) + 1
            /\ Cardinality(On(t, Counted)) \in Nat
        BY <2>5, <3>2
      <4> QED BY <3>1, <4>1, <4>2
    <3>3. CASE t # s
      BY <2>2, <2>4, <3>1, <3>3 DEF PoolIInv, PoolTypeOK
    <3> QED BY <3>2, <3>3
  <2>7. PermitsConserved'
    BY <2>6 DEF PermitsConserved, Counted, On
  <2> QED BY <1>2, <2>3, <2>7 DEF PoolIInv
<1> QED BY <1>3, <1>4

LEMMA ResumeStep ==
  ASSUME PoolIInv, NEW c \in Calls, Resume(c)
  PROVE  PoolIInv'
<1> DEFINE s == uses[c]
<1>0. s \in Semaphores /\ free[s] \in Nat /\ point[c] = "granted" /\ Move(c, "acquired", s, free[s])
      /\ UNCHANGED <<made, current, active, uses, sweptEarly>>
  BY DEF PoolIInv, PoolTypeOK, UsesFollowPoints, Resume, Semaphores
<1>1. Taken([point EXCEPT ![c] = "acquired"], uses', s) = On(s, Counted)
  BY <1>0 DEF PoolIInv, PoolTypeOK, Taken, On, Counted
<1>2. free[s] + Cardinality(Taken([point EXCEPT ![c] = "acquired"], uses', s)) = Maximum
  BY <1>0, <1>1 DEF PoolIInv, PermitsConserved, Counted
<1>3. /\ point' \in [Calls -> Points] /\ ahead' \in [Calls -> SUBSET Calls]
      /\ free' \in [Semaphores -> 0..Maximum] /\ PermitsConserved' /\ point'[c] = "acquired"
      /\ \A d \in Calls \ {c} : point'[d] = point[d] \/ (point[d] = "waiting" /\ point'[d] = "granted")
  BY <1>0, <1>2, MoveConserves
<1>4. Holding' = Holding
  BY <1>0, <1>3 DEF Holding
<1>5. PoolTypeOK' /\ UsesFollowPoints'
  <2>1. uses' \in [Calls -> 0..made] /\ made' = made
    BY <1>0 DEF PoolIInv, PoolTypeOK
  <2>2. PoolTypeOK'
    BY <1>0, <1>3, <2>1 DEF PoolIInv, PoolTypeOK
  <2> QED BY <1>0, <1>3, <2>2 DEF PoolIInv, PoolTypeOK, UsesFollowPoints
<1> QED BY <1>0, <1>3, <1>4, <1>5, SameHolders DEF PoolIInv

LEMMA EnterStep ==
  ASSUME PoolIInv, NEW c \in Calls, Enter(c)
  PROVE  PoolIInv'
<1>1. /\ Holding' = Holding \cup {c} /\ c \notin Holding /\ Holding \in SUBSET Calls
      /\ Holding' \in SUBSET Calls
  BY DEF PoolIInv, PoolTypeOK, Enter, Holding
<1>2. /\ Cardinality(Holding') = Cardinality(Holding) + 1
      /\ Cardinality(Holding) \in Nat /\ Cardinality(Calls) \in Nat
      /\ Cardinality(Holding') <= Cardinality(Calls)
  BY <1>1, CountOneMore, CallsCounted
<1>3. active' = active + 1 /\ active \in Nat /\ active <= Cardinality(Holding)
  BY <1>2 DEF PoolIInv, PoolTypeOK, ActiveIsCovered, Enter
<1>4. active' \in 0..Cardinality(Calls) /\ active' <= Cardinality(Holding')
  BY <1>2, <1>3
<1>5. PoolTypeOK' /\ UsesFollowPoints'
  BY <1>4 DEF PoolIInv, PoolTypeOK, UsesFollowPoints, Enter, Points
<1>6. \A t \in Semaphores : On(t, {"granted", "acquired", "holding"})'
                              = On(t, {"granted", "acquired", "holding"})
  BY DEF PoolIInv, PoolTypeOK, Enter, On
<1>7. PermitsConserved'
  BY <1>6 DEF PoolIInv, PermitsConserved, Enter
<1>8. ActiveIsCovered' /\ OneSemaphore'
  BY <1>2, <1>3, <1>4 DEF PoolIInv, ActiveIsCovered, OneSemaphore, Enter
<1> QED BY <1>5, <1>7, <1>8 DEF PoolIInv

LEMMA GiveUpStep ==
  ASSUME PoolIInv, NEW c \in Calls, GiveUp(c)
  PROVE  PoolIInv'
<1> DEFINE s == uses[c]
           f == IF point[c] = "granted" THEN free[s] + 1 ELSE free[s]
<1>0. /\ s \in Semaphores /\ s # 0 /\ free[s] \in Nat /\ f \in Nat
      /\ point[c] \in {"called", "waiting", "granted"} /\ Move(c, "idle", s, f)
      /\ uses' = [uses EXCEPT ![c] = 0]
      /\ UNCHANGED <<made, current, active, sweptEarly>>
  BY DEF PoolIInv, PoolTypeOK, UsesFollowPoints, GiveUp, Semaphores
<1>1. /\ Taken([point EXCEPT ![c] = "idle"], uses', s) = On(s, Counted) \ {c}
      /\ On(s, Counted) \in SUBSET Calls
      /\ c \in On(s, Counted) <=> point[c] = "granted"
  BY <1>0 DEF PoolIInv, PoolTypeOK, Taken, On, Counted
<1>2. f + Cardinality(Taken([point EXCEPT ![c] = "idle"], uses', s)) = Maximum
  <2>1. free[s] + Cardinality(On(s, Counted)) = Maximum
    BY <1>0 DEF PoolIInv, PermitsConserved, Counted
  <2>2. Cardinality(On(s, Counted)) \in Nat
    BY <1>1, CallsCounted
  <2>3. CASE point[c] = "granted"
    <3>1. Cardinality(On(s, Counted) \ {c}) = Cardinality(On(s, Counted)) - 1
      BY <1>1, <2>3, CountOneLess
    <3> DEFINE before == Cardinality(On(s, Counted))
               after == Cardinality(Taken([point EXCEPT ![c] = "idle"], uses', s))
    <3>2. before \in Nat /\ free[s] + before = Maximum /\ after = before - 1
      BY <1>1, <2>1, <2>2, <3>1
    <3>3. free[s] + 1 + after = Maximum
      <4> HIDE DEF before, after, s
      <4> QED BY <1>0, <3>2
    <3> QED BY <2>3, <3>3
  <2>4. CASE point[c] # "granted"
    <3>1. On(s, Counted) \ {c} = On(s, Counted)
      BY <1>1, <2>4
    <3> QED BY <1>1, <2>1, <2>4, <3>1
  <2> QED BY <2>3, <2>4
<1>3. /\ point' \in [Calls -> Points] /\ ahead' \in [Calls -> SUBSET Calls]
      /\ free' \in [Semaphores -> 0..Maximum] /\ PermitsConserved' /\ point'[c] = "idle"
      /\ \A d \in Calls \ {c} : point'[d] = point[d] \/ (point[d] = "waiting" /\ point'[d] = "granted")
  <2> HIDE DEF f
  <2> QED BY <1>0, <1>2, MoveConserves
<1>4. Holding' = Holding
  BY <1>0, <1>3 DEF Holding
<1>5. PoolTypeOK' /\ UsesFollowPoints'
  <2>1. uses' \in [Calls -> 0..made] /\ made' = made
    BY <1>0 DEF PoolIInv, PoolTypeOK
  <2>2. PoolTypeOK'
    BY <1>0, <1>3, <2>1 DEF PoolIInv, PoolTypeOK
  <2> QED BY <1>0, <1>3, <2>2 DEF PoolIInv, PoolTypeOK, UsesFollowPoints
<1>6. \A d \in Calls : uses'[d] = uses[d] \/ uses'[d] = 0
  BY <1>0 DEF PoolIInv, PoolTypeOK
<1> QED BY <1>0, <1>3, <1>4, <1>5, <1>6, SameHolders DEF PoolIInv

LEMMA LeaveStep ==
  ASSUME PoolIInv, NEW c \in Calls, Leave(c)
  PROVE  PoolIInv'
<1> DEFINE s == uses[c]
<1>0. /\ s \in Semaphores /\ s # 0 /\ free[s] \in Nat /\ free[s] + 1 \in Nat
      /\ point[c] = "holding" /\ Move(c, "idle", s, free[s] + 1)
      /\ uses' = [uses EXCEPT ![c] = 0]
      /\ UNCHANGED <<made, current, sweptEarly>>
  BY DEF PoolIInv, PoolTypeOK, UsesFollowPoints, Leave, Semaphores
<1>1. /\ Taken([point EXCEPT ![c] = "idle"], uses', s) = On(s, Counted) \ {c}
      /\ On(s, Counted) \in SUBSET Calls
      /\ c \in On(s, Counted)
  BY <1>0 DEF PoolIInv, PoolTypeOK, Taken, On, Counted
<1>2. free[s] + 1 + Cardinality(Taken([point EXCEPT ![c] = "idle"], uses', s)) = Maximum
  <2>1. free[s] + Cardinality(On(s, Counted)) = Maximum
    BY <1>0 DEF PoolIInv, PermitsConserved, Counted
  <2>2. Cardinality(On(s, Counted)) \in Nat
    BY <1>1, CallsCounted
  <2>3. Cardinality(On(s, Counted) \ {c}) = Cardinality(On(s, Counted)) - 1
    BY <1>1, CountOneLess
  <2> DEFINE before == Cardinality(On(s, Counted))
             after == Cardinality(Taken([point EXCEPT ![c] = "idle"], uses', s))
  <2>4. before \in Nat /\ free[s] + before = Maximum /\ after = before - 1
    BY <1>1, <2>1, <2>2, <2>3
  <2> HIDE DEF before, after, s
  <2>5. free[s] + 1 + after = Maximum
    BY <1>0, <2>4
  <2> QED BY <2>5 DEF after, s
<1>3. /\ point' \in [Calls -> Points] /\ ahead' \in [Calls -> SUBSET Calls]
      /\ free' \in [Semaphores -> 0..Maximum] /\ PermitsConserved' /\ point'[c] = "idle"
      /\ \A d \in Calls \ {c} : point'[d] = point[d] \/ (point[d] = "waiting" /\ point'[d] = "granted")
  BY <1>0, <1>2, MoveConserves
<1>4. Holding' = Holding \ {c} /\ c \in Holding /\ Holding \in SUBSET Calls
  BY <1>0, <1>3 DEF Holding
<1>5. /\ Cardinality(Holding') = Cardinality(Holding) - 1
      /\ Cardinality(Holding) \in Nat /\ Cardinality(Holding') \in Nat
      /\ Cardinality(Calls) \in Nat /\ Cardinality(Holding) <= Cardinality(Calls)
  BY <1>4, CountOneLess, CallsCounted
<1>6. /\ active' = IF active > 0 THEN active - 1 ELSE 0
      /\ active \in Nat /\ active <= Cardinality(Holding)
  BY <1>5 DEF PoolIInv, PoolTypeOK, ActiveIsCovered, Leave
<1>7. active' \in 0..Cardinality(Calls) /\ active' <= Cardinality(Holding')
  BY <1>5, <1>6
<1>8. PoolTypeOK' /\ UsesFollowPoints'
  <2>1. uses' \in [Calls -> 0..made] /\ made' = made
    BY <1>0 DEF PoolIInv, PoolTypeOK
  <2>2. PoolTypeOK'
    BY <1>0, <1>3, <1>7, <2>1 DEF PoolIInv, PoolTypeOK
  <2> QED BY <1>0, <1>3, <2>2 DEF PoolIInv, PoolTypeOK, UsesFollowPoints
<1>9. ActiveIsCovered' /\ OneSemaphore'
  BY <1>0, <1>5, <1>6, <1>7 DEF PoolIInv, PoolTypeOK, ActiveIsCovered, OneSemaphore
<1> QED BY <1>3, <1>8, <1>9 DEF PoolIInv

LEMMA SweepStep ==
  ASSUME PoolIInv, Sweep
  PROVE  PoolIInv'
<1>0. Holding \in SUBSET Calls /\ Holding' = Holding /\ Cardinality(Holding) \in Nat
  BY CallsCounted DEF Holding, Sweep
<1>1. PoolTypeOK' /\ UsesFollowPoints' /\ ActiveIsCovered'
  BY <1>0, CallsCounted
  DEF PoolIInv, PoolTypeOK, UsesFollowPoints, ActiveIsCovered, Sweep, SweepSeen
<1>2. PermitsConserved'
  BY DEF PoolIInv, PermitsConserved, Sweep, On
<1>3. OneSemaphore'
  <2> SUFFICES ASSUME ~sweptEarly' PROVE Holding = {} /\ \A c \in Calls : uses[c] = 0
    BY <1>0, FS_EmptySet DEF OneSemaphore, Sweep
  <2>1. ~sweptEarly /\ \A c \in Calls : uses[c] = current => c \in Holding
    BY DEF Sweep, SweepSeen, Holding
  <2>2. Cardinality(Holding) = 0
    BY <2>1 DEF PoolIInv, OneSemaphore, Sweep
  <2>3. Holding = {}
    BY <1>0, <2>2, CallsCounted, FS_EmptySet
  <2> QED BY <2>1, <2>3 DEF PoolIInv, OneSemaphore
<1> QED BY <1>1, <1>2, <1>3 DEF PoolIInv

LEMMA StepPreservesPoolIInv == PoolIInv /\ [PoolNext]_poolVars => PoolIInv'
<1> SUFFICES ASSUME PoolIInv, [PoolNext]_poolVars PROVE PoolIInv'
  OBVIOUS
<1>1. CASE UNCHANGED poolVars
  BY <1>1 DEF poolVars, PoolIInv, PoolTypeOK, UsesFollowPoints, PermitsConserved, ActiveIsCovered,
              OneSemaphore, Holding, On
<1>2. CASE PoolNext
  BY <1>2, CallStep, AcquireStep, ResumeStep, EnterStep, GiveUpStep, LeaveStep, SweepStep
  DEF PoolNext, Run
<1> QED BY <1>1, <1>2

LEMMA PoolInvariance == PoolSpec => []PoolIInv
<1> QED BY InitPoolIInv, StepPreservesPoolIInv, PTL DEF PoolSpec

\* Without an early sweep the calls at work hold permits of one semaphore.
LEMMA LimitFollows == PoolIInv => OnlyASweepBreaksTheLimit
<1> SUFFICES ASSUME PoolIInv, ~sweptEarly PROVE Cardinality(Holding) <= Maximum
  BY DEF OnlyASweepBreaksTheLimit
<1>1. CASE Holding = {}
  BY <1>1, FS_EmptySet
<1>2. CASE Holding # {}
  <2>1. current \in Semaphores /\ Holding \subseteq On(current, Counted)
    BY <1>2 DEF PoolIInv, PoolTypeOK, OneSemaphore, UsesFollowPoints, Holding, On, Counted, Semaphores
  <2>2. /\ Cardinality(Holding) <= Cardinality(On(current, Counted))
        /\ Cardinality(Holding) \in Nat /\ Cardinality(On(current, Counted)) \in Nat
    <3>1. On(current, Counted) \in SUBSET Calls /\ Holding \in SUBSET Calls
      BY DEF On, Holding
    <3> QED BY <2>1, <3>1, CallsCounted, FS_Subset
  <2>3. free[current] \in Nat /\ free[current] + Cardinality(On(current, Counted)) = Maximum
    BY <2>1 DEF PoolIInv, PoolTypeOK, PermitsConserved, Counted
  <2> QED BY <2>2, <2>3
<1> QED BY <1>1, <1>2
-----------------------------------------------------------------------------
\* Semaphores, permits and calls keep their types, for any calls and maximum.
THEOREM PermitTypesCorrect == PoolSpec => []PoolTypeOK
<1> QED BY PoolInvariance, PTL DEF PoolIInv

\* No path of a call - a timeout that races the hand-over of its permit included -
\* loses or makes up a permit of any semaphore.
THEOREM PermitsAreConserved == PoolSpec => []PermitsConserved
<1> QED BY PoolInvariance, PTL DEF PoolIInv

\* Only a sweep between a call's choice of its semaphore and its count in _active can
\* let more than Maximum calls work at once.
THEOREM LimitHoldsWithoutEarlySweep == PoolSpec => []OnlyASweepBreaksTheLimit
<1> QED BY LimitFollows, PoolInvariance, PTL
=============================================================================
