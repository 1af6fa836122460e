----------------------------- MODULE MCAdmission -----------------------------
(* Admission control with small buckets. *)
EXTENDS Admission, TLC

\* Buckets of one token.  A client earns it in two ticks, the deployment in one,
\* so that two clients at once are one too many.
SmallCapacity == [k \in Keys |-> 1]
SmallPeriod == [k \in Keys |-> IF k = Global THEN 1 ELSE 2]

Symmetry == Permutations(Clients)
=============================================================================
