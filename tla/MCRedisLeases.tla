---------------------------- MODULE MCRedisLeases ----------------------------
(* Concurrency leases on a few calls. *)
EXTENDS RedisLeases, TLC

Symmetry == Permutations(Calls)
=============================================================================
