------------------------- MODULE MCRedisRateLimiter -------------------------
(* RedisRateLimiter for TLC.  Steady deployments either have calls that take *)
(* no time but may fail, or calls that take up to a second and do not.       *)
EXTENDS RedisRateLimiter, TLC

Symmetry == Permutations(Callers) \cup Permutations(Suffixes)

Steady == {[slack |-> 0, failures |-> TRUE], [slack |-> TicksPerSecond, failures |-> FALSE]}
=============================================================================
