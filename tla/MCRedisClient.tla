---------------------------- MODULE MCRedisClient ----------------------------
(* Instance of RedisClient for TLC. *)
EXTENDS RedisClient

CONSTANTS i1, c1, c2, c3, k1, r1, r2
=============================================================================
