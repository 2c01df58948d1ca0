---------------------------- MODULE MCRedisLock -----------------------------
(* Two calls for one lock, one of them waiting; times in units of ttl/3. *)
EXTENDS RedisLock

CONSTANTS c1, c2

MCCall == {c1, c2}
MCWaiter == {c1}
=============================================================================
