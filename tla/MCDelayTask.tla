---------------------------- MODULE MCDelayTask -----------------------------
(* Two replicas; a row of a short kind, or one of a long kind, or both.  One *)
(* unit of time is a heartbeat, so stale() is three units.                   *)
EXTENDS DelayTask, TLC

CONSTANTS short1, short2, short3, long1, r1, r2, k1

ShortOrLong == {short1, long1}
ThreeShort == {short1, short2, short3}
OneShort == {short1}
OneLong == {long1}
NoLong == {}
TwoReplicas == {r1, r2}
OneKey == {k1}
SameKey == [t \in Task |-> k1]

Symmetry == Permutations(TwoReplicas)
=============================================================================
