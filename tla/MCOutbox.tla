------------------------------ MODULE MCOutbox -------------------------------
(* Three rows, two replicas, rounds of up to two rows. *)
EXTENDS Outbox, TLC

CONSTANTS r1, r2

MCEvent == 1..3
MCRelay == {r1, r2}
=============================================================================
