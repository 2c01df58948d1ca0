--------------------------- MODULE MCNacosConfig -----------------------------
(* Two Watches of one configuration that changes twice. *)
EXTENDS NacosConfig, TLC

CONSTANTS v1, v2

MCCaller == {v1, v2}
=============================================================================
