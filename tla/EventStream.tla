---------------------------- MODULE EventStream -----------------------------
(***************************************************************************)
(* What publishing promises its consumers (kafkax): an event is on the     *)
(* topic only if it was published (its transaction committed), and an      *)
(* event that was published gets there, perhaps more than once.            *)
(***************************************************************************)
EXTENDS Sequences, Functions

CONSTANT Event

VARIABLES
    queued,    \* the events published so far
    log        \* the topic's partition, in offset order

stream == <<queued, log>>

StreamTypeOK == queued \subseteq Event /\ log \in Seq(Event)

StreamInit == queued = {} /\ log = <<>>

Queue(e) ==
    /\ e \notin queued
    /\ queued' = queued \cup {e}
    /\ UNCHANGED log

Deliver(e) ==
    /\ e \in queued
    /\ log' = Append(log, e)
    /\ UNCHANGED queued

StreamNext == \E e \in Event : Queue(e) \/ Deliver(e)

StreamSpec == StreamInit /\ [][StreamNext]_stream

\* "a crash between the two cannot lose the event".
StreamFairness ==
    \A e \in Event : WF_stream(e \notin Range(log) /\ Deliver(e))

FairStreamSpec == StreamSpec /\ StreamFairness
=============================================================================
