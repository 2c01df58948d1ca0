------------------------------- MODULE Outbox --------------------------------
(***************************************************************************)
(* The transactional outbox (kafkax/outbox.go): rows of one service, and   *)
(* one relay per replica.  A round of a relay is a database transaction:   *)
(* it locks the rows it takes (FOR UPDATE SKIP LOCKED), produces them one  *)
(* by one and marks them; the marks are seen by others when it commits,    *)
(* and are gone, the locks with them, when it does not.                    *)
(***************************************************************************)
EXTENDS Integers, Sequences, FiniteSets, Functions

CONSTANTS
    Event,         \* the rows, named by their id (auto_increment)
    Relay,
    Batch,         \* kafka.outbox.batch
    MaxFailures,   \* bound: produces that fail
    MaxRollbacks   \* bound: rounds that do not commit, stops and crashes

ASSUME OutboxAssumption ==
    Event \subseteq Nat /\ Batch \in Nat \ {0} /\ MaxFailures \in Nat /\ MaxRollbacks \in Nat

VARIABLES
    state,         \* each row: see RowState
    log,           \* the topic's partition
    open,          \* the relays with a round's transaction open,
    todo, sent, failed,   \* the rows it has to send, and those it has marked
    on,            \* the relays that are started
    failures, rollbacks,
    again,         \* history: how often a row was handed back after it may have been produced
    delayed        \* history: the rows that failed, were rolled back, or were not
                   \* to be had when a round took a later one

round == <<open, todo, sent, failed>>
vars == <<state, log, round, on, failures, rollbacks, again, delayed>>

RowState == {"absent",     \* no transaction with it has committed
             "due",        \* sent_at IS NULL AND next_attempt_at <= now
             "waiting",    \* sent_at IS NULL, backing off
             "sent", "deleted"}

TypeOK ==
    /\ state \in [Event -> RowState]
    /\ log \in Seq(Event)
    /\ open \in [Relay -> BOOLEAN]
    /\ todo \in [Relay -> SUBSET Event]
    /\ sent \in [Relay -> SUBSET Event] /\ failed \in [Relay -> SUBSET Event]
    /\ on \in [Relay -> BOOLEAN]
    /\ failures \in 0..MaxFailures /\ rollbacks \in 0..MaxRollbacks
    /\ again \in [Event -> Nat] /\ delayed \subseteq Event

Init ==
    /\ state = [e \in Event |-> "absent"]
    /\ log = <<>>
    /\ open = [r \in Relay |-> FALSE]
    /\ todo = [r \in Relay |-> {}] /\ sent = [r \in Relay |-> {}] /\ failed = [r \in Relay |-> {}]
    /\ on = [r \in Relay |-> TRUE]
    /\ failures = 0 /\ rollbacks = 0
    /\ again = [e \in Event |-> 0] /\ delayed = {}

-----------------------------------------------------------------------------
\* The rows a round holds locked until it ends.
Held(r) == todo[r] \cup sent[r] \cup failed[r]

LockedAsIfNone(e) == FALSE

Locked(e) == \E r \in Relay : e \in Held(r)

\* A transaction with PublishTx in it commits.  Ids are given out at the
\* INSERT, so that transactions commit in any order of their ids.
PublishTx(e) ==
    /\ state[e] = "absent"
    /\ state' = [state EXCEPT ![e] = "due"]
    /\ delayed' = IF \E f \in Event : e < f /\ (Locked(f) \/ f \in Range(log))
                  THEN delayed \cup {e} ELSE delayed
    /\ UNCHANGED <<log, round, on, failures, rollbacks, again>>

LastById(es) == {e \in es : Cardinality({f \in es : f > e}) < Batch}

\* ORDER BY id LIMIT batch
FirstById(es) == {e \in es : Cardinality({f \in es : f < e}) < Batch}

\* Row e is the one the round sends next: it goes through them in id order.
IsNext(r, e) == e \in todo[r] /\ \A f \in todo[r] : e <= f

\* relayOnce begins: the transaction selects and locks what it will send.
Take(r) ==
    LET free == {e \in Event : state[e] = "due" /\ ~Locked(e)} IN
    /\ on[r] /\ ~open[r] /\ free # {}
    /\ open' = [open EXCEPT ![r] = TRUE]
    /\ todo' = [todo EXCEPT ![r] = FirstById(free)]
    /\ delayed' = delayed \cup {e \in Event : Locked(e) /\ \E f \in FirstById(free) : e < f}
    /\ UNCHANGED <<state, log, sent, failed, on, failures, rollbacks, again>>

\* produceRow succeeds and the transaction sets sent_at.
Produce(r, e) ==
    /\ IsNext(r, e)
    /\ log' = Append(log, e)
    /\ todo' = [todo EXCEPT ![r] = @ \ {e}] /\ sent' = [sent EXCEPT ![r] = @ \cup {e}]
    /\ UNCHANGED <<state, open, failed, on, failures, rollbacks, again, delayed>>

ProduceFailsAsSent(r, e) ==
    /\ IsNext(r, e)
    /\ failures < MaxFailures /\ failures' = failures + 1
    /\ log' \in {log, Append(log, e)}
    /\ todo' = [todo EXCEPT ![r] = @ \ {e}] /\ sent' = [sent EXCEPT ![r] = @ \cup {e}]
    /\ again' = [again EXCEPT ![e] = @ + 1] /\ delayed' = delayed \cup {e}
    /\ UNCHANGED <<state, open, failed, on, rollbacks>>

\* produceRow fails, publish_timeout included: the record may have been
\* written all the same.  The row gets its backoff, the round goes on.
ProduceFails(r, e) ==
    /\ IsNext(r, e)
    /\ failures < MaxFailures /\ failures' = failures + 1
    /\ log' \in {log, Append(log, e)}
    /\ todo' = [todo EXCEPT ![r] = @ \ {e}] /\ failed' = [failed EXCEPT ![r] = @ \cup {e}]
    /\ again' = [again EXCEPT ![e] = @ + 1] /\ delayed' = delayed \cup {e}
    /\ UNCHANGED <<state, open, sent, on, rollbacks>>

Ends(r) ==
    /\ open' = [open EXCEPT ![r] = FALSE]
    /\ todo' = [todo EXCEPT ![r] = {}]
    /\ sent' = [sent EXCEPT ![r] = {}] /\ failed' = [failed EXCEPT ![r] = {}]

\* The round's transaction commits.
CommitRound(r) ==
    /\ open[r] /\ todo[r] = {}
    /\ state' = [e \in Event |-> IF e \in sent[r] THEN "sent"
                                 ELSE IF e \in failed[r] THEN "waiting" ELSE state[e]]
    /\ Ends(r)
    /\ UNCHANGED <<log, on, failures, rollbacks, again, delayed>>

\* An UPDATE or the commit fails, StopOutbox ends the round's ctx, or the
\* process dies: nothing of the round is kept.
RollBack(r) ==
    /\ open[r]
    /\ rollbacks < MaxRollbacks /\ rollbacks' = rollbacks + 1
    /\ Ends(r)
    /\ again' = [e \in Event |-> IF e \in sent[r] THEN again[e] + 1 ELSE again[e]]
    /\ delayed' = delayed \cup Held(r)
    /\ UNCHANGED <<state, log, on, failures>>

\* StopOutbox returns (or the process is gone): no round is under way.
StopOutbox(r) ==
    /\ on[r] /\ ~open[r]
    /\ rollbacks < MaxRollbacks /\ rollbacks' = rollbacks + 1
    /\ on' = [on EXCEPT ![r] = FALSE]
    /\ UNCHANGED <<state, log, round, failures, again, delayed>>

StartOutbox(r) ==
    /\ ~on[r]
    /\ on' = [on EXCEPT ![r] = TRUE]
    /\ UNCHANGED <<state, log, round, failures, rollbacks, again, delayed>>

\* next_attempt_at comes.
BackoffOver(e) ==
    /\ state[e] = "waiting"
    /\ state' = [state EXCEPT ![e] = "due"]
    /\ UNCHANGED <<log, round, on, failures, rollbacks, again, delayed>>

CleanupDeletesWaiting(e) ==
    /\ state[e] \in {"sent", "waiting"}
    /\ state' = [state EXCEPT ![e] = "deleted"]
    /\ UNCHANGED <<log, round, on, failures, rollbacks, again, delayed>>

\* cleanupOutbox, by any replica.
Cleanup(e) ==
    /\ state[e] = "sent"
    /\ state' = [state EXCEPT ![e] = "deleted"]
    /\ UNCHANGED <<log, round, on, failures, rollbacks, again, delayed>>

\* Every row was sent and is gone, and nothing is left to do.
AllSent == (\A e \in Event : state[e] = "deleted") /\ UNCHANGED vars

Next ==
    \/ \E e \in Event : PublishTx(e) \/ BackoffOver(e) \/ Cleanup(e)
    \/ \E r \in Relay :
         \/ \E e \in Event : Produce(r, e) \/ ProduceFails(r, e)
         \/ Take(r) \/ CommitRound(r) \/ RollBack(r) \/ StopOutbox(r) \/ StartOutbox(r)
    \/ AllSent

Spec == Init /\ [][Next]_vars

\* The ticker starts a round again and again; a round goes on to its end;
\* time passes; a replica is started again.
Fairness ==
    /\ \A e \in Event : WF_vars(BackoffOver(e))
    /\ \A r \in Relay :
         /\ WF_vars(Take(r)) /\ WF_vars(\E e \in Event : Produce(r, e))
         /\ WF_vars(CommitRound(r)) /\ WF_vars(StartOutbox(r))

FairSpec == Spec /\ Fairness

-----------------------------------------------------------------------------
(* Properties. *)

\* "cannot lose the event": a row is marked sent, or deleted, only when its
\* event is on the topic, whatever rounds fail, overlap or roll back.
SentIsPublished ==
    \A e \in Event : state[e] \in {"sent", "deleted"} => e \in Range(log)

Copies(e) == Cardinality({i \in DOMAIN log : log[i] = e})

\* "FOR UPDATE SKIP LOCKED, so replicas share the work": an event is on the
\* topic once, and once more for each time a failed produce or a round that
\* was rolled back made somebody send it again; replicas add nothing.
CopiesAreRetries ==
    \A e \in Event : Copies(e) <= 1 + again[e]

\* "Order is per key within a topic, as with Publish; rows are relayed in id
\* order": a row is on the topic before an earlier one, of whatever batch or
\* replica, only if the earlier one was delayed: its produce failed and the
\* round went on, its round was rolled back, another replica held it, or its
\* transaction committed when the later one had been taken.
RelayedInIdOrder ==
    \A e, f \in Event :
        e < f /\ f \in Range(log) /\ state[e] # "absent"
        => e \in Range(log) \/ e \in delayed

\* The outbox implements EventStream: an event is on the topic only if its
\* transaction committed, and once that has happened it gets there.
Stream == INSTANCE EventStream WITH queued <- {e \in Event : state[e] # "absent"}

ImplementsStream == Stream!FairStreamSpec
=============================================================================
