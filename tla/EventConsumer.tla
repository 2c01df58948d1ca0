---------------------------- MODULE EventConsumer ----------------------------
(***************************************************************************)
(* Consuming (kafkax/kafkax.go) and the dead-letter tool (kafkax/dlq.go)   *)
(* of one service and one partition of a topic.  The topic is fed by an    *)
(* EventStream: events come at least once and in no particular order.      *)
(*                                                                         *)
(* Consumers and tools are workers: both take a range of records and put   *)
(* one after the other through process, which claims the event's dedupe    *)
(* key, runs the handler and forgets the key when the handler failed.      *)
(***************************************************************************)
EXTENDS EventStream, Integers, FiniteSets

CONSTANTS
    Garbled,       \* events whose value is not an envelope
    Consumer,      \* one per replica, all in the service's consumer group
    Tool,          \* processes started with --dlq
    Nobody,
    MaxLog,        \* bound: records of the topic
    MaxForeign,    \* bound: records other services park in the same dlq
    MaxCommands,   \* bound: commands given to the tool
    MaxFaults      \* bound: operations of Redis and Kafka that fail, dedupe keys
                   \* that run out, and rebalances, evictions, stops and deaths

Worker == Consumer \cup Tool

ASSUME ConsumerAssumption ==
    /\ Garbled \subseteq Event /\ Consumer \cap Tool = {} /\ Nobody \notin Worker
    /\ IsFiniteSet(Consumer) /\ IsFiniteSet(Tool)
    /\ MaxLog \in Nat /\ MaxForeign \in Nat /\ MaxCommands \in Nat
    /\ MaxFaults \in Nat

VARIABLES
    committed,     \* the group's next offset (offsets start at 1)
    owner,         \* the consumer the partition is assigned to
    job,           \* each worker's place: see Job
    stopping,      \* the consumers whose ctx Close has ended
    keys,          \* the events with a dedupe key in Redis
    dlq,           \* <topic>.dlq, in offset order
    position,      \* the tool group's next offset in it
    handled,       \* how often the handler succeeded on each event
    slips,         \* history: how often the dedupe check of each event failed or
                   \* its key ran out
    lost,          \* history: failed events that were not parked and are not
                   \* redelivered, and events whose key ran out before the
                   \* handler had succeeded
    dropped,       \* history: dlq offsets marked done by --dlq drop
    forsaken,      \* history: events whose replay failed after another tool had
                   \* taken their record for done
    commands, upsets, errors

group == <<committed, owner, stopping>>
dead == <<dlq, position, dropped, forsaken>>
used == <<commands, upsets, errors>>
vars == <<stream, group, job, keys, dead, handled, slips, lost, used>>

Place == {"down", "idle", "claim", "handle", "forget", "failed", "commit"}

\* The records from..end of the topic, or of the dlq, the one at pos in
\* hand; key says that the worker set the dedupe key itself.
Job == [pc : Place, pos : Nat, from : Nat, end : Nat, key : BOOLEAN,
        kind : {"poll", "all", "one", "drop"}]

TypeOK ==
    /\ StreamTypeOK
    /\ committed \in 1..MaxLog + 1 /\ owner \in Consumer \cup {Nobody}
    /\ job \in [Worker -> Job] /\ stopping \subseteq Consumer
    /\ keys \subseteq Event \ Garbled
    /\ dlq \in Seq([event : Event, ours : BOOLEAN])
    /\ position \in 1..Len(dlq) + 1 /\ dropped \subseteq DOMAIN dlq
    /\ handled \in [Event -> Nat] /\ slips \in [Event -> Nat]
    /\ lost \subseteq Event /\ forsaken \subseteq Event
    /\ commands \in 0..MaxCommands /\ upsets + errors \in 0..MaxFaults

Idle == [pc |-> "idle", pos |-> 1, from |-> 1, end |-> 0, key |-> FALSE, kind |-> "poll"]
Down == [Idle EXCEPT !.pc = "down"]

Init ==
    /\ queued = Event /\ log = <<>>   \* any of them may come
    /\ committed = 1 /\ owner = Nobody /\ stopping = {}
    /\ job = [w \in Worker |-> IF w \in Consumer THEN Idle ELSE Down]
    /\ keys = {}
    /\ dlq = <<>> /\ position = 1 /\ dropped = {} /\ forsaken = {}
    /\ handled = [e \in Event |-> 0] /\ slips = [e \in Event |-> 0] /\ lost = {}
    /\ commands = 0 /\ upsets = 0 /\ errors = 0

OneMoreError == /\ upsets + errors < MaxFaults /\ errors' = errors + 1
                /\ UNCHANGED <<commands, upsets>>
OneMoreUpset == /\ upsets + errors < MaxFaults /\ upsets' = upsets + 1
                /\ UNCHANGED <<commands, errors>>

-----------------------------------------------------------------------------
(* process: one record, the same way for a consumer and for a replay. *)

InHand(w) == IF w \in Consumer THEN log[job[w].pos] ELSE dlq[job[w].pos].event

Put(w, j) == job' = [job EXCEPT ![w] = j]

\* The record in hand is done: on to the next one, or to the commit.
Advanced(j) == [j EXCEPT !.pos = @ + 1, !.key = FALSE,
                         !.pc = IF j.pos = j.end THEN "commit" ELSE "claim"]

\* process returned an error: a consumer looks whether to park the record,
\* the tool stops in front of it.
Failed(w) == [job[w] EXCEPT !.key = FALSE, !.pc = IF w \in Consumer THEN "failed" ELSE "commit"]

\* The record a worker turns to is one for process; the tool skips records
\* of other services (SkipForeign).
Processes(w) == job[w].pc = "claim" /\ (w \in Tool => dlq[job[w].pos].ours)

Undecodable(w) ==
    /\ Processes(w) /\ InHand(w) \in Garbled
    /\ Put(w, Failed(w))
    /\ UNCHANGED <<stream, group, keys, dead, handled, slips, lost, used>>

ClaimHandlesDuplicates(w) ==
    LET e == InHand(w) IN
    /\ Processes(w) /\ e \notin Garbled
    /\ keys' = keys \cup {e}
    /\ Put(w, [job[w] EXCEPT !.pc = "handle", !.key = e \notin keys])
    /\ UNCHANGED <<stream, group, dead, handled, slips, lost, used>>

\* seen: SetNX; the event of a key that is there is a duplicate, and done.
Claim(w) ==
    LET e == InHand(w) IN
    /\ Processes(w) /\ e \notin Garbled
    /\ keys' = keys \cup {e}
    /\ Put(w, IF e \in keys THEN Advanced(job[w])
              ELSE [job[w] EXCEPT !.pc = "handle", !.key = TRUE])
    /\ UNCHANGED <<stream, group, dead, handled, slips, lost, used>>

\* SetNX fails, before or after it reached Redis: the event is handled
\* anyway, and its key not forgotten later.
ClaimError(w) ==
    LET e == InHand(w) IN
    /\ Processes(w) /\ e \notin Garbled /\ OneMoreError
    /\ keys' \in {keys, keys \cup {e}}
    /\ slips' = [slips EXCEPT ![e] = @ + 1]
    /\ Put(w, [job[w] EXCEPT !.pc = "handle"])
    /\ UNCHANGED <<stream, group, dead, handled, lost>>

HandlerSucceeds(w) ==
    /\ job[w].pc = "handle"
    /\ handled' = [handled EXCEPT ![InHand(w)] = @ + 1]
    /\ Put(w, Advanced(job[w]))
    /\ UNCHANGED <<stream, group, keys, dead, slips, lost, used>>

\* The handler fails or panics, retries times.  The ctx looked at in
\* between is the record's, which no shutdown ends.
HandlerFails(w) ==
    /\ job[w].pc = "handle"
    /\ Put(w, [job[w] EXCEPT !.pc = "forget"])
    /\ UNCHANGED <<stream, group, keys, dead, handled, slips, lost, used>>

\* Tool t has gone past record k of the dlq, or began behind it.
TakesForDone(t, k) ==
    /\ job[t].pc # "down"
    /\ \/ k < job[t].from
       \/ job[t].kind # "drop" /\ k < job[t].pos /\ (job[t].kind = "one" => k = job[t].end)

\* The replay of w fails, and no other is to come: a second tool has found
\* the key that w had set, and taken the record for a duplicate.
Forsakes(w) ==
    /\ w \in Tool /\ job[w].key
    /\ job[w].pos < position \/ \E t \in Tool : TakesForDone(t, job[w].pos)

Forget(w) ==
    /\ job[w].pc = "forget"
    /\ keys' = IF job[w].key THEN keys \ {InHand(w)} ELSE keys
    /\ forsaken' = IF Forsakes(w) THEN forsaken \cup {InHand(w)} ELSE forsaken
    /\ Put(w, Failed(w))
    /\ UNCHANGED <<stream, group, dlq, position, dropped, handled, slips, lost, used>>

\* The error of Del is not looked at.
ForgetError(w) ==
    /\ job[w].pc = "forget" /\ job[w].key /\ OneMoreError
    /\ Put(w, Failed(w))
    /\ UNCHANGED <<stream, group, keys, dead, handled, slips, lost>>

\* dedupe.ttl: Redis drops a key, whoever still works under it.
Expire(e) ==
    /\ e \in keys /\ OneMoreUpset
    /\ keys' = keys \ {e}
    /\ slips' = [slips EXCEPT ![e] = @ + 1]
    /\ lost' = IF handled[e] = 0 THEN lost \cup {e} ELSE lost
    /\ UNCHANGED <<stream, group, job, dead, handled>>

-----------------------------------------------------------------------------
(* consume and handle. *)

Poll(c) ==
    /\ job[c].pc = "idle" /\ owner = c /\ c \notin stopping
    /\ job[c].pos <= Len(log)
    /\ \E last \in job[c].pos..Len(log) :
         Put(c, [job[c] EXCEPT !.pc = "claim", !.end = last])
    /\ UNCHANGED <<stream, group, keys, dead, handled, slips, lost, used>>

ParkForgets(c) ==
    /\ job[c].pc = "failed" /\ c \notin stopping
    /\ Put(c, Advanced(job[c]))
    /\ UNCHANGED <<stream, group, keys, dead, handled, slips, lost, used>>

Park(c) ==
    /\ job[c].pc = "failed" /\ c \notin stopping
    /\ dlq' = Append(dlq, [event |-> InHand(c), ours |-> TRUE])
    /\ Put(c, Advanced(job[c]))
    /\ UNCHANGED <<stream, group, keys, position, dropped, forsaken, handled, slips, lost, used>>

\* "cannot park event in dlq; it is lost", unless only the answer was.
ParkError(c) ==
    /\ job[c].pc = "failed" /\ c \notin stopping /\ OneMoreError
    /\ \/ lost' = lost \cup {InHand(c)} /\ UNCHANGED dlq
       \/ dlq' = Append(dlq, [event |-> InHand(c), ours |-> TRUE]) /\ UNCHANGED lost
    /\ Put(c, Advanced(job[c]))
    /\ UNCHANGED <<stream, group, keys, position, dropped, forsaken, handled, slips>>

\* "A shutdown in the middle parks nothing: the record is redelivered",
\* unless the group has taken the partition away meanwhile.
LeaveUnparked(c) ==
    /\ job[c].pc = "failed" /\ c \in stopping
    /\ lost' = IF owner = c THEN lost ELSE lost \cup {InHand(c)}
    /\ Put(c, Advanced(job[c]))
    /\ UNCHANGED <<stream, group, keys, dead, handled, slips, used>>

\* Back in the poll: while it has the partition it reads on from where it is.
Polls(c) == IF owner = c THEN [Idle EXCEPT !.pos = job[c].pos] ELSE Idle

CommitAnyway(c) ==
    /\ job[c].pc = "commit"
    /\ committed' = IF owner = c THEN job[c].pos ELSE committed
    /\ Put(c, Polls(c))
    /\ UNCHANGED <<stream, owner, stopping, keys, dead, handled, slips, lost, used>>

\* CommitUncommittedOffsets(ctx): once ctx has ended, or the partition is
\* another consumer's, it commits nothing.
Commit(c) ==
    /\ job[c].pc = "commit"
    /\ committed' = IF owner = c /\ c \notin stopping THEN job[c].pos ELSE committed
    /\ Put(c, Polls(c))
    /\ UNCHANGED <<stream, owner, stopping, keys, dead, handled, slips, lost, used>>

CommitError(c) ==
    /\ job[c].pc = "commit" /\ OneMoreError
    /\ Put(c, Polls(c))
    /\ UNCHANGED <<stream, group, keys, dead, handled, slips, lost>>

-----------------------------------------------------------------------------
(* The consumer group and the life of a consumer. *)

\* A member that polls gets the partition, and reads on from the commit.
Assign(c) ==
    /\ owner = Nobody /\ job[c].pc = "idle" /\ c \notin stopping
    /\ owner' = c
    /\ Put(c, [Idle EXCEPT !.pos = committed])
    /\ UNCHANGED <<stream, committed, stopping, keys, dead, handled, slips, lost, used>>

\* BlockRebalanceOnPoll: between polls only.
Rebalance(c) ==
    /\ owner = c /\ job[c].pc = "idle" /\ OneMoreUpset
    /\ owner' = Nobody
    /\ Put(c, Idle)
    /\ UNCHANGED <<stream, committed, stopping, keys, dead, handled, slips, lost>>

\* A member that keeps a rebalance waiting too long is put out of the group
\* with its records in hand.
Evict(c) ==
    /\ owner = c /\ job[c].pc \notin {"idle", "down"} /\ OneMoreUpset
    /\ owner' = Nobody
    /\ UNCHANGED <<stream, committed, stopping, job, keys, dead, handled, slips, lost>>

\* Close: stop() ends the ctx; the records in hand are gone through.
Stop(c) ==
    /\ job[c].pc # "down" /\ c \notin stopping /\ OneMoreUpset
    /\ stopping' = stopping \cup {c}
    /\ UNCHANGED <<stream, committed, owner, job, keys, dead, handled, slips, lost>>

Gone(c) ==
    /\ Put(c, Down)
    /\ owner' = IF owner = c THEN Nobody ELSE owner
    /\ stopping' = stopping \ {c}
    /\ lost' = IF job[c].pc = "failed" /\ owner # c THEN lost \cup {InHand(c)} ELSE lost
    /\ UNCHANGED <<stream, committed, keys, dead, handled, slips>>

Stopped(c) == c \in stopping /\ job[c].pc = "idle" /\ Gone(c) /\ UNCHANGED used

\* The process dies, or ends while it still works: Close waits 15s.
Die(c) == job[c].pc # "down" /\ OneMoreUpset /\ Gone(c)

Start(c) ==
    /\ job[c].pc = "down"
    /\ Put(c, Idle)
    /\ UNCHANGED <<stream, group, keys, dead, handled, slips, lost, used>>

-----------------------------------------------------------------------------
(* The dead-letter tool. *)

\* dlqPending: the records from the tool group's position on, all of them
\* or as many as came in time.
Pending(last) == [Down EXCEPT !.from = position, !.end = last]

\* replay <topic>, replay <topic> <offset> or drop <topic>.
Command(t) ==
    /\ job[t].pc = "down" /\ position <= Len(dlq)
    /\ commands < MaxCommands /\ commands' = commands + 1 /\ UNCHANGED <<upsets, errors>>
    /\ \E last \in position..Len(dlq) :
         \/ Put(t, [Pending(last) EXCEPT !.pc = "claim", !.pos = position, !.kind = "all"])
         \/ \E at \in position..last : dlq[at].ours
              /\ Put(t, [Pending(last) EXCEPT !.pc = "claim", !.pos = at, !.end = at, !.kind = "one"])
         \/ Put(t, [Pending(last) EXCEPT !.pc = "commit", !.pos = last + 1, !.kind = "drop"])
    /\ UNCHANGED <<stream, group, keys, dead, handled, slips, lost>>

SkipForeign(t) ==
    /\ job[t].pc = "claim" /\ ~dlq[job[t].pos].ours
    /\ Put(t, Advanced(job[t]))
    /\ UNCHANGED <<stream, group, keys, dead, handled, slips, lost, used>>

MarksDoneAlways(j) == j.pos # j.from

\* The offset a command commits: one past the last record that is done.  A
\* replay of one record commits it only when no earlier one of ours waits.
MarksDone(j) ==
    IF j.kind = "one"
    THEN j.pos = j.end + 1 /\ \A i \in j.from..j.end - 1 : ~dlq[i].ours
    ELSE j.pos # j.from

CommitDone(t) ==
    LET j == job[t] IN
    /\ j.pc = "commit"
    /\ position' = IF MarksDone(j) THEN j.pos ELSE position
    /\ dropped' = IF j.kind = "drop" THEN dropped \cup (j.from..j.end) ELSE dropped
    /\ Put(t, Down)
    /\ UNCHANGED <<stream, group, keys, dlq, forsaken, handled, slips, lost, used>>

CommitDoneError(t) ==
    /\ job[t].pc = "commit" /\ OneMoreError
    /\ Put(t, Down)
    /\ UNCHANGED <<stream, group, keys, dead, handled, slips, lost>>

\* The tool's process is ended in the middle of a command.
Interrupt(t) ==
    /\ job[t].pc # "down" /\ OneMoreUpset
    /\ Put(t, Down)
    /\ UNCHANGED <<stream, group, keys, dead, handled, slips, lost>>

\* Another service parks a record of the topic, say the first.
ParkForeign ==
    /\ log # <<>>
    /\ Len(SelectSeq(dlq, LAMBDA d : ~d.ours)) < MaxForeign
    /\ dlq' = Append(dlq, [event |-> log[1], ours |-> FALSE])
    /\ UNCHANGED <<stream, group, job, keys, position, dropped, forsaken, handled, slips, lost, used>>

-----------------------------------------------------------------------------
Publishing ==
    /\ Len(log) < MaxLog /\ \E e \in Event : Deliver(e)
    /\ UNCHANGED <<group, job, keys, dead, handled, slips, lost, used>>

\* The group waits at the end of a topic that the bound lets grow no more.
CaughtUp ==
    /\ Len(log) = MaxLog /\ owner # Nobody
    /\ job[owner].pos = Len(log) + 1
    /\ \A w \in Worker : job[w].pc \in {"idle", "down"}
    /\ UNCHANGED vars

Process(w) ==
    \/ Undecodable(w) \/ Claim(w) \/ ClaimError(w)
    \/ HandlerSucceeds(w) \/ HandlerFails(w) \/ Forget(w) \/ ForgetError(w)

Consume(c) ==
    \/ Process(c) \/ Poll(c) \/ Park(c) \/ ParkError(c) \/ LeaveUnparked(c)
    \/ Commit(c) \/ CommitError(c)

Next ==
    \/ Publishing
    \/ \E c \in Consumer :
         \/ Consume(c) \/ Assign(c) \/ Rebalance(c) \/ Evict(c)
         \/ Stop(c) \/ Stopped(c) \/ Die(c) \/ Start(c)
    \/ \E t \in Tool :
         \/ Process(t) \/ Command(t) \/ SkipForeign(t)
         \/ CommitDone(t) \/ CommitDoneError(t) \/ Interrupt(t)
    \/ \E e \in Event : Expire(e)
    \/ ParkForeign \/ CaughtUp

Spec == Init /\ [][Next]_vars

\* The goroutines of a live consumer run and handlers end; a free partition
\* is assigned; a process that is down is started again.
Fairness ==
    \A c \in Consumer :
        WF_vars(Consume(c)) /\ WF_vars(Assign(c)) /\ WF_vars(Stopped(c)) /\ WF_vars(Start(c))

FairSpec == Spec /\ Fairness

-----------------------------------------------------------------------------
(* Properties. *)

\* A worker stands behind the event: it will see the handler's outcome, and
\* park the record if need be.
UnderWay(e) ==
    \E w \in Worker : job[w].pc \in {"handle", "forget", "failed"} /\ InHand(w) = e

\* A dedupe key nobody stands behind, of an event that was not handled: its
\* worker died, its Del failed or the answer of its SetNX was lost.
Orphaned(e) == e \in keys /\ handled[e] = 0 /\ ~UnderWay(e)

Parked(e) == \E i \in DOMAIN dlq : dlq[i].event = e /\ dlq[i].ours

\* "offsets are committed after processing (at least once)": an event the
\* group has committed past was handled, is being handled or is parked; the
\* exceptions are an orphaned key, a record that could not be parked, and a
\* key that ran out (dedupe.ttl) before the handler had succeeded.
CommittedIsDone ==
    \A i \in 1..committed - 1 :
        LET e == log[i] IN
        handled[e] > 0 \/ Parked(e) \/ UnderWay(e) \/ Orphaned(e) \/ e \in lost

\* "a message is pending until it is replayed or dropped": the tool group's
\* position passes a message this service parked only when its handler
\* succeeded or an operator dropped it, or dropped the copy that a failing
\* redelivery had parked; or its key is orphaned, which the replay takes for
\* handled, or the event is with a consumer, is delivered again or was
\* parked again; or its replay failed when another tool, run at the same
\* time, had taken the key of that very replay for a handled event; or the
\* event is one of those in lost.
PositionIsEarned ==
    \A i \in 1..position - 1 :
        LET e == dlq[i].event IN
        dlq[i].ours => \/ handled[e] > 0 \/ \E k \in dropped : dlq[k] = dlq[i]
                       \/ Orphaned(e) \/ UnderWay(e) \/ e \in lost \/ e \in forsaken
                       \/ \E j \in committed..Len(log) : log[j] = e
                       \/ \E j \in position..Len(dlq) : dlq[j] = dlq[i]

\* "a handler then sees each event id once even when Kafka delivers it
\* twice": it succeeds once per event, whatever is redelivered, evicted or
\* replayed, and once more for each time that the dedupe check of this event
\* failed or its key ran out: a copy that comes later than dedupe.ttl (24 h)
\* after the first, from a replay say, is handled a second time.
HandledOnce ==
    \A e \in Event : handled[e] <= 1 + slips[e]

\* Every event on the topic is handled or parked in the end, but for the
\* exceptions of CommittedIsDone.
EveryEventIsSettled ==
    \A e \in Event :
        e \in Range(log) ~> (handled[e] > 0 \/ Parked(e) \/ Orphaned(e) \/ e \in lost)

\* "A failure forgets the dedupe key, so the record runs when it comes
\* again": an event the group has committed past was handled, is being
\* handled or is parked, or was given up with an error in the log (lost).
\* Violated: a process that ends between SetNX and the handler's outcome
\* leaves the key behind, and the redelivered event is skipped as a
\* duplicate, without a word.
AtLeastOnce ==
    \A i \in 1..committed - 1 :
        LET e == log[i] IN handled[e] > 0 \/ Parked(e) \/ UnderWay(e) \/ e \in lost
=============================================================================
