------------------------- MODULE EventConsumerProofs -------------------------
(***************************************************************************)
(* Proofs about EventConsumer: for any finite sets of consumers and tools, *)
(* any events, any number of records, commands and faults, what the group  *)
(* has committed past is done, a handler succeeds once but for failed      *)
(* dedupe checks and keys that ran out, and the tools' position passes no  *)
(* record that nobody answers for.                                         *)
(***************************************************************************)
EXTENDS EventConsumer, FiniteSetTheorems, TLAPS

-----------------------------------------------------------------------------
(* The inductive invariant. *)

\* A record is in the worker's hand.
Active == {"claim", "handle", "forget", "failed"}

DeadLetter == [event : Event, ours : BOOLEAN]

BaseOK ==
    /\ queued \subseteq Event /\ log \in Seq(Event) /\ Len(log) <= MaxLog
    /\ committed \in 1..Len(log) + 1 /\ owner \in Consumer \cup {Nobody}
    /\ stopping \subseteq Consumer
    /\ keys \subseteq Event \ Garbled /\ lost \subseteq Event
    /\ dlq \in Seq(DeadLetter)
    /\ position \in 1..Len(dlq) + 1 /\ dropped \subseteq 1..Len(dlq)
    /\ handled \in [Event -> Nat] /\ slips \in [Event -> Nat]

CountersOK ==
    /\ commands \in 0..MaxCommands /\ upsets \in Nat /\ errors \in Nat
    /\ upsets + errors <= MaxFaults
    /\ forsaken \subseteq Event

JobsOK == job \in [Worker -> Job]

\* A consumer is within the records it polled, and the owner not behind the
\* commit.
ConsumerOK(c) ==
    /\ job[c].pos >= 1 /\ job[c].pos <= Len(log) + 1
    /\ job[c].pc \in Active => job[c].pos <= job[c].end /\ job[c].end <= Len(log)
    /\ owner = c => job[c].pc # "down" /\ committed <= job[c].pos

\* A tool is within the records it read.
ToolOK(t) ==
    /\ job[t].pc \in {"down", "claim", "handle", "forget", "commit"}
    /\ job[t].pc # "down" =>
         /\ job[t].from >= 1 /\ job[t].from <= job[t].pos
         /\ job[t].pos <= job[t].end + 1 /\ job[t].end <= Len(dlq)
         /\ job[t].kind = "drop" => job[t].pos = job[t].end + 1
    /\ job[t].pc \in Active => job[t].pos <= job[t].end

PlacesOK == (\A c \in Consumer : ConsumerOK(c)) /\ (\A t \in Tool : ToolOK(t))

\* Only an envelope reaches the handler, and of the dlq only our own record.
HandOK(w) ==
    /\ job[w].key => job[w].pc \in {"handle", "forget"}
    /\ job[w].pc \in {"handle", "forget"} => InHand(w) \notin Garbled
    /\ job[w].pc \in {"handle", "forget"} /\ w \in Tool => dlq[job[w].pos].ours

HandsOK == \A w \in Worker : HandOK(w)

\* What a worker does for event e: it holds the dedupe key, it runs the
\* handler or has yet to forget the key, it is to park the record.
Keyed(w, e) == job[w].key /\ InHand(w) = e
Running(w, e) == job[w].pc \in {"handle", "forget"} /\ InHand(w) = e
Failing(w, e) == w \in Consumer /\ job[w].pc = "failed" /\ InHand(w) = e

Runners(e) == {w \in Worker : Running(w, e)}

\* Every run, past or under way, has a slip to show for it, but for the one
\* whose key is there.
RunsOK(e) == handled[e] + Cardinality(Runners(e)) <= slips[e] + (IF e \in keys THEN 1 ELSE 0)

CountInv == \A e \in Event : RunsOK(e)

\* What is said of an event for good, or by a worker that will say it: the
\* record of a worker that is no longer the owner is parked or lost.
Settled(e) ==
    \/ handled[e] > 0 \/ Parked(e) \/ e \in lost
    \/ \E c \in Consumer : Failing(c, e) /\ owner # c

\* The key speaks for the event, unless the owner set it: it may forget it,
\* and leave the record to be redelivered.
Vouched(e) == Settled(e) \/ (e \in keys /\ ~\E c \in Consumer : owner = c /\ Keyed(c, e))

DoneInv ==
    /\ \A i \in 1..committed - 1 : Vouched(log[i])
    /\ \A c \in Consumer : owner = c /\ c \notin stopping
                           => \A i \in 1..job[c].pos - 1 : Vouched(log[i])

\* A tool at work has dealt with record k of the dlq.
Passed(k) == \E t \in Tool : TakesForDone(t, k)

\* A record in the dlq that is still to be replayed.
Waits(k, e) ==
    /\ position <= k /\ k <= Len(dlq)
    /\ dlq[k].event = e /\ dlq[k].ours /\ ~Passed(k)

Dropped(e) == \E k \in dropped : dlq[k].event = e /\ dlq[k].ours

Redelivered(e) == \E j \in committed..Len(log) : log[j] = e

\* Somebody answers for the event, even if it is not delivered again.
Owed(e) ==
    \/ handled[e] > 0 \/ e \in lost \/ e \in forsaken \/ e \in keys \/ Dropped(e)
    \/ \E k \in 1..Len(dlq) : Waits(k, e)
    \/ \E c \in Consumer : Failing(c, e)

Answered(e) == Owed(e) \/ Redelivered(e)

EarnInv ==
    /\ \A k \in 1..Len(dlq) : dlq[k].ours /\ (k < position \/ Passed(k)) => Answered(dlq[k].event)
    /\ \A c \in Consumer : owner = c /\ c \notin stopping
                           => \A j \in committed..job[c].pos - 1 : Owed(log[j])

ConsumerInv ==
    BaseOK /\ CountersOK /\ JobsOK /\ PlacesOK /\ HandsOK /\ CountInv /\ DoneInv

-----------------------------------------------------------------------------
(* What the steps do, in terms of the fields of the job of the worker whose *)
(* step it is. *)

OKs == BaseOK /\ CountersOK /\ JobsOK /\ PlacesOK /\ HandsOK

Others(w) == \A v \in Worker : v # w => job'[v] = job[v]

Kept(w) == job'[w].from = job[w].from /\ job'[w].end = job[w].end /\ job'[w].kind = job[w].kind

GoesTo(w, pc, pos, key) == job'[w].pc = pc /\ job'[w].pos = pos /\ job'[w].key = key

GivenUp(w) == IF w \in Consumer THEN "failed" ELSE "commit"

Advances(w) ==
    /\ GoesTo(w, IF job[w].pos = job[w].end THEN "commit" ELSE "claim", job[w].pos + 1, FALSE)
    /\ Kept(w)

SameTopic == queued' = queued /\ log' = log
SameGroup == committed' = committed /\ owner' = owner /\ stopping' = stopping
SameDead == dlq' = dlq /\ position' = position /\ dropped' = dropped
SameMarks == keys' = keys /\ handled' = handled /\ slips' = slips /\ lost' = lost

\* The counters go on, and what was forsaken stays so.
Counts == CountersOK' /\ forsaken \subseteq forsaken'

Moves(w) == Others(w) /\ JobsOK' /\ Counts
Quiet(w) == Moves(w) /\ SameTopic /\ SameGroup /\ SameDead /\ SameMarks

GivesUpEff(w) ==
    /\ job[w].pc \in {"claim", "forget"} /\ Quiet(w) /\ Kept(w)
    /\ GoesTo(w, GivenUp(w), job[w].pos, FALSE)

SkipEff(w) ==
    /\ job[w].pc = "claim" /\ Quiet(w) /\ Advances(w)
    /\ InHand(w) \in keys \/ (w \in Tool /\ ~dlq[job[w].pos].ours)

ClaimEff(w) ==
    /\ job[w].pc = "claim" /\ InHand(w) \notin keys /\ InHand(w) \notin Garbled
    /\ w \in Tool => dlq[job[w].pos].ours
    /\ Moves(w) /\ SameTopic /\ SameGroup /\ SameDead /\ handled' = handled /\ lost' = lost
    /\ slips' = slips
    /\ keys' = keys \cup {InHand(w)}
    /\ Kept(w) /\ GoesTo(w, "handle", job[w].pos, TRUE)

ClaimErrorEff(w) ==
    /\ job[w].pc = "claim" /\ InHand(w) \notin Garbled
    /\ w \in Tool => dlq[job[w].pos].ours
    /\ Moves(w) /\ SameTopic /\ SameGroup /\ SameDead /\ handled' = handled /\ lost' = lost
    /\ slips' = [slips EXCEPT ![InHand(w)] = slips[InHand(w)] + 1]
    /\ keys' = keys \/ keys' = keys \cup {InHand(w)}
    /\ Kept(w) /\ GoesTo(w, "handle", job[w].pos, FALSE)

SucceedsEff(w) ==
    /\ job[w].pc = "handle"
    /\ Moves(w) /\ SameTopic /\ SameGroup /\ SameDead /\ keys' = keys /\ lost' = lost
    /\ slips' = slips
    /\ handled' = [handled EXCEPT ![InHand(w)] = handled[InHand(w)] + 1]
    /\ Advances(w)

FailsEff(w) ==
    /\ job[w].pc = "handle" /\ Quiet(w) /\ Kept(w)
    /\ GoesTo(w, "forget", job[w].pos, job[w].key)

ForgetEff(w) ==
    /\ job[w].pc = "forget" /\ job[w].key
    /\ Moves(w) /\ SameTopic /\ SameGroup /\ SameDead /\ handled' = handled /\ lost' = lost
    /\ slips' = slips
    /\ keys' = keys \ {InHand(w)}
    /\ w \in Tool /\ (job[w].pos < position \/ Passed(job[w].pos)) => InHand(w) \in forsaken'
    /\ Kept(w) /\ GoesTo(w, GivenUp(w), job[w].pos, FALSE)

PollEff(c) ==
    /\ job[c].pc = "idle" /\ Quiet(c)
    /\ GoesTo(c, "claim", job[c].pos, FALSE)
    /\ job'[c].end >= job[c].pos /\ job'[c].end <= Len(log)

ParkEff(c) ==
    /\ job[c].pc = "failed" /\ Advances(c)
    /\ Moves(c) /\ SameTopic /\ SameGroup /\ SameMarks
    /\ position' = position /\ dropped' = dropped
    /\ dlq' = Append(dlq, [event |-> InHand(c), ours |-> TRUE])

LoseEff(c) ==
    /\ job[c].pc = "failed" /\ Advances(c)
    /\ Moves(c) /\ SameTopic /\ SameGroup /\ SameDead /\ keys' = keys /\ handled' = handled
    /\ slips' = slips
    /\ lost' = lost \cup {InHand(c)} \/ (lost' = lost /\ owner = c /\ c \in stopping)

CommitEff(c) ==
    /\ job[c].pc = "commit"
    /\ Moves(c) /\ SameTopic /\ SameDead /\ SameMarks
    /\ owner' = owner /\ stopping' = stopping
    /\ committed' = committed \/ (owner = c /\ c \notin stopping /\ committed' = job[c].pos)
    /\ GoesTo(c, "idle", IF owner = c THEN job[c].pos ELSE 1, FALSE)

AssignEff(c) ==
    /\ owner = Nobody /\ job[c].pc = "idle"
    /\ Moves(c) /\ SameTopic /\ SameDead /\ SameMarks
    /\ committed' = committed /\ owner' = c /\ stopping' = stopping
    /\ GoesTo(c, "idle", committed, FALSE)

RebalanceEff(c) ==
    /\ owner = c /\ job[c].pc = "idle"
    /\ Moves(c) /\ SameTopic /\ SameDead /\ SameMarks
    /\ committed' = committed /\ owner' = Nobody /\ stopping' = stopping
    /\ GoesTo(c, "idle", 1, FALSE)

GoneEff(c) ==
    /\ Moves(c) /\ SameTopic /\ SameDead /\ keys' = keys /\ handled' = handled
    /\ slips' = slips
    /\ committed' = committed /\ stopping' = stopping \ {c}
    /\ owner' = IF owner = c THEN Nobody ELSE owner
    /\ lost' = IF job[c].pc = "failed" /\ owner # c THEN lost \cup {InHand(c)} ELSE lost
    /\ GoesTo(c, "down", 1, FALSE)

StartEff(c) == job[c].pc = "down" /\ Quiet(c) /\ GoesTo(c, "idle", 1, FALSE)

CommandEff(t) ==
    /\ job[t].pc = "down" /\ Quiet(t) /\ job'[t].key = FALSE
    /\ job'[t].from = position /\ job'[t].end >= position /\ job'[t].end <= Len(dlq)
    /\ \/ job'[t].kind = "all" /\ job'[t].pc = "claim" /\ job'[t].pos = position
       \/ job'[t].kind = "one" /\ job'[t].pc = "claim" /\ job'[t].pos = job'[t].end
       \/ job'[t].kind = "drop" /\ job'[t].pc = "commit" /\ job'[t].pos = job'[t].end + 1

CommitDoneEff(t) ==
    /\ job[t].pc = "commit"
    /\ Moves(t) /\ SameTopic /\ SameGroup /\ SameMarks /\ dlq' = dlq
    /\ position' = IF MarksDone(job[t]) THEN job[t].pos ELSE position
    /\ dropped' = IF job[t].kind = "drop" THEN dropped \cup (job[t].from..job[t].end) ELSE dropped
    /\ GoesTo(t, "down", 1, FALSE)

DownEff(t) == Quiet(t) /\ GoesTo(t, "down", 1, FALSE)

\* Steps that change no job.
EvictEff ==
    /\ job' = job /\ Counts /\ SameTopic /\ SameDead /\ SameMarks
    /\ committed' = committed
    /\ \/ owner' = Nobody /\ stopping' = stopping
       \/ owner' = owner /\ \E c \in Consumer : stopping' = stopping \cup {c}

AppendEff ==
    /\ job' = job /\ Counts /\ SameGroup /\ SameMarks
    /\ position' = position /\ dropped' = dropped /\ queued' = queued
    /\ \/ dlq' = dlq /\ Len(log) < MaxLog /\ \E e \in Event : log' = Append(log, e)
       \/ log' = log /\ \E e \in Event : dlq' = Append(dlq, [event |-> e, ours |-> FALSE])

ExpireEff(e) ==
    /\ job' = job /\ Counts /\ SameTopic /\ SameGroup /\ SameDead /\ handled' = handled
    /\ keys' = keys \ {e} /\ slips' = [slips EXCEPT ![e] = slips[e] + 1]
    /\ lost' = IF handled[e] = 0 THEN lost \cup {e} ELSE lost

IdleEff == job' = job /\ Counts /\ SameTopic /\ SameGroup /\ SameDead /\ SameMarks

ProcessEff(w) ==
    \/ GivesUpEff(w) \/ SkipEff(w) \/ ClaimEff(w) \/ ClaimErrorEff(w)
    \/ SucceedsEff(w) \/ FailsEff(w) \/ ForgetEff(w)

ConsumerEff(c) ==
    \/ ProcessEff(c) \/ PollEff(c) \/ ParkEff(c) \/ LoseEff(c) \/ CommitEff(c)
    \/ AssignEff(c) \/ RebalanceEff(c) \/ GoneEff(c) \/ StartEff(c)

ToolEff(t) == ProcessEff(t) \/ CommandEff(t) \/ CommitDoneEff(t) \/ DownEff(t)

Effect ==
    \/ \E c \in Consumer : ConsumerEff(c)
    \/ \E t \in Tool : ToolEff(t)
    \/ EvictEff \/ AppendEff \/ IdleEff \/ \E e \in Event : ExpireEff(e)

-----------------------------------------------------------------------------
(* The steps have these effects. *)

\* Consumers and tools are the workers, and there are finitely many.
LEMMA Workers ==
    /\ Worker = Consumer \cup Tool /\ IsFiniteSet(Worker) /\ Nobody \notin Worker
    /\ \A w \in Worker : w \in Tool <=> w \notin Consumer
  BY ConsumerAssumption, FS_Union DEF Worker

\* A worker's job has the job's fields.
LEMMA JobFields ==
    ASSUME JobsOK, NEW w \in Worker
    PROVE  /\ job[w] \in Job
           /\ job[w].pc \in Place /\ job[w].pos \in Nat /\ job[w].from \in Nat
           /\ job[w].end \in Nat /\ job[w].key \in BOOLEAN
           /\ job[w].kind \in {"poll", "all", "one", "drop"}
  BY DEF JobsOK, Job

\* Only the worker's own job is put.
LEMMA PutMoves ==
    ASSUME JobsOK, NEW w \in Worker, NEW j \in Job, Put(w, j)
    PROVE  Others(w) /\ JobsOK' /\ job'[w] = j
  BY DEF Put, JobsOK, Others

\* A step that uses up an error, an upset or nothing keeps the counters.
LEMMA CountsOK ==
    ASSUME CountersOK, OneMoreError \/ OneMoreUpset \/ UNCHANGED used, forsaken' = forsaken
    PROVE  Counts
  BY ConsumerAssumption DEF CountersOK, Counts, OneMoreError, OneMoreUpset, used

\* An event is in the hand of an active worker.
LEMMA HandIsEvent ==
    ASSUME BaseOK, JobsOK, PlacesOK, NEW w \in Worker, job[w].pc \in Active
    PROVE  /\ InHand(w) \in Event
           /\ w \in Consumer => job[w].pos \in 1..Len(log) /\ InHand(w) = log[job[w].pos]
           /\ w \in Tool => job[w].pos \in 1..Len(dlq) /\ InHand(w) = dlq[job[w].pos].event
                            /\ dlq[job[w].pos] \in DeadLetter
  <1>1. Len(log) \in Nat /\ Len(dlq) \in Nat /\ job[w].pos \in Nat /\ job[w].end \in Nat
    BY JobFields DEF BaseOK
  <1>2. CASE w \in Consumer
    <2>1. job[w].pos \in 1..Len(log)
      BY <1>1, <1>2 DEF PlacesOK, ConsumerOK
    <2> QED BY <1>2, <2>1, Workers DEF InHand, BaseOK
  <1>3. CASE w \in Tool
    <2>1. w \notin Consumer /\ job[w].pc # "down"
      BY <1>3, Workers DEF Active
    <2>2. job[w].from \in Nat /\ job[w].from >= 1 /\ job[w].from <= job[w].pos /\ job[w].end <= Len(dlq)
          /\ job[w].pos <= job[w].end
      BY <1>3, <2>1, JobFields DEF PlacesOK, ToolOK
    <2>3. job[w].pos \in 1..Len(dlq)
      BY <1>1, <2>2
    <2>4. dlq[job[w].pos] \in DeadLetter
      BY <2>3 DEF BaseOK
    <2> QED BY <2>1, <2>3, <2>4 DEF InHand, DeadLetter
  <1> QED BY <1>2, <1>3, Workers

\* The job of a worker that is done with a record, and of one that failed.
LEMMA AdvancedJob ==
    ASSUME JobsOK, NEW w \in Worker
    PROVE  /\ Advanced(job[w]) \in Job
           /\ Put(w, Advanced(job[w])) => Others(w) /\ JobsOK' /\ Advances(w)
  <1> DEFINE p == IF job[w].pos = job[w].end THEN "commit" ELSE "claim"
             n == job[w].pos + 1
  <1>a. p \in Place /\ n \in Nat
    BY JobFields DEF Place
  <1>b. Advanced(job[w]) = [job[w] EXCEPT !.pos = n, !.key = FALSE, !.pc = p]
    BY DEF Advanced
  <1>1. Advanced(job[w]) \in Job
    <2> HIDE DEF p, n
    <2> QED BY <1>a, <1>b, JobFields DEF Job
  <1>2. ASSUME Put(w, Advanced(job[w])) PROVE Others(w) /\ JobsOK' /\ Advances(w)
    <2>1. Others(w) /\ JobsOK' /\ job'[w] = Advanced(job[w])
      BY <1>1, <1>2, PutMoves
    <2> QED BY <2>1, JobFields DEF Advanced, Advances, GoesTo, Kept, Job
  <1> QED BY <1>1, <1>2

\* A worker whose process fails keeps its range, its record and no key.
LEMMA FailedJob ==
    ASSUME JobsOK, NEW w \in Worker, Put(w, Failed(w))
    PROVE  Others(w) /\ JobsOK' /\ Kept(w) /\ GoesTo(w, GivenUp(w), job[w].pos, FALSE)
  <1>1. Failed(w) \in Job
    BY JobFields DEF Failed, Job, Place
  <1>2. Others(w) /\ JobsOK' /\ job'[w] = Failed(w)
    BY <1>1, PutMoves
  <1> QED BY <1>2, JobFields DEF Failed, GivenUp, GoesTo, Kept, Job

\* The job of a worker that goes on with the same record.
LEMMA TurnedJob ==
    ASSUME JobsOK, NEW w \in Worker, NEW p \in Place, NEW k \in BOOLEAN,
           Put(w, [job[w] EXCEPT !.pc = p, !.key = k])
    PROVE  Others(w) /\ JobsOK' /\ Kept(w) /\ GoesTo(w, p, job[w].pos, k)
  <1>1. [job[w] EXCEPT !.pc = p, !.key = k] \in Job
    BY JobFields DEF Job
  <1>2. Others(w) /\ JobsOK' /\ job'[w] = [job[w] EXCEPT !.pc = p, !.key = k]
    BY <1>1, PutMoves
  <1> QED BY <1>2, JobFields DEF GoesTo, Kept, Job

\* The steps of process.
LEMMA ProcessDoes ==
    ASSUME OKs, NEW w \in Worker, Process(w)
    PROVE  ProcessEff(w)
  <1> USE DEF OKs
  <1> DEFINE e == InHand(w)
  <1>j. job[w].key \in BOOLEAN /\ job[w].pc \in Place /\ job[w] \in Job
    BY JobFields
  <1>k. job[w].pc = "claim" => job[w].key = FALSE
    BY <1>j DEF HandsOK, HandOK
  <1>1. CASE Undecodable(w)
    <2>1. Quiet(w)
      BY <1>1, FailedJob, CountsOK
      DEF Undecodable, Quiet, Moves, SameTopic, SameGroup, SameDead, SameMarks, stream, group,
          dead
    <2> QED BY <1>1, <2>1, FailedJob DEF Undecodable, Processes, GivesUpEff, ProcessEff
  <1>2. CASE Claim(w) /\ e \in keys
    <2>1. Put(w, Advanced(job[w])) /\ keys' = keys
      BY <1>2 DEF Claim
    <2>2. Quiet(w) /\ Advances(w)
      BY <1>2, <2>1, AdvancedJob, CountsOK
      DEF Claim, Quiet, Moves, SameTopic, SameGroup, SameDead, SameMarks, stream, group, dead
    <2> QED BY <1>2, <2>2 DEF Claim, Processes, SkipEff, ProcessEff
  <1>3. CASE Claim(w) /\ e \notin keys
    <2>1. Put(w, [job[w] EXCEPT !.pc = "handle", !.key = TRUE]) /\ keys' = keys \cup {e}
      BY <1>3 DEF Claim
    <2>2. Others(w) /\ JobsOK' /\ Kept(w) /\ GoesTo(w, "handle", job[w].pos, TRUE)
      BY <2>1, TurnedJob DEF Place
    <2>3. Moves(w) /\ SameTopic /\ SameGroup /\ SameDead /\ handled' = handled /\ lost' = lost
          /\ slips' = slips
      BY <1>3, <2>2, CountsOK
      DEF Claim, Moves, SameTopic, SameGroup, SameDead, stream, group, dead
    <2> QED BY <1>3, <2>1, <2>2, <2>3 DEF Claim, Processes, ClaimEff, ProcessEff
  <1>4. CASE ClaimError(w)
    <2>1. job[w].pc = "claim" /\ Put(w, [job[w] EXCEPT !.pc = "handle"])
      BY <1>4 DEF ClaimError, Processes
    <2>2. [job[w] EXCEPT !.pc = "handle"] = [job[w] EXCEPT !.pc = "handle", !.key = FALSE]
      BY <1>j, <1>k, <2>1 DEF Job
    <2>3. Others(w) /\ JobsOK' /\ Kept(w) /\ GoesTo(w, "handle", job[w].pos, FALSE)
      <3>1. Put(w, [job[w] EXCEPT !.pc = "handle", !.key = FALSE]) /\ "handle" \in Place
        BY <2>1, <2>2 DEF Place
      <3> QED BY <3>1, TurnedJob
    <2>4. Moves(w) /\ SameTopic /\ SameGroup /\ SameDead /\ handled' = handled /\ lost' = lost
          /\ slips' = [slips EXCEPT ![e] = slips[e] + 1]
      BY <1>4, <2>3, CountsOK
      DEF ClaimError, Moves, SameTopic, SameGroup, SameDead, stream, group, dead
    <2>5. keys' = keys \/ keys' = keys \cup {e}
      BY <1>4 DEF ClaimError
    <2> QED BY <1>4, <2>3, <2>4, <2>5 DEF ClaimError, Processes, ClaimErrorEff, ProcessEff
  <1>5. CASE HandlerSucceeds(w)
    <2>1. Others(w) /\ JobsOK' /\ Advances(w)
      BY <1>5, AdvancedJob DEF HandlerSucceeds
    <2>2. Moves(w) /\ SameTopic /\ SameGroup /\ SameDead /\ keys' = keys /\ lost' = lost
          /\ slips' = slips
      BY <1>5, <2>1, CountsOK
      DEF HandlerSucceeds, Moves, SameTopic, SameGroup, SameDead, stream, group, dead
    <2>3. job[w].pc = "handle" /\ handled' = [handled EXCEPT ![InHand(w)] = handled[InHand(w)] + 1]
      BY <1>5 DEF HandlerSucceeds
    <2> QED BY <2>1, <2>2, <2>3 DEF SucceedsEff, ProcessEff
  <1>6. CASE HandlerFails(w)
    <2>1. [job[w] EXCEPT !.pc = "forget"] = [job[w] EXCEPT !.pc = "forget", !.key = job[w].key]
      BY <1>j DEF Job
    <2>2. Others(w) /\ JobsOK' /\ Kept(w) /\ GoesTo(w, "forget", job[w].pos, job[w].key)
      <3>1. Put(w, [job[w] EXCEPT !.pc = "forget", !.key = job[w].key]) /\ "forget" \in Place
        BY <1>6, <2>1 DEF HandlerFails, Place
      <3> QED BY <1>j, <3>1, TurnedJob
    <2>3. job[w].pc = "handle" /\ Quiet(w)
      BY <1>6, <2>2, CountsOK
      DEF HandlerFails, Quiet, Moves, SameTopic, SameGroup, SameDead, SameMarks, stream, group,
          dead
    <2> QED BY <2>2, <2>3 DEF FailsEff, ProcessEff
  <1>7. CASE Forget(w)
    <2>1. job[w].pc = "forget" /\ Put(w, Failed(w))
      BY <1>7 DEF Forget
    <2>f. forsaken' = IF Forsakes(w) THEN forsaken \cup {InHand(w)} ELSE forsaken
      BY <1>7 DEF Forget
    <2>c. Counts
      <3>1. UNCHANGED used
        BY <1>7 DEF Forget
      <3>2. InHand(w) \in Event
        BY <2>1, HandIsEvent DEF Active
      <3> QED BY <2>f, <3>1, <3>2, ConsumerAssumption DEF CountersOK, Counts, used
    <2>2. Moves(w) /\ SameTopic /\ SameGroup /\ SameDead /\ handled' = handled /\ lost' = lost
          /\ slips' = slips
      BY <1>7, <2>1, <2>c, FailedJob
      DEF Forget, Moves, SameTopic, SameGroup, SameDead, stream, group
    <2>3. CASE job[w].key
      <3>1. /\ keys' = keys \ {InHand(w)}
            /\ w \in Tool /\ (job[w].pos < position \/ Passed(job[w].pos)) => InHand(w) \in forsaken'
        BY <1>7, <2>3, <2>f DEF Forget, Forsakes, Passed
      <3> QED BY <2>1, <2>2, <2>3, <3>1, FailedJob DEF ForgetEff, ProcessEff
    <2>4. CASE ~job[w].key
      <3>1. keys' = keys
        BY <1>7, <2>4 DEF Forget
      <3> QED BY <2>1, <2>2, <3>1, FailedJob DEF GivesUpEff, Quiet, SameMarks, ProcessEff
    <2> QED BY <2>3, <2>4
  <1>8. CASE ForgetError(w)
    <2>1. job[w].pc = "forget" /\ Put(w, Failed(w))
      BY <1>8 DEF ForgetError
    <2>2. Quiet(w)
      BY <1>8, <2>1, FailedJob, CountsOK
      DEF ForgetError, Quiet, Moves, SameTopic, SameGroup, SameDead, SameMarks, stream, group,
          dead
    <2> QED BY <2>1, <2>2, FailedJob DEF GivesUpEff, ProcessEff
  <1> QED BY <1>1, <1>2, <1>3, <1>4, <1>5, <1>6, <1>7, <1>8 DEF Process

\* The jobs a worker starts from.
LEMMA IdleJobs ==
    /\ Idle \in Job /\ Idle.pc = "idle" /\ Idle.pos = 1 /\ Idle.key = FALSE
    /\ Down \in Job /\ Down.pc = "down" /\ Down.pos = 1 /\ Down.key = FALSE
  BY DEF Idle, Down, Job, Place

\* The job of a consumer that polls at p.
LEMMA IdleAt ==
    ASSUME NEW p \in Nat
    PROVE  LET j == [Idle EXCEPT !.pos = p] IN
           j \in Job /\ j.pc = "idle" /\ j.pos = p /\ j.key = FALSE
  BY DEF Idle, Job, Place

\* The steps of consume and handle.
LEMMA ConsumeDoes ==
    ASSUME OKs, NEW c \in Consumer, Consume(c)
    PROVE  ConsumerEff(c)
  <1> USE DEF OKs
  <1>w. c \in Worker
    BY Workers
  <1>j. job[c].key \in BOOLEAN /\ job[c].pc \in Place /\ job[c] \in Job /\ job[c].pos \in Nat
    BY <1>w, JobFields
  <1>1. CASE Process(c)
    BY <1>w, <1>1, ProcessDoes DEF ConsumerEff
  <1>2. CASE Poll(c)
    <2>1. job[c].pc = "idle" /\ job[c].key = FALSE
      BY <1>2, <1>w, <1>j DEF Poll, HandsOK, HandOK
    <2>2. PICK last \in job[c].pos..Len(log) : Put(c, [job[c] EXCEPT !.pc = "claim", !.end = last])
      BY <1>2 DEF Poll
    <2>3. Len(log) \in Nat /\ last \in Nat /\ last >= job[c].pos /\ last <= Len(log)
      BY <1>j DEF BaseOK
    <2>4. [job[c] EXCEPT !.pc = "claim", !.end = last] \in Job
      BY <1>j, <2>3 DEF Job, Place
    <2>5. Others(c) /\ JobsOK' /\ job'[c] = [job[c] EXCEPT !.pc = "claim", !.end = last]
      BY <1>w, <2>2, <2>4, PutMoves
    <2>6. GoesTo(c, "claim", job[c].pos, FALSE) /\ job'[c].end = last
      BY <1>j, <2>1, <2>5 DEF GoesTo, Job
    <2>7. Quiet(c)
      BY <1>2, <2>5, CountsOK
      DEF Poll, Quiet, Moves, SameTopic, SameGroup, SameDead, SameMarks, stream, group, dead
    <2> QED BY <2>1, <2>3, <2>6, <2>7 DEF PollEff, ConsumerEff
  <1>3. CASE Park(c)
    <2>1. job[c].pc = "failed" /\ Others(c) /\ JobsOK' /\ Advances(c)
      BY <1>w, <1>3, AdvancedJob DEF Park
    <2>2. ParkEff(c)
      BY <1>3, <2>1, CountsOK DEF Park, ParkEff, Moves, SameTopic, SameGroup, SameMarks,
                                  stream, group
    <2> QED BY <2>2 DEF ConsumerEff
  <1>4. CASE ParkError(c)
    <2>1. job[c].pc = "failed" /\ Others(c) /\ JobsOK' /\ Advances(c)
      BY <1>w, <1>4, AdvancedJob DEF ParkError
    <2>2. Moves(c) /\ SameTopic /\ SameGroup /\ keys' = keys /\ handled' = handled /\ slips' = slips
          /\ position' = position /\ dropped' = dropped
      BY <1>4, <2>1, CountsOK DEF ParkError, Moves, SameTopic, SameGroup, stream, group
    <2>3. CASE lost' = lost \cup {InHand(c)} /\ UNCHANGED dlq
      BY <2>1, <2>2, <2>3 DEF LoseEff, SameDead, ConsumerEff
    <2>4. CASE dlq' = Append(dlq, [event |-> InHand(c), ours |-> TRUE]) /\ UNCHANGED lost
      BY <2>1, <2>2, <2>4 DEF ParkEff, SameMarks, ConsumerEff
    <2> QED BY <1>4, <2>3, <2>4 DEF ParkError
  <1>5. CASE LeaveUnparked(c)
    <2>1. job[c].pc = "failed" /\ Others(c) /\ JobsOK' /\ Advances(c)
      BY <1>w, <1>5, AdvancedJob DEF LeaveUnparked
    <2>2. Moves(c) /\ SameTopic /\ SameGroup /\ SameDead /\ keys' = keys /\ handled' = handled
          /\ slips' = slips
      BY <1>5, <2>1, CountsOK DEF LeaveUnparked, Moves, SameTopic, SameGroup, SameDead, stream,
                                  group, dead
    <2>3. lost' = lost \cup {InHand(c)} \/ (lost' = lost /\ owner = c /\ c \in stopping)
      BY <1>5 DEF LeaveUnparked
    <2> QED BY <2>1, <2>2, <2>3 DEF LoseEff, ConsumerEff
  <1>6. CASE Commit(c) \/ CommitError(c)
    <2>1. job[c].pc = "commit" /\ Put(c, Polls(c))
      BY <1>6 DEF Commit, CommitError
    <2>2. Polls(c) \in Job /\ Polls(c).pc = "idle" /\ Polls(c).key = FALSE
          /\ Polls(c).pos = IF owner = c THEN job[c].pos ELSE 1
      BY <1>j, IdleAt, IdleJobs DEF Polls
    <2>3. Others(c) /\ JobsOK' /\ GoesTo(c, "idle", IF owner = c THEN job[c].pos ELSE 1, FALSE)
      BY <1>w, <2>1, <2>2, PutMoves DEF GoesTo
    <2>4. Moves(c) /\ SameTopic /\ SameDead /\ SameMarks /\ owner' = owner /\ stopping' = stopping
      BY <1>6, <2>3, CountsOK
      DEF Commit, CommitError, Moves, SameTopic, SameDead, SameMarks, stream, group, dead
    <2>5. committed' = committed \/ (owner = c /\ c \notin stopping /\ committed' = job[c].pos)
      BY <1>6 DEF Commit, CommitError, group
    <2> QED BY <2>1, <2>3, <2>4, <2>5 DEF CommitEff, ConsumerEff
  <1> QED BY <1>1, <1>2, <1>3, <1>4, <1>5, <1>6 DEF Consume

\* The steps of the group and of a consumer's life.
LEMMA GroupDoes ==
    ASSUME OKs, NEW c \in Consumer,
           Assign(c) \/ Rebalance(c) \/ Evict(c) \/ Stop(c) \/ Stopped(c) \/ Die(c) \/ Start(c)
    PROVE  ConsumerEff(c) \/ EvictEff
  <1> USE DEF OKs
  <1>w. c \in Worker
    BY Workers
  <1>1. CASE Assign(c)
    <2>1. committed \in Nat /\ Put(c, [Idle EXCEPT !.pos = committed])
      BY <1>1 DEF Assign, BaseOK
    <2> DEFINE j == [Idle EXCEPT !.pos = committed]
    <2>2. Others(c) /\ JobsOK' /\ GoesTo(c, "idle", committed, FALSE)
      <3>1. j \in Job /\ j.pc = "idle" /\ j.pos = committed /\ j.key = FALSE /\ Put(c, j)
        BY <2>1, IdleAt
      <3> HIDE DEF j
      <3>2. Others(c) /\ JobsOK' /\ job'[c] = j
        BY <1>w, <3>1, PutMoves
      <3> QED BY <3>1, <3>2 DEF GoesTo
    <2> QED BY <1>1, <2>2, CountsOK
        DEF Assign, AssignEff, Moves, SameTopic, SameDead, SameMarks, stream, dead, ConsumerEff
  <1>2. CASE Rebalance(c)
    <2>1. Others(c) /\ JobsOK' /\ GoesTo(c, "idle", 1, FALSE)
      BY <1>w, <1>2, IdleJobs, PutMoves DEF Rebalance, GoesTo
    <2> QED BY <1>2, <2>1, CountsOK
        DEF Rebalance, RebalanceEff, Moves, SameTopic, SameDead, SameMarks, stream, dead,
            ConsumerEff
  <1>3. CASE Evict(c)
    BY <1>3, CountsOK DEF Evict, EvictEff, SameTopic, SameDead, SameMarks, stream, dead
  <1>4. CASE Stop(c)
    BY <1>4, CountsOK DEF Stop, EvictEff, SameTopic, SameDead, SameMarks, stream, dead
  <1>5. CASE Stopped(c) \/ Die(c)
    <2>1. Gone(c) /\ Counts
      BY <1>5, CountsOK DEF Stopped, Die, Gone, dead
    <2>2. Others(c) /\ JobsOK' /\ GoesTo(c, "down", 1, FALSE)
      BY <1>w, <2>1, IdleJobs, PutMoves DEF Gone, GoesTo
    <2>3. GoneEff(c)
      BY <2>1, <2>2 DEF Gone, GoneEff, Moves, SameTopic, SameDead, stream, dead
    <2> QED BY <2>3 DEF ConsumerEff
  <1>6. CASE Start(c)
    <2>1. Others(c) /\ JobsOK' /\ GoesTo(c, "idle", 1, FALSE)
      BY <1>w, <1>6, IdleJobs, PutMoves DEF Start, GoesTo
    <2> QED BY <1>6, <2>1, CountsOK
        DEF Start, StartEff, Quiet, Moves, SameTopic, SameGroup, SameDead, SameMarks,
            stream, group, dead, ConsumerEff
  <1> QED BY <1>1, <1>2, <1>3, <1>4, <1>5, <1>6

\* The job of a tool that begins a command.
LEMMA PendingJob ==
    ASSUME BaseOK, NEW last \in Nat
    PROVE  /\ Pending(last) \in Job /\ Pending(last).from = position
           /\ Pending(last).end = last /\ Pending(last).key = FALSE
  <1>1. position \in Nat /\ Down \in Job /\ Down.key = FALSE
    BY IdleJobs DEF BaseOK
  <1> QED BY <1>1 DEF Pending, Job

\* The steps of the tool.
LEMMA ToolDoes ==
    ASSUME OKs, NEW t \in Tool,
           Process(t) \/ Command(t) \/ SkipForeign(t) \/ CommitDone(t) \/ CommitDoneError(t) \/ Interrupt(t)
    PROVE  ToolEff(t)
  <1> USE DEF OKs
  <1>w. t \in Worker
    BY Workers
  <1>1. CASE Process(t)
    BY <1>w, <1>1, ProcessDoes DEF ToolEff
  <1>2. CASE Command(t)
    <2>a. position \in Nat /\ Len(dlq) \in Nat /\ {"claim", "commit"} \subseteq Place
      BY DEF BaseOK, Place
    <2>b. Counts
      <3>1. /\ commands < MaxCommands /\ commands' = commands + 1 /\ upsets' = upsets /\ errors' = errors
            /\ forsaken' = forsaken
        BY <1>2 DEF Command, dead
      <3> QED BY <3>1, ConsumerAssumption DEF CountersOK, Counts
    <2>1. PICK last \in position..Len(dlq) :
             \/ Put(t, [Pending(last) EXCEPT !.pc = "claim", !.pos = position, !.kind = "all"])
             \/ \E at \in position..last : dlq[at].ours
                  /\ Put(t, [Pending(last) EXCEPT !.pc = "claim", !.pos = at, !.end = at, !.kind = "one"])
             \/ Put(t, [Pending(last) EXCEPT !.pc = "commit", !.pos = last + 1, !.kind = "drop"])
      BY <1>2 DEF Command
    <2>2. last \in Nat /\ last >= position /\ last <= Len(dlq) /\ last + 1 \in Nat
      BY <2>a
    <2>p. /\ Pending(last) \in Job /\ Pending(last).from = position
          /\ Pending(last).end = last /\ Pending(last).key = FALSE
      BY <2>2, PendingJob
    <2>q. "claim" \in Place /\ "commit" \in Place
      BY DEF Place
    <2> DEFINE Begun == /\ Others(t) /\ JobsOK' /\ job'[t].key = FALSE
                        /\ job'[t].from = position /\ job'[t].end >= position /\ job'[t].end <= Len(dlq)
                        /\ \/ job'[t].kind = "all" /\ job'[t].pc = "claim" /\ job'[t].pos = position
                           \/ job'[t].kind = "one" /\ job'[t].pc = "claim" /\ job'[t].pos = job'[t].end
                           \/ job'[t].kind = "drop" /\ job'[t].pc = "commit" /\ job'[t].pos = job'[t].end + 1
    <2>3. ASSUME Put(t, [Pending(last) EXCEPT !.pc = "claim", !.pos = position, !.kind = "all"])
          PROVE  Begun
      <3> DEFINE j == [Pending(last) EXCEPT !.pc = "claim", !.pos = position, !.kind = "all"]
      <3>1. /\ j \in Job /\ j.pc = "claim" /\ j.pos = position /\ j.from = position /\ j.end = last
            /\ j.key = FALSE /\ j.kind = "all"
        BY <2>a, <2>p, <2>q DEF Job
      <3> HIDE DEF j
      <3>2. Others(t) /\ JobsOK' /\ job'[t] = j
        BY <1>w, <2>3, <3>1, PutMoves DEF j
      <3> QED BY <2>2, <3>1, <3>2
    <2>4. ASSUME NEW at \in position..last,
                 Put(t, [Pending(last) EXCEPT !.pc = "claim", !.pos = at, !.end = at, !.kind = "one"])
          PROVE  Begun
      <3>0. at \in Nat /\ at >= position /\ at <= Len(dlq)
        BY <2>a, <2>2
      <3> DEFINE j == [Pending(last) EXCEPT !.pc = "claim", !.pos = at, !.end = at, !.kind = "one"]
      <3>1. /\ j \in Job /\ j.pc = "claim" /\ j.pos = at /\ j.from = position /\ j.end = at
            /\ j.key = FALSE /\ j.kind = "one"
        BY <2>p, <2>q, <3>0 DEF Job
      <3> HIDE DEF j
      <3>2. Others(t) /\ JobsOK' /\ job'[t] = j
        BY <1>w, <2>4, <3>1, PutMoves DEF j
      <3> QED BY <3>0, <3>1, <3>2
    <2>5. ASSUME Put(t, [Pending(last) EXCEPT !.pc = "commit", !.pos = last + 1, !.kind = "drop"])
          PROVE  Begun
      <3> DEFINE n == last + 1
                 j == [Pending(last) EXCEPT !.pc = "commit", !.pos = n, !.kind = "drop"]
      <3>1. /\ j \in Job /\ j.pc = "commit" /\ j.pos = n /\ j.from = position /\ j.end = last
            /\ j.key = FALSE /\ j.kind = "drop"
        <4>1. n \in Nat
          BY <2>2
        <4> HIDE DEF n
        <4> QED BY <2>p, <2>q, <4>1 DEF Job
      <3> HIDE DEF j
      <3>2. Others(t) /\ JobsOK' /\ job'[t] = j
        BY <1>w, <2>5, <3>1, PutMoves DEF j
      <3> QED BY <2>2, <3>1, <3>2
    <2>6. Begun
      BY <2>1, <2>3, <2>4, <2>5
    <2> HIDE DEF Begun
    <2>7. Quiet(t)
      BY <1>2, <2>b, <2>6
      DEF Command, Quiet, Moves, SameTopic, SameGroup, SameDead, SameMarks, stream, group,
          dead, Begun
    <2>8. CommandEff(t)
      BY <1>2, <2>6, <2>7 DEF Command, CommandEff, Begun
    <2> QED BY <2>8 DEF ToolEff
  <1>3. CASE SkipForeign(t)
    <2>1. Others(t) /\ JobsOK' /\ Advances(t)
      BY <1>w, <1>3, AdvancedJob DEF SkipForeign
    <2>2. SkipEff(t)
      BY <1>3, <2>1, CountsOK
      DEF SkipForeign, SkipEff, Quiet, Moves, SameTopic, SameGroup, SameDead, SameMarks,
          stream, group, dead
    <2> QED BY <2>2 DEF ToolEff, ProcessEff
  <1>4. CASE CommitDone(t)
    <2>1. Others(t) /\ JobsOK' /\ GoesTo(t, "down", 1, FALSE)
      BY <1>w, <1>4, IdleJobs, PutMoves DEF CommitDone, GoesTo
    <2>2. CommitDoneEff(t)
      BY <1>4, <2>1, CountsOK
      DEF CommitDone, CommitDoneEff, Moves, SameTopic, SameGroup, SameMarks, stream, group
    <2> QED BY <2>2 DEF ToolEff
  <1>5. CASE CommitDoneError(t) \/ Interrupt(t)
    <2>1. Others(t) /\ JobsOK' /\ GoesTo(t, "down", 1, FALSE)
      BY <1>w, <1>5, IdleJobs, PutMoves DEF CommitDoneError, Interrupt, GoesTo
    <2>2. DownEff(t)
      BY <1>5, <2>1, CountsOK
      DEF CommitDoneError, Interrupt, DownEff, Quiet, Moves, SameTopic, SameGroup, SameDead,
          SameMarks,
          stream, group, dead
    <2> QED BY <2>2 DEF ToolEff
  <1> QED BY <1>1, <1>2, <1>3, <1>4, <1>5

\* Every step has one of the effects.
LEMMA NextDoes ==
    ASSUME OKs, [Next]_vars
    PROVE  Effect
  <1> USE DEF OKs
  <1>1. CASE Publishing
    <2>1. Counts
      BY <1>1, CountsOK DEF Publishing, dead
    <2> QED BY <1>1, <2>1
        DEF Publishing, Deliver, AppendEff, SameGroup, SameMarks, group, dead, Effect
  <1>2. CASE \E c \in Consumer :
         \/ Consume(c) \/ Assign(c) \/ Rebalance(c) \/ Evict(c)
         \/ Stop(c) \/ Stopped(c) \/ Die(c) \/ Start(c)
    BY <1>2, ConsumeDoes, GroupDoes DEF Effect
  <1>3. CASE \E t \in Tool :
         \/ Process(t) \/ Command(t) \/ SkipForeign(t)
         \/ CommitDone(t) \/ CommitDoneError(t) \/ Interrupt(t)
    BY <1>3, ToolDoes DEF Effect
  <1>4. CASE ParkForeign
    <2>1. Counts
      BY <1>4, CountsOK DEF ParkForeign
    <2>2. log[1] \in Event
      BY <1>4 DEF ParkForeign, BaseOK
    <2>3. dlq' = Append(dlq, [event |-> log[1], ours |-> FALSE])
      BY <1>4 DEF ParkForeign
    <2>4. job' = job /\ SameGroup /\ SameMarks /\ position' = position /\ dropped' = dropped
          /\ queued' = queued /\ log' = log
      BY <1>4 DEF ParkForeign, SameGroup, SameMarks, group, stream
    <2>5. AppendEff
      BY <2>1, <2>2, <2>3, <2>4 DEF AppendEff
    <2> QED BY <2>5 DEF Effect
  <1>5. CASE CaughtUp \/ UNCHANGED vars
    <2>1. UNCHANGED vars
      BY <1>5 DEF CaughtUp
    <2>2. Counts
      BY <2>1, CountsOK DEF vars, dead
    <2> QED BY <2>1, <2>2
        DEF vars, stream, group, dead, IdleEff, SameTopic, SameGroup, SameDead, SameMarks,
            Effect
  <1>6. ASSUME NEW e \in Event, Expire(e) PROVE Effect
    <2>1. Counts
      BY <1>6, CountsOK DEF Expire, dead
    <2>2. ExpireEff(e)
      BY <1>6, <2>1 DEF Expire, ExpireEff, SameTopic, SameGroup, SameDead, stream, group, dead
    <2> QED BY <2>2 DEF Effect
  <1> QED BY <1>1, <1>2, <1>3, <1>4, <1>5, <1>6 DEF Next

-----------------------------------------------------------------------------
(* Types and places. *)

\* The topic and the dlq only grow.
RecordsStay ==
    /\ log' \in Seq(Event) /\ Len(log) <= Len(log') /\ \A i \in 1..Len(log) : log'[i] = log[i]
    /\ dlq' \in Seq(DeadLetter) /\ Len(dlq) <= Len(dlq') /\ \A i \in 1..Len(dlq) : dlq'[i] = dlq[i]

\* A step that appends nothing keeps the records.
LEMMA SameRecords ==
    ASSUME BaseOK, log' = log, dlq' = dlq
    PROVE  RecordsStay
  BY DEF BaseOK, RecordsStay

\* A record parked is the last of the dlq; the others stay.
LEMMA DlqGrows ==
    ASSUME BaseOK, log' = log, NEW e \in Event, NEW b \in BOOLEAN,
           dlq' = Append(dlq, [event |-> e, ours |-> b])
    PROVE  /\ RecordsStay /\ Len(dlq') = Len(dlq) + 1
           /\ dlq'[Len(dlq) + 1] = [event |-> e, ours |-> b]
  <1>1. dlq \in Seq(DeadLetter) /\ [event |-> e, ours |-> b] \in DeadLetter
    BY DEF BaseOK, DeadLetter
  <1>2. dlq' \in Seq(DeadLetter) /\ Len(dlq') = Len(dlq) + 1
        /\ \A i \in 1..Len(dlq) : dlq'[i] = dlq[i]
    BY <1>1
  <1>3. dlq'[Len(dlq) + 1] = [event |-> e, ours |-> b]
    BY <1>1
  <1> QED BY <1>1, <1>2, <1>3 DEF RecordsStay, BaseOK

\* An event delivered is the last of the topic; the others stay.
LEMMA LogGrows ==
    ASSUME BaseOK, dlq' = dlq, NEW e \in Event, log' = Append(log, e)
    PROVE  RecordsStay /\ Len(log') = Len(log) + 1
  BY DEF RecordsStay, BaseOK

\* Every effect keeps the types of the shared state.
LEMMA BaseStays ==
    ASSUME OKs, Effect
    PROVE  BaseOK' /\ RecordsStay
  <1> USE DEF OKs
  <1>0. Len(log) \in Nat /\ Len(dlq) \in Nat
    BY DEF BaseOK
  <1>1. ASSUME NEW w \in Worker, ProcessEff(w) PROVE BaseOK' /\ RecordsStay
    <2>1. SameTopic /\ SameGroup /\ SameDead
      BY <1>1 DEF ProcessEff, GivesUpEff, SkipEff, ClaimEff, ClaimErrorEff, SucceedsEff,
                  FailsEff, ForgetEff, Quiet
    <2>2. keys' \subseteq Event \ Garbled /\ lost' \subseteq Event
      <3>1. CASE ClaimEff(w) \/ ClaimErrorEff(w)
        <4>1. InHand(w) \in Event
          BY <3>1, HandIsEvent DEF ClaimEff, ClaimErrorEff, Active
        <4> QED BY <3>1, <4>1 DEF ClaimEff, ClaimErrorEff, BaseOK
      <3> QED BY <1>1, <3>1
          DEF ProcessEff, GivesUpEff, SkipEff, SucceedsEff, FailsEff, ForgetEff, Quiet,
              SameMarks, BaseOK
    <2>3. handled' \in [Event -> Nat]
      <3>1. CASE SucceedsEff(w)
        <4>1. InHand(w) \in Event
          BY <3>1, HandIsEvent DEF SucceedsEff, Active
        <4> QED BY <3>1, <4>1 DEF SucceedsEff, BaseOK
      <3> QED BY <1>1, <3>1
          DEF ProcessEff, GivesUpEff, SkipEff, ClaimEff, ClaimErrorEff, FailsEff, ForgetEff,
              Quiet,
              SameMarks, BaseOK
    <2>s. slips' \in [Event -> Nat]
      <3>1. CASE ClaimErrorEff(w)
        <4>1. InHand(w) \in Event
          BY <3>1, HandIsEvent DEF ClaimErrorEff, Active
        <4> QED BY <3>1, <4>1 DEF ClaimErrorEff, BaseOK
      <3> QED BY <1>1, <3>1
          DEF ProcessEff, GivesUpEff, SkipEff, ClaimEff, SucceedsEff, FailsEff, ForgetEff,
              Quiet,
              SameMarks, BaseOK
    <2>4. RecordsStay
      BY <2>1, SameRecords DEF SameTopic, SameDead
    <2> QED BY <2>1, <2>2, <2>3, <2>s, <2>4 DEF BaseOK, SameTopic, SameGroup, SameDead
  <1>2. ASSUME NEW c \in Consumer, ConsumerEff(c) PROVE BaseOK' /\ RecordsStay
    <2>w. c \in Worker
      BY Workers
    <2>0. job[c].pos \in Nat /\ job[c].pos >= 1 /\ job[c].pos <= Len(log) + 1
      BY <2>w, JobFields DEF PlacesOK, ConsumerOK
    <2>1. CASE ProcessEff(c)
      BY <1>1, <2>1, <2>w
    <2>2. CASE PollEff(c) \/ StartEff(c)
      BY <2>2, SameRecords
      DEF PollEff, StartEff, Quiet, SameTopic, SameGroup, SameDead, SameMarks, BaseOK
    <2>3. CASE ParkEff(c)
      <3>1. InHand(c) \in Event
        BY <2>3, <2>w, HandIsEvent DEF ParkEff, Active
      <3>2. RecordsStay /\ Len(dlq') = Len(dlq) + 1
        BY <2>3, <3>1, DlqGrows DEF ParkEff, SameTopic
      <3> QED BY <2>3, <3>2, <1>0 DEF ParkEff, SameTopic, SameGroup, SameMarks, BaseOK,
                                      RecordsStay
    <2>4. CASE LoseEff(c)
      <3>1. InHand(c) \in Event
        BY <2>4, <2>w, HandIsEvent DEF LoseEff, Active
      <3>2. lost' \subseteq Event
        BY <2>4, <3>1 DEF LoseEff, BaseOK
      <3> QED BY <2>4, <3>2, SameRecords DEF LoseEff, SameTopic, SameGroup, SameDead, BaseOK
    <2>5. CASE CommitEff(c)
      <3>1. committed' \in 1..Len(log) + 1
        BY <2>5, <2>0, <1>0 DEF CommitEff, BaseOK
      <3> QED BY <2>5, <3>1, SameRecords DEF CommitEff, SameTopic, SameDead, SameMarks, BaseOK
    <2>6. CASE AssignEff(c)
      BY <2>6, SameRecords DEF AssignEff, SameTopic, SameDead, SameMarks, BaseOK
    <2>7. CASE RebalanceEff(c)
      BY <2>7, SameRecords DEF RebalanceEff, SameTopic, SameDead, SameMarks, BaseOK
    <2>8. CASE GoneEff(c)
      <3>1. lost' \subseteq Event
        <4>1. CASE job[c].pc = "failed"
          BY <2>8, <2>w, <4>1, HandIsEvent DEF GoneEff, BaseOK, Active
        <4> QED BY <2>8, <4>1 DEF GoneEff, BaseOK
      <3> QED BY <2>8, <3>1, SameRecords DEF GoneEff, SameTopic, SameDead, BaseOK
    <2> QED BY <1>2, <2>1, <2>2, <2>3, <2>4, <2>5, <2>6, <2>7, <2>8 DEF ConsumerEff
  <1>3. ASSUME NEW t \in Tool, ToolEff(t) PROVE BaseOK' /\ RecordsStay
    <2>w. t \in Worker
      BY Workers
    <2>1. CASE ProcessEff(t)
      BY <1>1, <2>1, <2>w
    <2>2. CASE CommandEff(t) \/ DownEff(t)
      BY <2>2, SameRecords
      DEF CommandEff, DownEff, Quiet, SameTopic, SameGroup, SameDead, SameMarks, BaseOK
    <2>3. CASE CommitDoneEff(t)
      <3>1. /\ job[t].pos \in Nat /\ job[t].from \in Nat /\ job[t].end \in Nat
            /\ job[t].from >= 1 /\ job[t].from <= job[t].pos
            /\ job[t].pos <= job[t].end + 1 /\ job[t].end <= Len(dlq)
        BY <2>w, <2>3, JobFields DEF CommitDoneEff, PlacesOK, ToolOK
      <3>2. position' \in 1..Len(dlq) + 1
        BY <2>3, <3>1, <1>0 DEF CommitDoneEff, BaseOK
      <3>3. dropped' \subseteq 1..Len(dlq)
        <4>1. job[t].from..job[t].end \subseteq 1..Len(dlq) /\ dropped \subseteq 1..Len(dlq)
          BY <3>1, <1>0 DEF BaseOK
        <4>2. dropped' = dropped \/ dropped' = dropped \cup (job[t].from..job[t].end)
          BY <2>3 DEF CommitDoneEff
        <4> QED BY <4>1, <4>2
      <3> QED BY <2>3, <3>2, <3>3, SameRecords
          DEF CommitDoneEff, SameTopic, SameGroup, SameMarks, BaseOK
    <2> QED BY <1>3, <2>1, <2>2, <2>3 DEF ToolEff
  <1>4. CASE EvictEff
    BY <1>4, SameRecords DEF EvictEff, SameTopic, SameDead, SameMarks, BaseOK
  <1>5. CASE AppendEff
    <2>1. CASE dlq' = dlq /\ Len(log) < MaxLog /\ \E e \in Event : log' = Append(log, e)
      <3>1. RecordsStay /\ Len(log') = Len(log) + 1
        BY <2>1, LogGrows
      <3> QED BY <1>5, <2>1, <3>1, <1>0, ConsumerAssumption
          DEF AppendEff, SameGroup, SameMarks, BaseOK, RecordsStay
    <2>2. CASE log' = log /\ \E e \in Event : dlq' = Append(dlq, [event |-> e, ours |-> FALSE])
      <3>1. RecordsStay /\ Len(dlq') = Len(dlq) + 1
        BY <2>2, DlqGrows
      <3> QED BY <1>5, <2>2, <3>1, <1>0 DEF AppendEff, SameGroup, SameMarks, BaseOK, RecordsStay
    <2> QED BY <1>5, <2>1, <2>2 DEF AppendEff
  <1>6. CASE IdleEff
    BY <1>6, SameRecords DEF IdleEff, SameTopic, SameGroup, SameDead, SameMarks, BaseOK
  <1>7. ASSUME NEW e \in Event, ExpireEff(e) PROVE BaseOK' /\ RecordsStay
    BY <1>7, SameRecords DEF ExpireEff, SameTopic, SameGroup, SameDead, BaseOK
  <1> QED BY <1>2, <1>3, <1>4, <1>5, <1>6, <1>7 DEF Effect

\* A record in hand stays the same record.
LEMMA HandStays ==
    ASSUME BaseOK, JobsOK, PlacesOK, RecordsStay, NEW v \in Worker,
           job[v].pc \in Active, job'[v].pos = job[v].pos
    PROVE  InHand(v)' = InHand(v) /\ (v \in Tool => dlq'[job'[v].pos] = dlq[job[v].pos])
  <1>1. CASE v \in Consumer
    BY <1>1, HandIsEvent, Workers DEF RecordsStay, InHand
  <1>2. CASE v \in Tool
    <2>1. v \notin Consumer /\ dlq'[job'[v].pos] = dlq[job[v].pos]
      BY <1>2, HandIsEvent, Workers DEF RecordsStay
    <2> QED BY <1>2, <2>1 DEF InHand
  <1> QED BY <1>1, <1>2, Workers

\* A step of w (Nobody: of no worker) that leaves the others where they are.
Mild(w) == owner' \in {owner, Nobody, w} /\ (committed' = committed \/ owner' = w)

\* A step of one worker leaves every other where it was, and its place valid.
LEMMA OthersOK ==
    ASSUME OKs, RecordsStay, NEW w \in Worker \cup {Nobody}, Others(w), Mild(w)
    PROVE  /\ \A c \in Consumer : c # w => ConsumerOK(c)'
           /\ \A t \in Tool : t # w => ToolOK(t)'
           /\ \A v \in Worker : v # w => HandOK(v)'
  <1> USE DEF OKs
  <1>0. Len(log) \in Nat /\ Len(log') \in Nat /\ Len(log) <= Len(log')
        /\ Len(dlq) \in Nat /\ Len(dlq') \in Nat /\ Len(dlq) <= Len(dlq')
    <2>1. log \in Seq(Event) /\ dlq \in Seq(DeadLetter)
      BY DEF BaseOK
    <2>2. Len(log) \in Nat /\ Len(dlq) \in Nat
      BY <2>1
    <2>3. Len(log') \in Nat /\ Len(dlq') \in Nat
      BY DEF RecordsStay
    <2> QED BY <2>2, <2>3 DEF RecordsStay
  <1>1. ASSUME NEW c \in Consumer, c # w PROVE ConsumerOK(c)'
    <2>1. c \in Worker /\ job'[c] = job[c] /\ c # Nobody
      BY <1>1, Workers DEF Others
    <2>2. owner' = c => owner = c /\ committed' = committed
      BY <1>1, <2>1 DEF Mild
    <2>3. ConsumerOK(c) /\ job[c].pos \in Nat /\ job[c].end \in Nat
      BY <2>1, JobFields DEF PlacesOK
    <2> QED BY <1>0, <2>1, <2>2, <2>3 DEF ConsumerOK
  <1>2. ASSUME NEW t \in Tool, t # w PROVE ToolOK(t)'
    <2>1. t \in Worker /\ job'[t] = job[t]
      BY <1>2, Workers DEF Others
    <2>2. ToolOK(t) /\ job[t].end \in Nat
      BY <2>1, JobFields DEF PlacesOK
    <2> QED BY <1>0, <2>1, <2>2 DEF ToolOK
  <1>3. ASSUME NEW v \in Worker, v # w PROVE HandOK(v)'
    <2>1. job'[v] = job[v] /\ HandOK(v)
      BY <1>3 DEF Others, HandsOK
    <2>2. job[v].pc \in {"handle", "forget"} =>
            InHand(v)' = InHand(v) /\ (v \in Tool => dlq'[job'[v].pos] = dlq[job[v].pos])
      BY <2>1, HandStays DEF Active
    <2> QED BY <2>1, <2>2 DEF HandOK
  <1> QED BY <1>1, <1>2, <1>3

\* A worker that has no record before the handler has nothing to answer for.
LEMMA RestsOK ==
    ASSUME NEW w \in Worker, job'[w].key = FALSE, job'[w].pc \notin {"handle", "forget"}
    PROVE  HandOK(w)'
  BY DEF HandOK

\* Every effect keeps places and hands.
LEMMA PlacesStay ==
    ASSUME OKs, Effect, BaseOK', RecordsStay
    PROVE  JobsOK' /\ CountersOK' /\ PlacesOK' /\ HandsOK'
  <1> USE DEF OKs
  <1>0. Len(log) \in Nat /\ Len(log') \in Nat /\ Len(log) <= Len(log')
        /\ Len(dlq) \in Nat /\ Len(dlq') \in Nat /\ Len(dlq) <= Len(dlq')
        /\ committed \in Nat /\ committed >= 1 /\ position \in Nat /\ position >= 1
    BY DEF BaseOK, RecordsStay
  <1> DEFINE Own(w) == /\ w \in Consumer => ConsumerOK(w)'
                       /\ w \in Tool => ToolOK(w)'
                       /\ HandOK(w)'
  <1>g. ASSUME NEW w \in Worker \cup {Nobody}, Others(w), Mild(w), w \in Worker => Own(w)
        PROVE  PlacesOK' /\ HandsOK'
    <2>1. /\ \A c \in Consumer : ConsumerOK(c)'
          /\ \A t \in Tool : ToolOK(t)'
          /\ \A v \in Worker : HandOK(v)'
      BY <1>g, OthersOK, Workers
    <2> QED BY <2>1 DEF PlacesOK, HandsOK
  <1>1. ASSUME NEW w \in Worker, ProcessEff(w)
        PROVE  Others(w) /\ JobsOK' /\ Counts /\ Mild(w) /\ Own(w)
    <2>1. Moves(w) /\ SameTopic /\ SameGroup /\ SameDead
      BY <1>1 DEF ProcessEff, GivesUpEff, SkipEff, ClaimEff, ClaimErrorEff, SucceedsEff,
                  FailsEff, ForgetEff, Quiet
    <2>2. Others(w) /\ JobsOK' /\ Counts /\ Mild(w)
      BY <2>1 DEF Moves, Mild, SameGroup
    <2>3. job[w].pc \in {"claim", "handle", "forget"}
      BY <1>1 DEF ProcessEff, GivesUpEff, SkipEff, ClaimEff, ClaimErrorEff, SucceedsEff,
                  FailsEff, ForgetEff
    <2>4. Kept(w) /\ \/ Advances(w)
                     \/ /\ job'[w].pos = job[w].pos
                        /\ job'[w].pc \in {"handle", "forget", "commit"} \/ (job'[w].pc = "failed" /\ w \in Consumer)
      BY <1>1 DEF ProcessEff, GivesUpEff, SkipEff, ClaimEff, ClaimErrorEff, SucceedsEff,
                  FailsEff, ForgetEff,
                  Advances, GoesTo, GivenUp
    <2>f. /\ job[w].pos \in Nat /\ job[w].end \in Nat /\ job[w].from \in Nat
          /\ job[w].key \in BOOLEAN
      BY JobFields
    <2>5. w \in Consumer => ConsumerOK(w)'
      <3>1. SUFFICES ASSUME w \in Consumer PROVE ConsumerOK(w)'
        OBVIOUS
      <3>2. ConsumerOK(w)
        BY <3>1 DEF PlacesOK
      <3>3. job'[w].pos \in {job[w].pos, job[w].pos + 1}
            /\ (job'[w].pos = job[w].pos + 1 => Advances(w)) /\ job'[w].end = job[w].end
            /\ job'[w].pc # "down"
        BY <2>4, <2>f DEF Advances, GoesTo, Kept
      <3> QED BY <1>0, <2>1, <2>3, <2>4, <2>f, <3>2, <3>3
          DEF ConsumerOK, Active, SameTopic, SameGroup, Advances, GoesTo, Kept
    <2>6. w \in Tool => ToolOK(w)'
      <3>1. SUFFICES ASSUME w \in Tool PROVE ToolOK(w)'
        OBVIOUS
      <3>2. ToolOK(w) /\ w \notin Consumer
        BY <3>1, Workers DEF PlacesOK
      <3>3. job[w].pos <= job[w].end /\ job[w].from >= 1 /\ job[w].from <= job[w].pos /\ job[w].end <= Len(dlq)
            /\ job[w].kind # "drop"
        BY <2>3, <2>f, <3>2, <1>0 DEF ToolOK, Active
      <3>4. job'[w].from = job[w].from /\ job'[w].end = job[w].end /\ job'[w].kind = job[w].kind
        BY <2>4 DEF Kept
      <3>5. CASE Advances(w)
        <4>1. job'[w].pos = job[w].pos + 1 /\ job'[w].pc \in {"commit", "claim"}
              /\ (job'[w].pc = "claim" => job[w].pos # job[w].end)
          BY <3>5 DEF Advances, GoesTo
        <4>2. dlq' = dlq /\ job'[w].kind # "drop"
          BY <2>1, <3>3, <3>4 DEF SameDead
        <4>3. /\ job'[w].from >= 1 /\ job'[w].from <= job'[w].pos
              /\ job'[w].pos <= job'[w].end + 1 /\ job'[w].end <= Len(dlq')
          BY <2>f, <3>3, <3>4, <4>1, <4>2
        <4>4. job'[w].pc \in Active => job'[w].pos <= job'[w].end
          BY <2>f, <3>3, <3>4, <4>1 DEF Active
        <4> QED BY <4>1, <4>2, <4>3, <4>4 DEF ToolOK
      <3>6. CASE job'[w].pos = job[w].pos /\ job'[w].pc \in {"handle", "forget", "commit"}
        BY <1>0, <2>1, <2>f, <3>3, <3>4, <3>6 DEF ToolOK, Active, SameDead
      <3> QED BY <2>4, <3>2, <3>5, <3>6
    <2>7. HandOK(w)'
      <3>1. CASE job'[w].key = FALSE /\ job'[w].pc \notin {"handle", "forget"}
        BY <3>1, RestsOK
      <3>2. CASE ClaimEff(w) \/ ClaimErrorEff(w) \/ FailsEff(w)
        <4>1. job'[w].pos = job[w].pos /\ job'[w].pc \in {"handle", "forget"}
          BY <3>2 DEF ClaimEff, ClaimErrorEff, FailsEff, GoesTo
        <4>2. InHand(w)' = InHand(w) /\ (w \in Tool => dlq'[job'[w].pos] = dlq[job[w].pos])
          BY <2>3, <4>1, HandStays DEF Active
        <4>3. InHand(w) \notin Garbled /\ (w \in Tool => dlq[job[w].pos].ours)
          BY <3>2 DEF ClaimEff, ClaimErrorEff, FailsEff, HandsOK, HandOK
        <4> QED BY <4>1, <4>2, <4>3 DEF HandOK
      <3>3. CASE GivesUpEff(w) \/ SkipEff(w) \/ SucceedsEff(w) \/ ForgetEff(w)
        BY <3>1, <3>3 DEF GivesUpEff, SkipEff, SucceedsEff, ForgetEff, Advances, GoesTo, GivenUp
      <3> QED BY <1>1, <3>2, <3>3 DEF ProcessEff
    <2> QED BY <2>2, <2>5, <2>6, <2>7
  <1>2. ASSUME NEW c \in Consumer, ConsumerEff(c)
        PROVE  JobsOK' /\ CountersOK' /\ PlacesOK' /\ HandsOK'
    <2>w. c \in Worker /\ c \notin Tool /\ c # Nobody
      BY Workers
    <2>0. ConsumerOK(c) /\ job[c].pos \in Nat /\ job[c].end \in Nat
      BY <2>w, JobFields DEF PlacesOK
    <2>1. CASE ProcessEff(c)
      BY <1>1, <1>g, <2>1, <2>w DEF Counts
    <2>2. Others(c) /\ JobsOK' /\ Counts
      BY <1>2, <2>1, <1>1, <2>w
      DEF ConsumerEff, PollEff, ParkEff, LoseEff, CommitEff, AssignEff, RebalanceEff, GoneEff,
          StartEff,
          Quiet, Moves
    <2>3. CASE PollEff(c)
      <3>1. Mild(c) /\ ConsumerOK(c)' /\ HandOK(c)'
        BY <2>3, <2>0, <2>w, <1>0, RestsOK
        DEF PollEff, Quiet, GoesTo, Mild, SameGroup, SameTopic, ConsumerOK, Active
      <3> QED BY <2>2, <2>w, <3>1, <1>g DEF Counts
    <2>4. CASE ParkEff(c) \/ LoseEff(c)
      <3>1. SameGroup /\ SameTopic /\ Advances(c) /\ job[c].pc = "failed"
        BY <2>4 DEF ParkEff, LoseEff
      <3>2. job'[c].pos = job[c].pos + 1 /\ job'[c].end = job[c].end /\ job'[c].key = FALSE
            /\ job'[c].pc = IF job[c].pos = job[c].end THEN "commit" ELSE "claim"
        BY <3>1 DEF Advances, GoesTo, Kept
      <3>3. ConsumerOK(c)'
        BY <2>0, <1>0, <3>1, <3>2 DEF SameGroup, SameTopic, ConsumerOK, Active
      <3>4. Mild(c) /\ HandOK(c)'
        BY <2>w, <3>1, <3>2, RestsOK DEF Mild, SameGroup
      <3> QED BY <2>2, <2>w, <3>3, <3>4, <1>g DEF Counts
    <2>5. CASE CommitEff(c)
      <3>1. job'[c].pc = "idle" /\ job'[c].key = FALSE
            /\ job'[c].pos = IF owner = c THEN job[c].pos ELSE 1
        BY <2>5 DEF CommitEff, GoesTo
      <3>2. ConsumerOK(c)'
        BY <2>5, <2>0, <1>0, <3>1 DEF CommitEff, SameTopic, ConsumerOK, Active
      <3>3. Mild(c) /\ HandOK(c)'
        BY <2>5, <2>w, <3>1, RestsOK DEF CommitEff, Mild
      <3> QED BY <2>2, <2>w, <3>2, <3>3, <1>g DEF Counts
    <2>6. CASE AssignEff(c) \/ RebalanceEff(c)
      <3>1. job'[c].pc = "idle" /\ job'[c].key = FALSE /\ job'[c].pos \in {1, committed}
            /\ (owner' = c => job'[c].pos = committed) /\ committed' = committed
        BY <2>6, <2>w DEF AssignEff, RebalanceEff, GoesTo
      <3>2. ConsumerOK(c)'
        BY <1>0, <3>1 DEF ConsumerOK, Active, BaseOK
      <3>3. Mild(c) /\ HandOK(c)'
        BY <2>6, <2>w, <3>1, RestsOK DEF AssignEff, RebalanceEff, Mild
      <3> QED BY <2>2, <2>w, <3>2, <3>3, <1>g DEF Counts
    <2>7. CASE GoneEff(c) \/ StartEff(c)
      <3>1. job'[c].pc \in {"idle", "down"} /\ job'[c].key = FALSE /\ job'[c].pos = 1 /\ owner' # c
            /\ committed' = committed
        BY <2>7, <2>w, <2>0 DEF GoneEff, StartEff, Quiet, SameGroup, GoesTo, ConsumerOK
      <3>2. ConsumerOK(c)'
        BY <1>0, <3>1 DEF ConsumerOK, Active
      <3>3. Mild(c) /\ HandOK(c)'
        BY <2>7, <2>w, <3>1, RestsOK DEF GoneEff, StartEff, Quiet, SameGroup, Mild
      <3> QED BY <2>2, <2>w, <3>2, <3>3, <1>g DEF Counts
    <2> QED BY <1>2, <2>1, <2>3, <2>4, <2>5, <2>6, <2>7 DEF ConsumerEff
  <1>3. ASSUME NEW t \in Tool, ToolEff(t)
        PROVE  JobsOK' /\ CountersOK' /\ PlacesOK' /\ HandsOK'
    <2>w. t \in Worker /\ t \notin Consumer /\ t # Nobody
      BY Workers
    <2>1. CASE ProcessEff(t)
      BY <1>1, <1>g, <2>1, <2>w DEF Counts
    <2>2. Others(t) /\ JobsOK' /\ Counts
      BY <1>3, <2>1, <1>1, <2>w DEF ToolEff, CommandEff, CommitDoneEff, DownEff, Quiet, Moves
    <2>3. Mild(t) \/ ProcessEff(t)
      BY <1>3 DEF ToolEff, CommandEff, CommitDoneEff, DownEff, Quiet, SameGroup, Mild
    <2>4. CASE CommandEff(t)
      <3>1. ToolOK(t)'
        <4>1. /\ job'[t].end \in Nat /\ job'[t].from = position
              /\ job'[t].end >= position /\ job'[t].end <= Len(dlq') /\ dlq' = dlq
          BY <2>2, <2>4, <2>w DEF CommandEff, Quiet, SameDead, JobsOK, Job
        <4>2. \/ job'[t].kind = "all" /\ job'[t].pc = "claim" /\ job'[t].pos = position
              \/ job'[t].kind = "one" /\ job'[t].pc = "claim" /\ job'[t].pos = job'[t].end
              \/ job'[t].kind = "drop" /\ job'[t].pc = "commit" /\ job'[t].pos = job'[t].end + 1
          BY <2>4 DEF CommandEff
        <4> QED BY <1>0, <4>1, <4>2 DEF ToolOK, Active
      <3>2. HandOK(t)'
        BY <2>4, <2>w, RestsOK DEF CommandEff
      <3>3. Mild(t)
        BY <2>4 DEF CommandEff, Quiet, SameGroup, Mild
      <3> QED BY <2>2, <2>w, <3>1, <3>2, <3>3, <1>g DEF Counts
    <2>5. CASE CommitDoneEff(t) \/ DownEff(t)
      <3>1. job'[t].pc = "down" /\ job'[t].key = FALSE
        BY <2>5 DEF CommitDoneEff, DownEff, GoesTo
      <3>2. ToolOK(t)' /\ HandOK(t)'
        BY <2>w, <3>1, RestsOK DEF ToolOK, Active
      <3>3. Mild(t)
        BY <2>5 DEF CommitDoneEff, DownEff, Quiet, SameGroup, Mild
      <3> QED BY <2>2, <2>w, <3>2, <3>3, <1>g DEF Counts
    <2> QED BY <1>3, <2>1, <2>4, <2>5 DEF ToolEff
  <1>4. CASE EvictEff \/ AppendEff \/ IdleEff \/ \E e \in Event : ExpireEff(e)
    <2>1. job' = job /\ Counts /\ committed' = committed /\ owner' \in {owner, Nobody}
      BY <1>4 DEF EvictEff, AppendEff, IdleEff, ExpireEff, SameGroup
    <2>2. Others(Nobody) /\ Mild(Nobody) /\ JobsOK'
      BY <2>1 DEF Others, Mild, JobsOK
    <2> QED BY <2>1, <2>2, <1>g, Workers DEF Counts
  <1> QED BY <1>2, <1>3, <1>4 DEF Effect

-----------------------------------------------------------------------------
(* The dedupe key. *)

\* The other workers do for every event what they did.
Stays(w) ==
    \A v \in Worker, e \in Event :
        v # w => /\ Keyed(v, e)' <=> Keyed(v, e)
                 /\ Running(v, e)' <=> Running(v, e)
                 /\ Failing(v, e)' <=> Failing(v, e)

\* A step of one worker changes nothing of what another does for an event.
LEMMA OthersStay ==
    ASSUME OKs, RecordsStay, NEW w \in Worker \cup {Nobody}, Others(w)
    PROVE  Stays(w)
  <1> USE DEF OKs
  <1> SUFFICES ASSUME NEW v \in Worker, NEW e \in Event, v # w
               PROVE  /\ Keyed(v, e)' <=> Keyed(v, e)
                      /\ Running(v, e)' <=> Running(v, e)
                      /\ Failing(v, e)' <=> Failing(v, e)
    BY DEF Stays
  <1>1. job'[v] = job[v] /\ HandOK(v)
    BY DEF Others, HandsOK
  <1>2. CASE job[v].pc \in Active
    <2>1. InHand(v)' = InHand(v)
      BY <1>1, <1>2, HandStays
    <2> QED BY <1>1, <2>1 DEF Keyed, Running, Failing
  <1>3. CASE job[v].pc \notin Active
    BY <1>1, <1>3 DEF Keyed, Running, Failing, HandOK, Active
  <1> QED BY <1>2, <1>3

\* A worker that is neither at the handler nor just past it runs nothing.
LEMMA NotRunning ==
    ASSUME NEW w, NEW e
    PROVE  /\ job[w].pc \notin {"handle", "forget"} => ~Running(w, e)
           /\ job'[w].pc \notin {"handle", "forget"} => ~Running(w, e)'
  BY DEF Running

\* Counting workers.
LEMMA SomeWorkers ==
    ASSUME NEW S, \A w \in S : w \in Worker
    PROVE  IsFiniteSet(S) /\ Cardinality(S) \in Nat
  <1>1. S \in SUBSET Worker
    OBVIOUS
  <1>2. IsFiniteSet(S)
    BY <1>1, Workers, FS_Subset
  <1> QED BY <1>2, FS_CardinalityType

\* The event's runs, handled and slips are numbers; so are they after the step.
LEMMA RunNumbers ==
    ASSUME BaseOK, BaseOK', NEW e \in Event
    PROVE  /\ handled[e] \in Nat /\ slips[e] \in Nat /\ handled'[e] \in Nat /\ slips'[e] \in Nat
           /\ IsFiniteSet(Runners(e)) /\ Cardinality(Runners(e)) \in Nat
           /\ IsFiniteSet(Runners(e)') /\ Cardinality(Runners(e)') \in Nat
  <1>1. IsFiniteSet(Runners(e)) /\ Cardinality(Runners(e)) \in Nat
    BY SomeWorkers DEF Runners
  <1>2. IsFiniteSet(Runners(e)') /\ Cardinality(Runners(e)') \in Nat
    BY SomeWorkers DEF Runners
  <1> QED BY <1>1, <1>2 DEF BaseOK

\* No run begins and no key goes.
LEMMA FewerRuns ==
    ASSUME BaseOK, BaseOK', NEW e \in Event, RunsOK(e),
           handled'[e] = handled[e], slips'[e] >= slips[e], e \in keys => e \in keys',
           \A v \in Worker : Running(v, e)' => Running(v, e)
    PROVE  RunsOK(e)'
  <1> DEFINE A == Runners(e)
             B == Runners(e)'
  <1>1. /\ handled[e] \in Nat /\ slips[e] \in Nat /\ slips'[e] \in Nat
        /\ IsFiniteSet(A) /\ Cardinality(A) \in Nat /\ Cardinality(B) \in Nat
    BY RunNumbers
  <1>2. B \in SUBSET A
    BY DEF Runners
  <1>3. handled[e] + Cardinality(A) <= slips[e] + (IF e \in keys THEN 1 ELSE 0)
    BY DEF RunsOK
  <1> HIDE DEF A, B
  <1>4. Cardinality(B) <= Cardinality(A)
    BY <1>1, <1>2, FS_Subset
  <1>5. handled'[e] + Cardinality(B) <= slips'[e] + (IF e \in keys' THEN 1 ELSE 0)
    BY <1>1, <1>3, <1>4
  <1> QED BY <1>5 DEF RunsOK, B

\* Worker w alone begins a run of e: the key it sets, or the failed check, pays
\* for it.
LEMMA RunBegins ==
    ASSUME BaseOK, BaseOK', NEW e \in Event, RunsOK(e), NEW w \in Worker, Stays(w),
           ~Running(w, e), handled'[e] = handled[e],
           \/ e \notin keys /\ e \in keys' /\ slips'[e] = slips[e]
           \/ (e \in keys => e \in keys') /\ slips'[e] = slips[e] + 1
    PROVE  RunsOK(e)'
  <1> DEFINE A == Runners(e)
             B == Runners(e)'
  <1>1. /\ handled[e] \in Nat /\ slips[e] \in Nat /\ slips'[e] \in Nat
        /\ IsFiniteSet(A) /\ Cardinality(A) \in Nat /\ IsFiniteSet(B) /\ Cardinality(B) \in Nat
    BY RunNumbers
  <1>2. B \subseteq A \cup {w} /\ w \notin A
    BY DEF Runners, Stays
  <1>3. handled[e] + Cardinality(A) <= slips[e] + (IF e \in keys THEN 1 ELSE 0)
    BY DEF RunsOK
  <1> HIDE DEF A, B
  <1>4. IsFiniteSet(A \cup {w}) /\ Cardinality(A \cup {w}) = Cardinality(A) + 1
    BY <1>1, <1>2, FS_AddElement
  <1>5. Cardinality(B) <= Cardinality(A) + 1
    BY <1>2, <1>4, FS_Subset
  <1>6. handled'[e] + Cardinality(B) <= slips'[e] + (IF e \in keys' THEN 1 ELSE 0)
    BY <1>1, <1>3, <1>5
  <1> QED BY <1>6 DEF RunsOK, B

\* Worker w ends its run of e: with success, or forgetting the key.
LEMMA RunEnds ==
    ASSUME BaseOK, BaseOK', NEW e \in Event, RunsOK(e), NEW w \in Worker, Stays(w),
           Running(w, e), ~Running(w, e)', slips'[e] = slips[e],
           \/ handled'[e] = handled[e] + 1 /\ keys' = keys
           \/ handled'[e] = handled[e]
    PROVE  RunsOK(e)'
  <1> DEFINE A == Runners(e)
             B == Runners(e)'
  <1>1. /\ handled[e] \in Nat /\ slips[e] \in Nat /\ handled'[e] \in Nat
        /\ IsFiniteSet(A) /\ Cardinality(A) \in Nat /\ Cardinality(B) \in Nat
    BY RunNumbers
  <1>2. B = A \ {w} /\ w \in A
    BY DEF Runners, Stays
  <1>3. handled[e] + Cardinality(A) <= slips[e] + (IF e \in keys THEN 1 ELSE 0)
    BY DEF RunsOK
  <1> HIDE DEF A, B
  <1>4. Cardinality(B) = Cardinality(A) - 1
    BY <1>1, <1>2, FS_RemoveElement
  <1>5. handled'[e] + Cardinality(B) <= slips'[e] + (IF e \in keys' THEN 1 ELSE 0)
    BY <1>1, <1>3, <1>4
  <1> QED BY <1>5 DEF RunsOK, B

\* A key that runs out is a slip.
LEMMA RunSlips ==
    ASSUME BaseOK, BaseOK', NEW e \in Event, RunsOK(e), Runners(e)' = Runners(e),
           handled'[e] = handled[e], slips'[e] = slips[e] + 1
    PROVE  RunsOK(e)'
  <1> DEFINE n == Cardinality(Runners(e))
  <1>1. handled[e] \in Nat /\ slips[e] \in Nat /\ n \in Nat /\ Cardinality(Runners(e)') = n
    BY RunNumbers
  <1>2. handled[e] + n <= slips[e] + (IF e \in keys THEN 1 ELSE 0)
    BY DEF RunsOK
  <1> HIDE DEF n
  <1>3. handled'[e] + Cardinality(Runners(e)') <= slips'[e] + (IF e \in keys' THEN 1 ELSE 0)
    BY <1>1, <1>2
  <1> QED BY <1>3 DEF RunsOK

\* The steps of process.
LEMMA ProcessCounts ==
    ASSUME OKs, BaseOK', RecordsStay, NEW w \in Worker, ProcessEff(w), NEW e \in Event, RunsOK(e)
    PROVE  RunsOK(e)'
  <1> USE DEF OKs
  <1> DEFINE x == InHand(w)
  <1>1. Stays(w)
    BY OthersStay
    DEF ProcessEff, GivesUpEff, SkipEff, ClaimEff, ClaimErrorEff, SucceedsEff, FailsEff,
        ForgetEff, Quiet, Moves
  <1>2. x \in Event /\ job[w].pc \in Active
    BY HandIsEvent
    DEF ProcessEff, GivesUpEff, SkipEff, ClaimEff, ClaimErrorEff, SucceedsEff, FailsEff,
        ForgetEff, Active
  <1>3. CASE GivesUpEff(w) \/ SkipEff(w)
    <2>1. ~Running(w, e)'
      BY <1>3, NotRunning DEF GivesUpEff, SkipEff, Advances, GoesTo, GivenUp
    <2>2. \A v \in Worker : Running(v, e)' => Running(v, e)
      BY <1>1, <2>1 DEF Stays
    <2>3. keys' = keys /\ handled'[e] = handled[e] /\ slips'[e] = slips[e] /\ slips[e] \in Nat
      BY <1>3 DEF GivesUpEff, SkipEff, Quiet, SameMarks, BaseOK
    <2> QED BY <2>2, <2>3, FewerRuns
  <1>4. CASE FailsEff(w)
    <2>1. InHand(w)' = InHand(w) /\ job[w].pc = "handle"
      BY <1>2, <1>4, HandStays DEF FailsEff, GoesTo
    <2>2. \A v \in Worker : Running(v, e)' => Running(v, e)
      BY <1>1, <2>1 DEF Stays, Running
    <2>3. keys' = keys /\ handled'[e] = handled[e] /\ slips'[e] = slips[e] /\ slips[e] \in Nat
      BY <1>4 DEF FailsEff, Quiet, SameMarks, BaseOK
    <2> QED BY <2>2, <2>3, FewerRuns
  <1>5. CASE ClaimEff(w) \/ ClaimErrorEff(w)
    <2>1. ~Running(w, e) /\ InHand(w)' = x
      BY <1>2, <1>5, NotRunning, HandStays DEF ClaimEff, ClaimErrorEff, GoesTo
    <2>2. CASE e = x
      <3>1. \/ e \notin keys /\ e \in keys' /\ slips'[e] = slips[e]
            \/ (e \in keys => e \in keys') /\ slips'[e] = slips[e] + 1
        BY <1>2, <1>5, <2>2 DEF ClaimEff, ClaimErrorEff, BaseOK
      <3>2. handled'[e] = handled[e]
        BY <1>5 DEF ClaimEff, ClaimErrorEff
      <3> QED BY <1>1, <2>1, <3>1, <3>2, RunBegins
    <2>3. CASE e # x
      <3>1. ~Running(w, e)'
        BY <2>1, <2>3 DEF Running
      <3>2. \A v \in Worker : Running(v, e)' => Running(v, e)
        BY <1>1, <3>1 DEF Stays
      <3>3. /\ handled'[e] = handled[e] /\ slips'[e] = slips[e] /\ slips[e] \in Nat
            /\ e \in keys => e \in keys'
        BY <1>2, <1>5, <2>3 DEF ClaimEff, ClaimErrorEff, BaseOK
      <3> QED BY <3>2, <3>3, FewerRuns
    <2> QED BY <2>2, <2>3
  <1>6. CASE SucceedsEff(w) \/ ForgetEff(w)
    <2>1. ~Running(w, e)'
      BY <1>6, NotRunning DEF SucceedsEff, ForgetEff, Advances, GoesTo, GivenUp
    <2>2. slips'[e] = slips[e] /\ slips[e] \in Nat
      BY <1>6 DEF SucceedsEff, ForgetEff, BaseOK
    <2>3. CASE e = x
      <3>1. Running(w, e)
        BY <1>6, <2>3 DEF SucceedsEff, ForgetEff, Running
      <3>2. \/ handled'[e] = handled[e] + 1 /\ keys' = keys
            \/ handled'[e] = handled[e]
        BY <1>2, <1>6, <2>3 DEF SucceedsEff, ForgetEff, BaseOK
      <3> QED BY <1>1, <2>1, <2>2, <3>1, <3>2, RunEnds
    <2>4. CASE e # x
      <3>1. \A v \in Worker : Running(v, e)' => Running(v, e)
        BY <1>1, <2>1 DEF Stays
      <3>2. handled'[e] = handled[e] /\ (e \in keys => e \in keys')
        BY <1>2, <1>6, <2>4 DEF SucceedsEff, ForgetEff, BaseOK
      <3> QED BY <2>2, <3>1, <3>2, FewerRuns
    <2> QED BY <2>3, <2>4
  <1> QED BY <1>3, <1>4, <1>5, <1>6 DEF ProcessEff

\* Every effect keeps the count of the runs.
LEMMA CountStays ==
    ASSUME OKs, BaseOK', Effect, RecordsStay, CountInv
    PROVE  CountInv'
  <1> SUFFICES ASSUME NEW e \in Event PROVE RunsOK(e)'
    BY DEF CountInv
  <1>0. RunsOK(e) /\ slips[e] \in Nat
    BY DEF CountInv, OKs, BaseOK
  <1>1. ASSUME NEW w \in Worker, Others(w), keys' = keys, handled' = handled, slips' = slips,
               job'[w].pc \notin {"handle", "forget"}
        PROVE  RunsOK(e)'
    <2>1. Stays(w) /\ ~Running(w, e)'
      BY <1>1, OthersStay, NotRunning
    <2>2. \A v \in Worker : Running(v, e)' => Running(v, e)
      BY <2>1 DEF Stays
    <2> QED BY <1>0, <1>1, <2>2, FewerRuns DEF OKs
  <1>2. ASSUME NEW c \in Consumer, ConsumerEff(c), ~ProcessEff(c) PROVE RunsOK(e)'
    <2>1. c \in Worker
      BY Workers
    <2>2. Others(c) /\ keys' = keys /\ handled' = handled /\ slips' = slips
      BY <1>2
      DEF ConsumerEff, PollEff, ParkEff, LoseEff, CommitEff, AssignEff, RebalanceEff,
          GoneEff, StartEff, Quiet, Moves, SameMarks
    <2>3. job'[c].pc \notin {"handle", "forget"}
      BY <1>2
      DEF ConsumerEff, PollEff, ParkEff, LoseEff, CommitEff, AssignEff, RebalanceEff,
          GoneEff, StartEff, Advances, GoesTo
    <2> QED BY <1>1, <2>1, <2>2, <2>3
  <1>3. ASSUME NEW t \in Tool, ToolEff(t), ~ProcessEff(t) PROVE RunsOK(e)'
    <2>1. t \in Worker
      BY Workers
    <2>2. Others(t) /\ keys' = keys /\ handled' = handled /\ slips' = slips
      BY <1>3 DEF ToolEff, CommandEff, CommitDoneEff, DownEff, Quiet, Moves, SameMarks
    <2>3. job'[t].pc \notin {"handle", "forget"}
      BY <1>3 DEF ToolEff, CommandEff, CommitDoneEff, DownEff, GoesTo
    <2> QED BY <1>1, <2>1, <2>2, <2>3
  <1>4. CASE EvictEff \/ AppendEff \/ IdleEff \/ \E x \in Event : ExpireEff(x)
    <2>1. job' = job
      BY <1>4 DEF EvictEff, AppendEff, IdleEff, ExpireEff
    <2>2. Stays(Nobody) /\ Nobody \notin Worker
      BY <2>1, OthersStay, Workers DEF Others
    <2>3. \A v \in Worker : Running(v, e)' <=> Running(v, e)
      BY <2>2 DEF Stays
    <2>4. CASE SameMarks
      BY <1>0, <2>3, <2>4, FewerRuns DEF SameMarks, OKs
    <2>5. ASSUME NEW x \in Event, ExpireEff(x), e # x PROVE RunsOK(e)'
      <3>1. handled'[e] = handled[e] /\ slips'[e] = slips[e] /\ (e \in keys => e \in keys')
        BY <2>5 DEF ExpireEff, OKs, BaseOK
      <3> QED BY <1>0, <2>3, <3>1, FewerRuns DEF OKs
    <2>6. ASSUME ExpireEff(e) PROVE RunsOK(e)'
      <3>1. handled'[e] = handled[e] /\ slips'[e] = slips[e] + 1
        BY <2>6 DEF ExpireEff, OKs, BaseOK
      <3>2. Runners(e)' = Runners(e)
        BY <2>3 DEF Runners
      <3> QED BY <1>0, <3>1, <3>2, RunSlips DEF OKs
    <2> QED BY <1>4, <2>4, <2>5, <2>6 DEF EvictEff, AppendEff, IdleEff
  <1> QED BY <1>0, <1>2, <1>3, <1>4, ProcessCounts, Workers DEF Effect, ConsumerEff, ToolEff

-----------------------------------------------------------------------------
(* What was committed past. *)

\* What is parked stays parked.
LEMMA ParkedStays ==
    ASSUME BaseOK, RecordsStay, NEW e, Parked(e)
    PROVE  Parked(e)'
  <1>1. DOMAIN dlq = 1..Len(dlq) /\ DOMAIN dlq' = 1..Len(dlq') /\ Len(dlq) \in Nat /\ Len(dlq') \in Nat
    BY DEF BaseOK, RecordsStay
  <1>2. PICK i \in 1..Len(dlq) : dlq[i].event = e /\ dlq[i].ours
    BY <1>1 DEF Parked
  <1>3. i \in 1..Len(dlq') /\ dlq'[i] = dlq[i]
    BY <1>1 DEF RecordsStay
  <1> QED BY <1>1, <1>2, <1>3 DEF Parked

\* A step that keeps the marks, and after which a worker that is no longer
\* the owner has parked its record or given it up.
Calm(w, e) ==
    /\ handled[e] > 0 => handled'[e] > 0
    /\ e \in lost => e \in lost'
    /\ owner' \in {owner, Nobody, w}
    /\ w \in Consumer /\ Failing(w, e) /\ owner # w => Settled(e)'

\* What is settled stays so in a step that parks, fails and loses no such event.
LEMMA CalmSettles ==
    ASSUME BaseOK, RecordsStay, NEW e \in Event, NEW w \in Worker \cup {Nobody}, Stays(w),
           Calm(w, e), Settled(e)
    PROVE  Settled(e)'
  <1>1. CASE handled[e] > 0 \/ e \in lost
    BY <1>1 DEF Calm, Settled
  <1>2. CASE Parked(e)
    BY <1>2, ParkedStays DEF Settled
  <1>3. ASSUME NEW c \in Consumer, Failing(c, e), owner # c PROVE Settled(e)'
    <2>1. CASE c = w
      BY <1>3, <2>1 DEF Calm
    <2>2. CASE c # w
      <3>1. Failing(c, e)' /\ owner' # c
        BY <1>3, <2>2, Workers DEF Stays, Calm
      <3> QED BY <3>1 DEF Settled
    <2> QED BY <2>1, <2>2
  <1> QED BY <1>1, <1>2, <1>3 DEF Settled

\* The same of what the key speaks for, if the owner takes no such key.
LEMMA CalmVouches ==
    ASSUME BaseOK, RecordsStay, NEW e \in Event, NEW w \in Worker \cup {Nobody}, Stays(w),
           Calm(w, e), Vouched(e), e \in keys => e \in keys',
           w \in Worker /\ Keyed(w, e)' => Keyed(w, e) /\ owner' = owner
    PROVE  Vouched(e)'
  <1>1. CASE Settled(e)
    BY <1>1, CalmSettles DEF Vouched
  <1>2. CASE e \in keys /\ ~\E c \in Consumer : owner = c /\ Keyed(c, e)
    <2> SUFFICES ASSUME NEW c \in Consumer, owner' = c, Keyed(c, e)' PROVE FALSE
      BY <1>2 DEF Vouched
    <2>1. c \in Worker /\ c # Nobody
      BY Workers
    <2>2. owner = c /\ Keyed(c, e)
      BY <2>1 DEF Stays, Calm
    <2> QED BY <1>2, <2>2
  <1> QED BY <1>1, <1>2 DEF Vouched

\* process keeps what is vouched for.
LEMMA ProcessVouches ==
    ASSUME OKs, RecordsStay, NEW w \in Worker, ProcessEff(w), NEW e \in Event, Vouched(e)
    PROVE  Vouched(e)'
  <1> USE DEF OKs
  <1>1. Stays(w) /\ owner' = owner /\ lost' = lost
    BY OthersStay
    DEF ProcessEff, GivesUpEff, SkipEff, ClaimEff, ClaimErrorEff, SucceedsEff, FailsEff,
        ForgetEff, Quiet,
        Moves, SameGroup, SameMarks
  <1>2. job[w].pc \in {"claim", "handle", "forget"}
    BY DEF ProcessEff, GivesUpEff, SkipEff, ClaimEff, ClaimErrorEff, SucceedsEff, FailsEff,
           ForgetEff
  <1>3. handled[e] > 0 => handled'[e] > 0
    <2>1. CASE SucceedsEff(w)
      <3>1. InHand(w) \in Event /\ handled' = [handled EXCEPT ![InHand(w)] = handled[InHand(w)] + 1]
        BY <2>1, <1>2, HandIsEvent DEF SucceedsEff, Active
      <3>2. handled[e] \in Nat /\ handled'[e] \in {handled[e], handled[e] + 1}
        BY <3>1 DEF BaseOK
      <3> QED BY <3>2
    <2> QED BY <2>1
        DEF ProcessEff, GivesUpEff, SkipEff, ClaimEff, ClaimErrorEff, FailsEff, ForgetEff,
            Quiet, SameMarks
  <1>4. Calm(w, e)
    BY <1>1, <1>2, <1>3 DEF Calm, Failing
  <1>5. CASE GivesUpEff(w) \/ SkipEff(w) \/ ClaimErrorEff(w) \/ SucceedsEff(w)
    <2>1. e \in keys => e \in keys'
      BY <1>5 DEF GivesUpEff, SkipEff, ClaimErrorEff, SucceedsEff, Quiet, SameMarks
    <2>2. ~Keyed(w, e)'
      BY <1>5 DEF GivesUpEff, SkipEff, ClaimErrorEff, SucceedsEff, Advances, GoesTo, Keyed
    <2> QED BY <1>1, <1>4, <2>1, <2>2, CalmVouches
  <1>6. CASE FailsEff(w)
    <2>1. InHand(w)' = InHand(w) /\ keys' = keys
      BY <1>2, <1>6, HandStays DEF FailsEff, GoesTo, Active, Quiet, SameMarks
    <2>2. Keyed(w, e)' => Keyed(w, e)
      BY <1>6, <2>1 DEF FailsEff, GoesTo, Keyed
    <2> QED BY <1>1, <1>4, <2>1, <2>2, CalmVouches
  <1>7. CASE ClaimEff(w)
    <2>1. InHand(w)' = InHand(w) /\ InHand(w) \notin keys /\ keys \subseteq keys'
      BY <1>2, <1>7, HandStays DEF ClaimEff, GoesTo, Active
    <2>2. CASE e = InHand(w)
      <3>1. Settled(e)
        BY <2>1, <2>2 DEF Vouched
      <3> QED BY <1>1, <1>4, <3>1, CalmSettles DEF Vouched
    <2>3. CASE e # InHand(w)
      <3>1. ~Keyed(w, e)'
        BY <2>1, <2>3 DEF Keyed
      <3> QED BY <1>1, <1>4, <2>1, <3>1, CalmVouches
    <2> QED BY <2>2, <2>3
  <1>8. CASE ForgetEff(w)
    <2>1. InHand(w)' = InHand(w) /\ keys' = keys \ {InHand(w)} /\ job[w].key
      BY <1>2, <1>8, HandStays DEF ForgetEff, GoesTo, Active
    <2>2. ~Keyed(w, e)'
      BY <1>8 DEF ForgetEff, GoesTo, Keyed
    <2>3. CASE e # InHand(w)
      BY <1>1, <1>4, <2>1, <2>2, <2>3, CalmVouches
    <2>4. CASE Settled(e)
      BY <1>1, <1>4, <2>4, CalmSettles DEF Vouched
    <2>5. CASE e = InHand(w) /\ ~Settled(e) /\ w \in Consumer
      <3>1. Keyed(w, e) /\ owner # w
        BY <2>1, <2>5 DEF Vouched, Keyed
      <3>2. Failing(w, e)' /\ owner' # w
        BY <1>1, <1>8, <2>1, <2>5, <3>1 DEF ForgetEff, GoesTo, GivenUp, Failing
      <3> QED BY <2>5, <3>2 DEF Settled, Vouched
    <2>6. CASE e = InHand(w) /\ w \in Tool
      <3>1. /\ job[w].pos \in 1..Len(dlq) /\ e = dlq[job[w].pos].event
            /\ dlq[job[w].pos].ours
        BY <1>8, <1>2, <2>6, HandIsEvent DEF ForgetEff, Active, HandsOK, HandOK
      <3>2. Parked(e)
        <4>1. DOMAIN dlq = 1..Len(dlq)
          BY DEF BaseOK
        <4> QED BY <3>1, <4>1 DEF Parked
      <3> QED BY <3>2, ParkedStays DEF Settled, Vouched
    <2> QED BY <2>3, <2>4, <2>5, <2>6, Workers
  <1> QED BY <1>5, <1>6, <1>7, <1>8 DEF ProcessEff

\* The new entry of the dlq is parked.
LEMMA ParkParks ==
    ASSUME OKs, NEW c \in Consumer, ParkEff(c), NEW e \in Event, e = InHand(c)
    PROVE  Parked(e)'
  <1>1. Len(dlq') = Len(dlq) + 1 /\ dlq'[Len(dlq) + 1] = [event |-> e, ours |-> TRUE] /\ RecordsStay
    BY DlqGrows DEF OKs, ParkEff, SameTopic
  <1>2. DOMAIN dlq' = 1..Len(dlq') /\ Len(dlq) \in Nat
    BY <1>1 DEF RecordsStay, OKs, BaseOK
  <1>3. Len(dlq) + 1 \in DOMAIN dlq' /\ dlq'[Len(dlq) + 1].event = e /\ dlq'[Len(dlq) + 1].ours
    BY <1>1, <1>2
  <1> QED BY <1>3 DEF Parked

\* Every effect keeps what is vouched for.
LEMMA VouchedStays ==
    ASSUME OKs, Effect, RecordsStay, NEW e \in Event, Vouched(e)
    PROVE  Vouched(e)'
  <1> USE DEF OKs
  <1>2. ASSUME NEW c \in Consumer, ConsumerEff(c), ~ProcessEff(c) PROVE Vouched(e)'
    <2>w. c \in Worker /\ c # Nobody
      BY Workers
    <2>1. Stays(c) /\ keys' = keys /\ handled' = handled /\ lost \subseteq lost'
          /\ owner' \in {owner, Nobody, c}
      BY <1>2, <2>w, OthersStay
      DEF ConsumerEff, PollEff, ParkEff, LoseEff, CommitEff, AssignEff, RebalanceEff, GoneEff,
          StartEff,
          Quiet, Moves, SameMarks, SameGroup
    <2>2. ~Keyed(c, e)'
      BY <1>2
      DEF ConsumerEff, PollEff, ParkEff, LoseEff, CommitEff, AssignEff, RebalanceEff, GoneEff,
          StartEff,
          Advances, GoesTo, Keyed
    <2>3. ASSUME Failing(c, e), owner # c PROVE Settled(e)'
      <3>1. job[c].pc = "failed" /\ e = InHand(c)
        BY <2>3 DEF Failing
      <3>2. ParkEff(c) \/ LoseEff(c) \/ GoneEff(c)
        BY <1>2, <3>1 DEF ConsumerEff, PollEff, CommitEff, AssignEff, RebalanceEff, StartEff
      <3>3. CASE ParkEff(c)
        BY <3>1, <3>3, ParkParks DEF Settled
      <3>4. CASE LoseEff(c) \/ GoneEff(c)
        <4>1. e \in lost'
          BY <2>3, <3>1, <3>4 DEF LoseEff, GoneEff
        <4> QED BY <4>1 DEF Settled
      <3> QED BY <3>2, <3>3, <3>4
    <2>4. Calm(c, e)
      BY <2>1, <2>3 DEF Calm
    <2> QED BY <2>w, <2>1, <2>2, <2>4, CalmVouches
  <1>3. ASSUME NEW t \in Tool, ToolEff(t), ~ProcessEff(t) PROVE Vouched(e)'
    <2>w. t \in Worker /\ t \notin Consumer
      BY Workers
    <2>1. Stays(t) /\ SameMarks /\ owner' = owner
      BY <1>3, <2>w, OthersStay
      DEF ToolEff, CommandEff, CommitDoneEff, DownEff, Quiet, Moves, SameGroup
    <2>2. ~Keyed(t, e)'
      BY <1>3 DEF ToolEff, CommandEff, CommitDoneEff, DownEff, GoesTo, Keyed
    <2>3. Calm(t, e) /\ keys' = keys
      BY <2>w, <2>1 DEF Calm, SameMarks
    <2> QED BY <2>w, <2>1, <2>2, <2>3, CalmVouches
  <1>4. CASE EvictEff \/ AppendEff \/ IdleEff
    <2>1. job' = job /\ SameMarks /\ owner' \in {owner, Nobody}
      BY <1>4 DEF EvictEff, AppendEff, IdleEff, SameGroup
    <2>2. Stays(Nobody) /\ Nobody \notin Worker /\ Nobody \notin Consumer
      BY <2>1, OthersStay, Workers DEF Others
    <2>3. Calm(Nobody, e) /\ keys' = keys
      BY <2>1, <2>2 DEF Calm, SameMarks
    <2> QED BY <2>2, <2>3, CalmVouches
  <1>5. ASSUME NEW x \in Event, ExpireEff(x) PROVE Vouched(e)'
    <2>1. /\ job' = job /\ handled' = handled /\ owner' = owner
          /\ keys' = keys \ {x} /\ lost' = IF handled[x] = 0 THEN lost \cup {x} ELSE lost
      BY <1>5 DEF ExpireEff, SameGroup
    <2>2. CASE e = x
      BY <2>1, <2>2 DEF Vouched, Settled, BaseOK
    <2>3. CASE e # x
      <3>1. Stays(Nobody) /\ Nobody \notin Worker /\ Nobody \notin Consumer
        BY <2>1, OthersStay, Workers DEF Others
      <3>2. Calm(Nobody, e) /\ (e \in keys => e \in keys')
        BY <2>1, <2>3, <3>1 DEF Calm
      <3> QED BY <3>1, <3>2, CalmVouches
    <2> QED BY <2>2, <2>3
  <1> QED BY <1>2, <1>3, <1>4, <1>5, ProcessVouches, Workers DEF Effect

\* The record in hand of an owner that is not stopping is vouched for when
\* it goes on to the next.
LEMMA AdvanceVouches ==
    ASSUME OKs, NEW c \in Consumer, owner' = c, c \notin stopping',
           SkipEff(c) \/ SucceedsEff(c) \/ ParkEff(c) \/ LoseEff(c), NEW e \in Event, e = InHand(c)
    PROVE  Vouched(e)'
  <1> USE DEF OKs
  <1>w. c \in Worker /\ c \notin Tool
    BY Workers
  <1>1. CASE SkipEff(c)
    <2>1. e \in keys'
      BY <1>1, <1>w DEF SkipEff, Quiet, SameMarks
    <2>2. ~Keyed(c, e)'
      BY <1>1 DEF SkipEff, Advances, GoesTo, Keyed
    <2> QED BY <2>1, <2>2 DEF Vouched
  <1>2. CASE SucceedsEff(c)
    <2>1. handled'[e] = handled[e] + 1 /\ handled[e] \in Nat
      BY <1>2 DEF SucceedsEff, BaseOK
    <2> QED BY <2>1 DEF Settled, Vouched
  <1>3. CASE ParkEff(c)
    BY <1>3, ParkParks DEF Settled, Vouched
  <1>4. CASE LoseEff(c)
    BY <1>4 DEF LoseEff, SameGroup, Settled, Vouched
  <1> QED BY <1>1, <1>2, <1>3, <1>4

\* Every effect keeps what is known of the records committed past.
LEMMA DoneStays ==
    ASSUME OKs, Effect, RecordsStay, BaseOK', DoneInv
    PROVE  DoneInv'
  <1> USE DEF OKs
  <1>0. Len(log) \in Nat /\ committed \in Nat /\ committed <= Len(log) + 1
    BY DEF BaseOK
  <1>1. ASSUME NEW i \in 1..Len(log), Vouched(log[i]) PROVE Vouched(log[i])'
    <2>1. log[i] \in Event /\ log'[i] = log[i]
      BY DEF BaseOK, RecordsStay
    <2>2. ASSUME NEW e \in Event, e = log[i] PROVE Vouched(e)'
      BY <1>1, <2>2, VouchedStays
    <2> QED BY <2>1, <2>2
  <1>2. ASSUME NEW c \in Consumer, owner = c, c \notin stopping
        PROVE  /\ job[c].pos \in Nat /\ job[c].pos <= Len(log) + 1
               /\ \A i \in 1..job[c].pos - 1 : i \in 1..Len(log) /\ Vouched(log[i])'
    <2>1. job[c].pos \in Nat /\ job[c].pos <= Len(log) + 1
      BY JobFields, Workers DEF PlacesOK, ConsumerOK
    <2>2. ASSUME NEW i \in 1..job[c].pos - 1 PROVE i \in 1..Len(log) /\ Vouched(log[i])'
      <3>1. i \in 1..Len(log)
        BY <1>0, <2>1
      <3>2. Vouched(log[i])
        BY <1>2 DEF DoneInv
      <3> QED BY <1>1, <3>1, <3>2
    <2> QED BY <2>1, <2>2
  <1>3. \A i \in 1..committed - 1 : i \in 1..Len(log) /\ Vouched(log[i])'
    BY <1>0, <1>1 DEF DoneInv
  <1>4. \A i \in 1..committed' - 1 : Vouched(log[i])'
    <2>1. CASE committed' = committed
      BY <1>3, <2>1
    <2>2. CASE committed' # committed
      <3>1. PICK c \in Consumer : owner = c /\ c \notin stopping /\ committed' = job[c].pos
        BY <2>2
        DEF Effect, ConsumerEff, ToolEff, ProcessEff, GivesUpEff, SkipEff, ClaimEff,
            ClaimErrorEff,
            SucceedsEff, FailsEff, ForgetEff, PollEff, ParkEff, LoseEff, CommitEff, AssignEff, RebalanceEff,
            GoneEff, StartEff, CommandEff, CommitDoneEff, DownEff, EvictEff, AppendEff, IdleEff, ExpireEff,
            Quiet, SameGroup
      <3> QED BY <1>2, <3>1
    <2> QED BY <2>1, <2>2
  <1>5. ASSUME NEW c \in Consumer, owner' = c, c \notin stopping'
        PROVE  \A i \in 1..job'[c].pos - 1 : Vouched(log[i])'
    <2>w. c \in Worker /\ c # Nobody /\ c \notin Tool
      BY Workers
    <2>1. ASSUME owner = c, c \notin stopping, job'[c].pos = job[c].pos
          PROVE  \A i \in 1..job'[c].pos - 1 : Vouched(log[i])'
      BY <1>2, <2>1
    <2>2. ASSUME NEW w \in Worker, Others(w), w # c, owner' \in {owner, Nobody, w}, stopping \subseteq stopping' \cup {w}
          PROVE  \A i \in 1..job'[c].pos - 1 : Vouched(log[i])'
      <3>1. owner = c /\ c \notin stopping /\ job'[c] = job[c]
        BY <1>5, <2>2, <2>w DEF Others
      <3> QED BY <2>1, <3>1
    <2>3. ASSUME NEW t \in Tool, ToolEff(t) PROVE \A i \in 1..job'[c].pos - 1 : Vouched(log[i])'
      <3>1. t \in Worker /\ t # c /\ Others(t) /\ SameGroup
        BY <2>3, <2>w, Workers
        DEF ToolEff, ProcessEff, GivesUpEff, SkipEff, ClaimEff, ClaimErrorEff, SucceedsEff,
            FailsEff,
            ForgetEff, CommandEff, CommitDoneEff, DownEff, Quiet, Moves
      <3> QED BY <2>2, <3>1 DEF SameGroup
    <2>4. ASSUME NEW d \in Consumer, ConsumerEff(d), d # c
          PROVE  \A i \in 1..job'[c].pos - 1 : Vouched(log[i])'
      <3>1. d \in Worker /\ Others(d) /\ owner' \in {owner, Nobody, d} /\ stopping \subseteq stopping' \cup {d}
        BY <2>4, Workers
        DEF ConsumerEff, ProcessEff, GivesUpEff, SkipEff, ClaimEff, ClaimErrorEff, SucceedsEff,
            FailsEff,
            ForgetEff, PollEff, ParkEff, LoseEff, CommitEff, AssignEff, RebalanceEff, GoneEff, StartEff,
            Quiet, Moves, SameGroup
      <3> QED BY <2>2, <2>4, <3>1
    <2>5. CASE EvictEff \/ AppendEff \/ IdleEff \/ \E e \in Event : ExpireEff(e)
      <3>1. owner = c /\ c \notin stopping /\ job' = job
        BY <1>5, <2>5, <2>w DEF EvictEff, AppendEff, IdleEff, ExpireEff, SameGroup
      <3> QED BY <2>1, <3>1
    <2>6. CASE ConsumerEff(c)
      <3>1. CASE AssignEff(c)
        BY <1>3, <3>1 DEF AssignEff, GoesTo
      <3>2. CASE RebalanceEff(c) \/ GoneEff(c)
        BY <1>5, <3>2, <2>w DEF RebalanceEff, GoneEff
      <3>3. CASE StartEff(c)
        BY <1>5, <3>3 DEF StartEff, GoesTo
      <3>4. CASE GivesUpEff(c) \/ ClaimEff(c) \/ ClaimErrorEff(c) \/ FailsEff(c) \/ ForgetEff(c)
                 \/ PollEff(c) \/ CommitEff(c)
        <4>1. owner = c /\ c \notin stopping /\ job'[c].pos = job[c].pos
          BY <1>5, <3>4
          DEF GivesUpEff, ClaimEff, ClaimErrorEff, FailsEff, ForgetEff, PollEff, CommitEff,
              Quiet, SameGroup,
              GoesTo
        <4> QED BY <2>1, <4>1
      <3>5. CASE SkipEff(c) \/ SucceedsEff(c) \/ ParkEff(c) \/ LoseEff(c)
        <4>1. owner = c /\ c \notin stopping /\ job'[c].pos = job[c].pos + 1 /\ job[c].pc \in Active
          BY <1>5, <3>5 DEF SkipEff, SucceedsEff, ParkEff, LoseEff, Quiet, SameGroup, Advances,
                            GoesTo, Active
        <4>2. job[c].pos \in 1..Len(log) /\ InHand(c) = log[job[c].pos] /\ InHand(c) \in Event
          BY <2>w, <4>1, HandIsEvent
        <4>3. \A e \in Event : e = InHand(c) => Vouched(e)'
          BY <1>5, <3>5, AdvanceVouches
        <4>4. log'[job[c].pos] = InHand(c)
          BY <4>2 DEF RecordsStay
        <4>5. \A i \in 1..job[c].pos - 1 : Vouched(log[i])'
          BY <1>2, <4>1
        <4>6. ASSUME NEW i \in 1..job'[c].pos - 1 PROVE Vouched(log[i])'
          <5>1. job[c].pos \in Nat /\ (i \in 1..job[c].pos - 1 \/ i = job[c].pos)
            BY <4>1, <4>2
          <5>2. CASE i = job[c].pos
            <6>1. log'[i] = InHand(c)
              BY <4>4, <5>2
            <6>2. \A e \in Event : e = log'[i] => Vouched(e)'
              BY <4>3, <6>1
            <6>3. log'[i] \in Event
              BY <4>2, <6>1
            <6> QED BY <6>2, <6>3
          <5> QED BY <4>5, <5>1, <5>2
        <4> QED BY <4>6
      <3> QED BY <2>6, <3>1, <3>2, <3>3, <3>4, <3>5 DEF ConsumerEff, ProcessEff
    <2> QED BY <2>3, <2>4, <2>5, <2>6 DEF Effect
  <1> QED BY <1>4, <1>5 DEF DoneInv

-----------------------------------------------------------------------------
(* What the tool's position passed. *)

\* Marks that stay: the step loses no handled event, key, dropped record.
Keeping(e) ==
    /\ handled[e] > 0 => handled'[e] > 0
    /\ e \in lost => e \in lost'
    /\ dropped \subseteq dropped' /\ forsaken \subseteq forsaken'

\* Whoever answers for an event still does, if each that may leave off hands on.
LEMMA OwedKept ==
    ASSUME BaseOK, RecordsStay, NEW e \in Event, NEW w \in Worker \cup {Nobody}, Stays(w),
           Keeping(e), Owed(e),
           e \in keys => Owed(e)',
           \A k \in 1..Len(dlq) : Waits(k, e) => Owed(e)',
           w \in Consumer /\ Failing(w, e) => Owed(e)'
    PROVE  Owed(e)'
  <1>1. CASE handled[e] > 0 \/ e \in lost \/ e \in forsaken
    BY <1>1 DEF Keeping, Owed
  <1>2. CASE Dropped(e)
    <2>1. PICK k \in dropped : dlq[k].event = e /\ dlq[k].ours
      BY <1>2 DEF Dropped
    <2>2. k \in dropped' /\ dlq'[k] = dlq[k]
      BY <2>1 DEF Keeping, BaseOK, RecordsStay
    <2> QED BY <2>1, <2>2 DEF Dropped, Owed
  <1>3. ASSUME NEW c \in Consumer, Failing(c, e), c # w PROVE Owed(e)'
    <2>1. Failing(c, e)'
      BY <1>3, Workers DEF Stays
    <2> QED BY <2>1 DEF Owed
  <1> QED BY <1>1, <1>2, <1>3 DEF Owed

\* While the tools and the position stay, so does what waits.
LEMMA WaitsStays ==
    ASSUME BaseOK, RecordsStay, position' = position, NEW k \in 1..Len(dlq), NEW e \in Event, Waits(k, e),
           ~Passed(k)'
    PROVE  Waits(k, e)' /\ Owed(e)'
  <1>1. dlq'[k] = dlq[k] /\ Len(dlq) \in Nat /\ Len(dlq') \in Nat /\ Len(dlq) <= Len(dlq')
    BY DEF BaseOK, RecordsStay
  <1>2. k \in 1..Len(dlq') /\ k <= Len(dlq') /\ position <= k /\ dlq[k].event = e /\ dlq[k].ours
    BY <1>1 DEF Waits
  <1>3. Waits(k, e)'
    BY <1>1, <1>2 DEF Waits
  <1> QED BY <1>2, <1>3 DEF Owed

\* A step of another worker than a tool passes no record of the dlq.
LEMMA SameTools ==
    ASSUME NEW w, Others(w), w \notin Tool
    PROVE  \A k : Passed(k)' <=> Passed(k)
  <1>1. \A t \in Tool : job'[t] = job[t]
    BY Workers DEF Others
  <1> QED BY <1>1 DEF Passed, TakesForDone

\* A tool's step leaves to the other tools what they have passed.
LEMMA OtherTools ==
    ASSUME NEW w \in Tool, Others(w), NEW k
    PROVE  Passed(k)' <=> TakesForDone(w, k)' \/ \E s \in Tool : s # w /\ TakesForDone(s, k)
  <1>1. \A s \in Tool : s # w => job'[s] = job[s]
    BY Workers DEF Others
  <1>2. \A s \in Tool : s # w => (TakesForDone(s, k)' <=> TakesForDone(s, k))
    BY <1>1 DEF TakesForDone
  <1> QED BY <1>2 DEF Passed

\* The step leaves the event to be delivered again, and no consumer commits
\* past it meanwhile.
Left(e) == Redelivered(e)' /\ \A c \in Consumer : owner' = c => c \in stopping'

\* A step of process by a consumer or by the tool.
LEMMA ProcessOwes ==
    ASSUME OKs, RecordsStay, NEW w \in Worker, ProcessEff(w), NEW e \in Event, Owed(e)
    PROVE  Owed(e)'
  <1> USE DEF OKs
  <1>1. Stays(w) /\ Others(w) /\ lost' = lost /\ SameDead /\ JobsOK' /\ Counts
    BY OthersStay
    DEF ProcessEff, GivesUpEff, SkipEff, ClaimEff, ClaimErrorEff, SucceedsEff, FailsEff,
        ForgetEff, Quiet,
        Moves, SameMarks
  <1>2. job[w].pc \in {"claim", "handle", "forget"}
    BY DEF ProcessEff, GivesUpEff, SkipEff, ClaimEff, ClaimErrorEff, SucceedsEff, FailsEff,
           ForgetEff
  <1>3. ASSUME SucceedsEff(w)
        PROVE  /\ handled[e] > 0 => handled'[e] > 0
               /\ e = InHand(w) => Owed(e)'
    <2>1. InHand(w) \in Event /\ handled' = [handled EXCEPT ![InHand(w)] = handled[InHand(w)] + 1]
      BY <1>2, <1>3, HandIsEvent DEF SucceedsEff, Active
    <2>2. handled[e] \in Nat /\ handled'[e] \in {handled[e], handled[e] + 1}
          /\ (e = InHand(w) => handled'[e] = handled[e] + 1)
      BY <2>1 DEF BaseOK
    <2> QED BY <2>2 DEF Owed
  <1>4. Keeping(e)
    <2>1. handled[e] > 0 => handled'[e] > 0
      BY <1>3
      DEF ProcessEff, GivesUpEff, SkipEff, ClaimEff, ClaimErrorEff, FailsEff, ForgetEff, Quiet,
          SameMarks
    <2> QED BY <1>1, <2>1 DEF Keeping, SameDead, Counts
  <1>5. ~(w \in Consumer /\ Failing(w, e))
    BY <1>2 DEF Failing
  <1>6. \A k \in 1..Len(dlq) : Waits(k, e) => Owed(e)'
    <2> SUFFICES ASSUME NEW k \in 1..Len(dlq), Waits(k, e) PROVE Owed(e)'
      OBVIOUS
    <2>1. CASE w \in Consumer
      <3>1. ~Passed(k)'
        BY <1>1, <2>1, SameTools, Workers DEF Waits
      <3> QED BY <1>1, <3>1, WaitsStays DEF SameDead
    <2>2. CASE w \in Tool
      <3>1. ASSUME ~TakesForDone(w, k)' PROVE ~Passed(k)'
        BY <1>1, <2>2, <3>1, OtherTools DEF Waits, Passed
      <3>2. ~TakesForDone(w, k) /\ dlq[k].event = e /\ dlq[k].ours
        BY <2>2 DEF Waits, Passed
      <3>3. CASE ~Advances(w)
        <4>1. Kept(w) /\ job'[w].pos = job[w].pos /\ job[w].pc # "down"
          BY <1>2, <3>3
          DEF ProcessEff, GivesUpEff, SkipEff, ClaimEff, ClaimErrorEff, SucceedsEff, FailsEff,
              ForgetEff, GoesTo
        <4>2. ~TakesForDone(w, k)'
          BY <3>2, <4>1 DEF TakesForDone, Kept
        <4> QED BY <1>1, <3>1, <4>2, WaitsStays DEF SameDead
      <3>4. CASE Advances(w) /\ k # job[w].pos
        <4>1. Kept(w) /\ job'[w].pos = job[w].pos + 1 /\ job[w].pc # "down" /\ job[w].pos \in Nat
          BY <1>2, <3>4, JobFields DEF Advances, GoesTo
        <4>2. ~TakesForDone(w, k)'
          BY <3>2, <3>4, <4>1 DEF TakesForDone, Kept
        <4> QED BY <1>1, <3>1, <4>2, WaitsStays DEF SameDead
      <3>5. CASE Advances(w) /\ k = job[w].pos
        <4>1. e = InHand(w)
          BY <1>2, <2>2, <3>2, <3>5, HandIsEvent DEF Active
        <4>2. CASE SucceedsEff(w)
          BY <1>3, <4>1, <4>2
        <4>3. CASE SkipEff(w)
          BY <3>2, <3>5, <4>1, <4>3 DEF SkipEff, Quiet, SameMarks, Owed
        <4>4. job[w].pos \in Nat /\ job'[w].pos = job[w].pos + 1
          BY <3>5, JobFields DEF Advances, GoesTo
        <4>5. SucceedsEff(w) \/ SkipEff(w)
          BY <4>4 DEF ProcessEff, GivesUpEff, ClaimEff, ClaimErrorEff, FailsEff, ForgetEff,
                      GoesTo
        <4> QED BY <4>2, <4>3, <4>5
      <3> QED BY <3>3, <3>4, <3>5
    <2> QED BY <2>1, <2>2, Workers
  <1>7. e \in keys => Owed(e)'
    <2> SUFFICES ASSUME e \in keys PROVE Owed(e)'
      OBVIOUS
    <2>1. CASE e \in keys'
      BY <2>1 DEF Owed
    <2>2. CASE e \notin keys'
      <3>1. ForgetEff(w) /\ e = InHand(w)
        BY <2>2
        DEF ProcessEff, GivesUpEff, SkipEff, ClaimEff, ClaimErrorEff, SucceedsEff, FailsEff,
            ForgetEff, Quiet,
            SameMarks
      <3>2. job'[w].pos = job[w].pos /\ job'[w].pc = GivenUp(w)
        BY <3>1 DEF ForgetEff, GoesTo
      <3>3. InHand(w)' = InHand(w)
        BY <1>2, <3>2, HandStays DEF Active
      <3>4. CASE w \in Consumer
        <4>1. Failing(w, e)'
          BY <3>1, <3>2, <3>3, <3>4 DEF Failing, GivenUp
        <4> QED BY <3>4, <4>1 DEF Owed
      <3>5. CASE w \in Tool
        <4> DEFINE k == job[w].pos
        <4>1. /\ k \in 1..Len(dlq) /\ dlq[k].event = e /\ dlq[k].ours
          BY <1>2, <3>1, <3>5, HandIsEvent DEF Active, ForgetEff, HandsOK, HandOK
        <4>2. CASE k < position \/ Passed(k)
          BY <3>1, <3>5, <4>2 DEF ForgetEff, Owed
        <4>3. k \in Nat /\ position \in Nat /\ job[w].from \in Nat /\ job[w].from <= k
          BY <1>2, <3>5, JobFields DEF PlacesOK, ToolOK, BaseOK
        <4>4. ASSUME NEW n \in Nat, n = k PROVE ~TakesForDone(w, n)'
          BY <3>1, <3>2, <4>3, <4>4 DEF TakesForDone, ForgetEff, Kept
        <4>5. CASE ~(k < position \/ Passed(k))
          <5>1. Waits(k, e)
            BY <4>1, <4>3, <4>5 DEF Waits
          <5>2. ASSUME NEW n \in Nat, n = k PROVE ~Passed(n)'
            BY <1>1, <3>5, <4>4, <4>5, <5>2, OtherTools DEF Passed
          <5> HIDE DEF k
          <5>3. PICK n \in 1..Len(dlq) : n = k
            BY <4>1
          <5>4. Waits(n, e) /\ ~Passed(n)' /\ position' = position
            BY <1>1, <4>3, <5>1, <5>2, <5>3 DEF SameDead
          <5> QED BY <5>4, WaitsStays
        <4> QED BY <4>2, <4>5
      <3> QED BY <3>4, <3>5, Workers
    <2> QED BY <2>1, <2>2
  <1> QED BY <1>1, <1>4, <1>5, <1>6, <1>7, OwedKept

\* The other steps of a consumer.
LEMMA ConsumerOwes ==
    ASSUME OKs, RecordsStay, NEW c \in Consumer, ConsumerEff(c), ~ProcessEff(c), NEW e \in Event, Owed(e)
    PROVE  Owed(e)' \/ Left(e)
  <1> USE DEF OKs
  <1>w. c \in Worker /\ c # Nobody /\ c \notin Tool
    BY Workers
  <1>1. /\ Stays(c) /\ Others(c) /\ keys' = keys /\ handled' = handled /\ lost \subseteq lost'
        /\ position' = position /\ dropped' = dropped /\ log' = log /\ forsaken \subseteq forsaken'
    BY <1>w, OthersStay
    DEF ConsumerEff, PollEff, ParkEff, LoseEff, CommitEff, AssignEff, RebalanceEff, GoneEff,
        StartEff,
        Quiet, Moves, SameMarks, SameDead, SameTopic, Counts
  <1>2. Keeping(e) /\ (e \in keys => Owed(e)')
    BY <1>1 DEF Keeping, Owed
  <1>3. \A k \in 1..Len(dlq) : Waits(k, e) => Owed(e)'
    <2> SUFFICES ASSUME NEW k \in 1..Len(dlq), Waits(k, e) PROVE Owed(e)'
      OBVIOUS
    <2>1. ~Passed(k)'
      BY <1>w, <1>1, SameTools DEF Waits
    <2> QED BY <1>1, <2>1, WaitsStays
  <1>4. CASE ~Failing(c, e)
    BY <1>w, <1>1, <1>2, <1>3, <1>4, OwedKept
  <1>5. CASE Failing(c, e)
    <2>1. job[c].pc = "failed" /\ e = InHand(c)
      BY <1>5 DEF Failing
    <2>2. ParkEff(c) \/ LoseEff(c) \/ GoneEff(c)
      BY <2>1 DEF ConsumerEff, PollEff, CommitEff, AssignEff, RebalanceEff, StartEff
    <2>3. CASE ParkEff(c)
      <3> DEFINE n == Len(dlq) + 1
      <3>1. Len(dlq') = n /\ dlq'[n] = [event |-> e, ours |-> TRUE]
        BY <2>1, <2>3, DlqGrows DEF ParkEff, SameTopic
      <3>2. Len(dlq) \in Nat /\ n \in 1..Len(dlq') /\ position \in Nat /\ position <= n
        BY <3>1 DEF BaseOK
      <3>3. \A t \in Tool : ~TakesForDone(t, n)
        <4> SUFFICES ASSUME NEW t \in Tool, TakesForDone(t, n) PROVE FALSE
          OBVIOUS
        <4>1. /\ job[t].from \in Nat /\ job[t].pos \in Nat /\ job[t].end \in Nat
              /\ job[t].from <= job[t].pos /\ job[t].pos <= job[t].end + 1 /\ job[t].end <= Len(dlq)
          BY JobFields, Workers DEF TakesForDone, PlacesOK, ToolOK
        <4> QED BY <3>2, <4>1 DEF TakesForDone
      <3> HIDE DEF n
      <3>4. ASSUME NEW k \in Nat, k = n PROVE Waits(k, e)'
        <4>1. ~Passed(k)
          BY <3>3, <3>4 DEF Passed
        <4>2. ~Passed(k)'
          BY <4>1, <1>w, <1>1, SameTools
        <4>3. dlq'[k].event = e /\ dlq'[k].ours /\ k <= Len(dlq') /\ position' <= k
          BY <1>1, <3>1, <3>2, <3>4
        <4> QED BY <4>2, <4>3 DEF Waits
      <3>5. PICK k \in 1..Len(dlq') : k = n
        BY <3>2
      <3>6. Waits(k, e)'
        BY <3>4, <3>5
      <3> QED BY <3>6 DEF Owed
    <2>4. CASE (LoseEff(c) \/ GoneEff(c)) /\ e \in lost'
      BY <2>4 DEF Owed
    <2>5. CASE (LoseEff(c) \/ GoneEff(c)) /\ e \notin lost'
      <3>1. owner = c
        BY <2>1, <2>5 DEF LoseEff, GoneEff
      <3>2. committed' = committed /\ \A d \in Consumer : owner' = d => d \in stopping'
        BY <1>w, <2>1, <2>5, <3>1, Workers DEF LoseEff, GoneEff, SameGroup
      <3>3. job[c].pos \in 1..Len(log) /\ log[job[c].pos] = e /\ committed <= job[c].pos
        BY <1>w, <2>1, <3>1, HandIsEvent DEF Active, PlacesOK, ConsumerOK
      <3>4. committed \in Nat /\ Len(log) \in Nat
        BY DEF BaseOK
      <3>5. PICK j \in committed..Len(log) : j = job[c].pos
        BY <3>3, <3>4
      <3>6. j \in committed'..Len(log') /\ log'[j] = e
        BY <1>1, <3>2, <3>3, <3>5
      <3> QED BY <3>2, <3>6 DEF Left, Redelivered
    <2> QED BY <2>2, <2>3, <2>4, <2>5
  <1> QED BY <1>4, <1>5

\* A command goes past nothing but what the position has passed, and one
\* that ends past nothing.
LEMMA ToolPasses ==
    ASSUME OKs, NEW t \in Tool, ToolEff(t), ~ProcessEff(t), NEW k \in Nat, position <= k, Passed(k)'
    PROVE  Passed(k)
  <1> USE DEF OKs
  <1>1. Others(t) /\ t \in Worker
    BY Workers DEF ToolEff, CommandEff, CommitDoneEff, DownEff, Quiet, Moves
  <1>2. ASSUME TakesForDone(t, k)' PROVE FALSE
    <2>1. CommandEff(t)
      BY <1>2 DEF ToolEff, CommitDoneEff, DownEff, GoesTo, TakesForDone
    <2>2. job'[t].end \in Nat /\ position \in Nat
      BY <1>1, <2>1 DEF CommandEff, Quiet, Moves, JobsOK, Job, BaseOK
    <2> QED BY <1>2, <2>1, <2>2 DEF CommandEff, TakesForDone
  <1> QED BY <1>1, <1>2, OtherTools DEF Passed

\* The tool's other steps.
LEMMA ToolOwes ==
    ASSUME OKs, RecordsStay, NEW t \in Tool, ToolEff(t), ~ProcessEff(t), NEW e \in Event, Owed(e)
    PROVE  Owed(e)'
  <1> USE DEF OKs
  <1>w. t \in Worker /\ t \notin Consumer
    BY Workers
  <1>1. /\ Stays(t) /\ Others(t) /\ keys' = keys /\ handled' = handled /\ lost' = lost
        /\ dlq' = dlq /\ dropped \subseteq dropped' /\ forsaken \subseteq forsaken'
    BY <1>w, OthersStay DEF ToolEff, CommandEff, CommitDoneEff, DownEff, Quiet, Moves,
                            SameMarks, SameDead, Counts
  <1>2. Keeping(e) /\ (e \in keys => Owed(e)')
    BY <1>1 DEF Keeping, Owed
  <1>3. ASSUME NEW k \in Nat, position <= k, ~Passed(k) PROVE ~Passed(k)'
    BY <1>3, ToolPasses
  <1>4. \A k \in 1..Len(dlq) : Waits(k, e) => Owed(e)'
    <2> SUFFICES ASSUME NEW k \in 1..Len(dlq), Waits(k, e) PROVE Owed(e)'
      OBVIOUS
    <2>0. Len(dlq) \in Nat /\ position \in Nat
      BY DEF BaseOK
    <2>p. ~Passed(k)'
      BY <1>3, <2>0 DEF Waits
    <2>1. CASE position' = position
      BY <2>p, <2>1, WaitsStays
    <2>2. CASE position' # position
      <3>1. CommitDoneEff(t) /\ MarksDone(job[t]) /\ position' = job[t].pos
        BY <2>2 DEF ToolEff, CommandEff, CommitDoneEff, DownEff, Quiet, SameDead
      <3>2. /\ job[t].pos \in Nat /\ job[t].end \in Nat /\ job[t].from \in Nat
            /\ job[t].pos <= job[t].end + 1 /\ job[t].end <= Len(dlq)
            /\ job[t].kind = "drop" => job[t].pos = job[t].end + 1
            /\ job[t].pc = "commit"
        BY <1>w, <3>1, JobFields DEF CommitDoneEff, PlacesOK, ToolOK
      <3>3. dlq[k].event = e /\ dlq[k].ours /\ ~TakesForDone(t, k)
        BY DEF Waits, Passed
      <3>f. job[t].from <= k
        BY <2>0, <3>2, <3>3 DEF TakesForDone
      <3>4. CASE k >= job[t].pos
        <4>1. Waits(k, e)'
          BY <1>1, <2>p, <3>1, <3>3, <3>4, <2>0 DEF Waits
        <4> QED BY <1>1, <4>1 DEF Owed
      <3>5. CASE k < job[t].pos /\ job[t].kind = "drop"
        <4>1. k \in dropped'
          BY <2>0, <3>1, <3>2, <3>f, <3>5 DEF CommitDoneEff
        <4>2. Dropped(e)'
          BY <1>1, <3>3, <4>1 DEF Dropped
        <4> QED BY <4>2 DEF Owed
      <3>6. CASE k < job[t].pos /\ job[t].kind # "drop"
        <4>1. job[t].kind = "one" /\ k # job[t].end
          BY <3>2, <3>3, <3>6 DEF TakesForDone
        <4>2. k \in job[t].from..job[t].end - 1
          BY <2>0, <3>2, <3>f, <3>6, <4>1
        <4> QED BY <3>1, <3>3, <4>1, <4>2 DEF MarksDone
      <3> QED BY <2>0, <3>2, <3>4, <3>5, <3>6
    <2> QED BY <2>1, <2>2
  <1> QED BY <1>w, <1>1, <1>2, <1>4, OwedKept

\* Every effect keeps somebody who answers for the event.
LEMMA OwedStays ==
    ASSUME OKs, RecordsStay, Effect, NEW e \in Event, Owed(e)
    PROVE  Owed(e)' \/ Left(e)
  <1>1. CASE EvictEff \/ AppendEff \/ IdleEff \/ \E x \in Event : ExpireEff(x)
    <2>1. /\ job' = job /\ position' = position /\ dropped' = dropped
          /\ forsaken \subseteq forsaken'
      BY <1>1 DEF EvictEff, AppendEff, IdleEff, ExpireEff, SameDead, Counts
    <2>2. Others(Nobody) /\ Stays(Nobody) /\ Nobody \notin Tool /\ Nobody \notin Consumer
      BY <2>1, OthersStay, Workers DEF Others
    <2>3. Keeping(e) /\ (e \in keys => Owed(e)')
      <3>1. CASE SameMarks
        BY <2>1, <3>1 DEF Keeping, Owed, SameMarks
      <3>2. ASSUME NEW x \in Event, ExpireEff(x) PROVE Keeping(e) /\ (e \in keys => Owed(e)')
        BY <2>1, <3>2 DEF ExpireEff, Keeping, Owed, OKs, BaseOK
      <3> QED BY <1>1, <3>1, <3>2 DEF EvictEff, AppendEff, IdleEff
    <2>4. \A k \in 1..Len(dlq) : Waits(k, e) => Owed(e)'
      <3> SUFFICES ASSUME NEW k \in 1..Len(dlq), Waits(k, e) PROVE Owed(e)'
        OBVIOUS
      <3>1. ~Passed(k)'
        BY <2>2, SameTools DEF Waits
      <3> QED BY <2>1, <3>1, WaitsStays DEF OKs
    <2> QED BY <2>2, <2>3, <2>4, OwedKept DEF OKs
  <1> QED BY <1>1, ProcessOwes, ConsumerOwes, ToolOwes, Workers DEF Effect, ConsumerEff, ToolEff

\* Only an owner that is not stopping moves the commit, to where it is.
LEMMA CommitMoves ==
    ASSUME Effect
    PROVE  \/ committed' = committed
           \/ \E c \in Consumer :
                /\ owner = c /\ owner' = c /\ c \notin stopping
                /\ committed' = job[c].pos /\ job'[c].pos = job[c].pos /\ log' = log
  BY DEF Effect, ConsumerEff, ToolEff, ProcessEff, GivesUpEff, SkipEff, ClaimEff, ClaimErrorEff,
         SucceedsEff, FailsEff, ForgetEff, PollEff, ParkEff, LoseEff, CommitEff, AssignEff, RebalanceEff,
         GoneEff, StartEff, CommandEff, CommitDoneEff, DownEff, EvictEff, AppendEff, IdleEff, ExpireEff,
         Quiet, SameGroup, SameTopic, GoesTo

\* What is answered for stays so: a commit moves past a redelivered event only
\* when somebody else answers for it.
LEMMA AnsweredStays ==
    ASSUME OKs, RecordsStay, BaseOK', Effect, EarnInv, NEW e \in Event, Answered(e)
    PROVE  Answered(e)'
  <1> USE DEF OKs
  <1>1. ASSUME Owed(e) PROVE Answered(e)'
    BY <1>1, OwedStays DEF Answered, Left
  <1>2. ASSUME NEW j \in committed..Len(log), log[j] = e PROVE Answered(e)'
    <2>0. committed \in Nat /\ committed >= 1 /\ committed' \in Nat
          /\ Len(log) \in Nat /\ Len(log') \in Nat /\ Len(log) <= Len(log')
      <3>1. Len(log) \in Nat /\ Len(log') \in Nat /\ Len(log) <= Len(log')
        <4>1. log \in Seq(Event) /\ log' \in Seq(Event)
          BY DEF BaseOK
        <4>2. Len(log) <= Len(log')
          BY DEF RecordsStay
        <4> QED BY <4>1, <4>2
      <3>2. committed \in 1..Len(log) + 1 /\ committed' \in 1..Len(log') + 1
        BY DEF BaseOK
      <3> QED BY <3>1, <3>2
    <2>1. j \in 1..Len(log) /\ log'[j] = e
      BY <1>2, <2>0 DEF RecordsStay
    <2>2. CASE j >= committed'
      <3>1. j \in committed'..Len(log')
        BY <2>0, <2>1, <2>2
      <3> QED BY <2>1, <3>1 DEF Answered, Redelivered
    <2>3. CASE j < committed'
      <3>1. PICK c \in Consumer : owner = c /\ c \notin stopping /\ committed' = job[c].pos
        BY <2>0, <2>3, CommitMoves
      <3>2. j \in committed..job[c].pos - 1
        BY <2>0, <2>3, <3>1
      <3> QED BY <1>1, <1>2, <3>1, <3>2 DEF EarnInv
    <2> QED BY <2>0, <2>2, <2>3
  <1> QED BY <1>1, <1>2 DEF Answered, Redelivered

\* Every record of ours that the position passes, or the replay, is answered
\* for.
LEMMA PassingAnswers ==
    ASSUME OKs, RecordsStay, BaseOK', Effect, EarnInv,
           NEW k \in 1..Len(dlq'), dlq'[k].ours, k < position' \/ Passed(k)'
    PROVE  Answered(dlq[k].event)'
  <1> USE DEF OKs
  <1>0. Len(dlq) \in Nat /\ Len(dlq') \in Nat /\ Len(dlq) <= Len(dlq') /\ k \in Nat /\ k >= 1
        /\ position \in Nat /\ position <= Len(dlq) + 1
    BY DEF BaseOK, RecordsStay
  <1>1. SUFFICES ASSUME NEW e \in Event, e = dlq'[k].event PROVE Answered(e)'
    <2>1. dlq'[k] \in DeadLetter
      BY DEF RecordsStay
    <2>2. dlq'[k].event \in Event
      BY <2>1 DEF DeadLetter
    <2> QED BY <1>1, <2>2
  <1>2. ASSUME k <= Len(dlq), k < position \/ Passed(k) PROVE Answered(e)'
    <2>1. k \in 1..Len(dlq) /\ dlq'[k] = dlq[k]
      BY <1>0, <1>2 DEF RecordsStay
    <2>2. Answered(e)
      BY <1>1, <1>2, <2>1 DEF EarnInv
    <2> QED BY <2>2, AnsweredStays
  <1>3. ASSUME position' = position, \A n : Passed(n)' => Passed(n) PROVE Answered(e)'
    <2>1. k < position \/ Passed(k)
      BY <1>3
    <2>2. k <= Len(dlq)
      <3>1. CASE k < position
        BY <1>0, <3>1
      <3>2. ASSUME NEW t \in Tool, TakesForDone(t, k) PROVE k <= Len(dlq)
        <4>1. /\ job[t].from \in Nat /\ job[t].pos \in Nat /\ job[t].end \in Nat
              /\ job[t].from <= job[t].pos /\ job[t].pos <= job[t].end + 1 /\ job[t].end <= Len(dlq)
          BY <3>2, JobFields, Workers DEF TakesForDone, PlacesOK, ToolOK
        <4> QED BY <1>0, <3>2, <4>1 DEF TakesForDone
      <3> QED BY <2>1, <3>1, <3>2 DEF Passed
    <2> QED BY <1>2, <2>1, <2>2
  <1>4. ASSUME NEW w \in Worker \cup {Nobody}, Others(w), w \notin Tool, position' = position
        PROVE  Answered(e)'
    BY <1>3, <1>4, SameTools
  <1>5. CASE EvictEff \/ AppendEff \/ IdleEff \/ \E x \in Event : ExpireEff(x)
    <2>1. job' = job /\ position' = position
      BY <1>5 DEF EvictEff, AppendEff, IdleEff, ExpireEff, SameDead
    <2> QED BY <1>4, <2>1, Workers DEF Others
  <1>6. ASSUME NEW c \in Consumer, ConsumerEff(c) PROVE Answered(e)'
    <2>1. Others(c) /\ position' = position
      BY <1>6
      DEF ConsumerEff, ProcessEff, GivesUpEff, SkipEff, ClaimEff, ClaimErrorEff, SucceedsEff,
          FailsEff,
          ForgetEff, PollEff, ParkEff, LoseEff, CommitEff, AssignEff, RebalanceEff, GoneEff, StartEff,
          Quiet, Moves, SameDead
    <2> QED BY <1>4, <2>1, Workers
  <1>7. ASSUME NEW t \in Tool, ToolEff(t) PROVE Answered(e)'
    <2>w. t \in Worker /\ t \notin Consumer /\ Others(t)
      BY <1>7, Workers
      DEF ToolEff, ProcessEff, GivesUpEff, SkipEff, ClaimEff, ClaimErrorEff, SucceedsEff,
          FailsEff,
          ForgetEff, CommandEff, CommitDoneEff, DownEff, Quiet, Moves
    <2>1. CASE ProcessEff(t)
      <3>1. position' = position /\ Kept(t) /\ job[t].pc \in {"claim", "handle", "forget"} /\ dlq' = dlq
        BY <2>1
        DEF ProcessEff, GivesUpEff, SkipEff, ClaimEff, ClaimErrorEff, SucceedsEff, FailsEff,
            ForgetEff, Quiet,
            Moves, SameDead, Advances
      <3>2. CASE job'[t].pos = job[t].pos
        <4>1. \A n : TakesForDone(t, n)' => TakesForDone(t, n)
          BY <3>1, <3>2 DEF TakesForDone, Kept
        <4>2. \A n : Passed(n)' => Passed(n)
          BY <2>w, <4>1, OtherTools DEF Passed
        <4> QED BY <1>3, <3>1, <4>2
      <3>3. CASE job'[t].pos # job[t].pos
        <4>1. SkipEff(t) \/ SucceedsEff(t)
          BY <2>1, <3>3 DEF ProcessEff, GivesUpEff, ClaimEff, ClaimErrorEff, FailsEff,
                            ForgetEff, GoesTo
        <4>2. job[t].pos \in Nat /\ job'[t].pos = job[t].pos + 1
          BY <2>w, <4>1, JobFields DEF SkipEff, SucceedsEff, Advances, GoesTo
        <4>3. CASE k = job[t].pos
          <5>1. e = InHand(t) /\ dlq[k].ours
            BY <1>1, <2>w, <3>1, <4>3, HandIsEvent DEF Active
          <5>2. CASE SkipEff(t)
            BY <4>3, <5>1, <5>2 DEF SkipEff, Quiet, SameMarks, Owed, Answered
          <5>3. CASE SucceedsEff(t)
            <6>1. handled'[e] = handled[e] + 1 /\ handled[e] \in Nat
              BY <5>1, <5>3 DEF SucceedsEff, BaseOK
            <6> QED BY <6>1 DEF Owed, Answered
          <5> QED BY <4>1, <5>2, <5>3
        <4>4. CASE k # job[t].pos
          <5>1. TakesForDone(t, k)' => TakesForDone(t, k)
            BY <1>0, <3>1, <4>2, <4>4 DEF TakesForDone, Kept
          <5>2. k < position \/ Passed(k)
            BY <2>w, <3>1, <5>1, OtherTools DEF Passed
          <5> QED BY <1>0, <1>2, <3>1, <5>2
        <4> QED BY <4>3, <4>4
      <3> QED BY <3>2, <3>3
    <2>2. CASE ~ProcessEff(t)
      <3>1. dlq' = dlq /\ (Passed(k)' => k < position \/ Passed(k))
        <4>1. dlq' = dlq
          BY <1>7, <2>2 DEF ToolEff, CommandEff, CommitDoneEff, DownEff, Quiet, SameDead
        <4>2. ASSUME Passed(k)', position <= k PROVE Passed(k)
          BY <1>0, <1>7, <2>2, <4>2, ToolPasses
        <4> QED BY <1>0, <4>1, <4>2
      <3>2. CASE k < position \/ Passed(k)
        BY <1>0, <1>2, <3>1, <3>2
      <3>3. CASE ~(k < position \/ Passed(k))
        <4>0. k < position'
          BY <3>1, <3>3
        <4>1. CommitDoneEff(t) /\ MarksDone(job[t]) /\ position' = job[t].pos
          <5>1. position' # position
            BY <3>3, <4>0
          <5>2. CommitDoneEff(t)
            BY <1>7, <2>2, <5>1 DEF ToolEff, CommandEff, DownEff, Quiet, SameDead
          <5> QED BY <5>1, <5>2 DEF CommitDoneEff
        <4>2. /\ job[t].pos \in Nat /\ job[t].end \in Nat /\ job[t].from \in Nat
              /\ job[t].pos <= job[t].end + 1 /\ job[t].end <= Len(dlq)
              /\ job[t].pc = "commit"
          BY <2>w, <4>1, JobFields DEF CommitDoneEff, PlacesOK, ToolOK
        <4>f. job[t].from <= k
          BY <1>0, <3>3, <4>2 DEF Passed, TakesForDone
        <4>3. k < job[t].pos
          BY <4>0, <4>1
        <4>4. CASE job[t].kind = "drop"
          <5>1. k \in dropped'
            BY <1>0, <4>f, <4>1, <4>2, <4>3, <4>4 DEF CommitDoneEff
          <5>2. Dropped(e)'
            BY <1>1, <5>1 DEF Dropped
          <5> QED BY <5>2 DEF Owed, Answered
        <4>5. CASE job[t].kind # "drop" /\ (job[t].kind = "one" => k = job[t].end)
          BY <3>3, <4>2, <4>3, <4>5 DEF TakesForDone, Passed
        <4>6. CASE job[t].kind = "one" /\ k # job[t].end
          <5>1. k \in job[t].from..job[t].end - 1
            BY <1>0, <4>f, <4>2, <4>3, <4>6
          <5> QED BY <3>1, <4>1, <4>6, <5>1 DEF MarksDone
        <4> QED BY <4>4, <4>5, <4>6
      <3> QED BY <1>0, <3>2, <3>3
    <2> QED BY <2>1, <2>2
  <1> QED BY <1>5, <1>6, <1>7 DEF Effect

\* The record in hand of an owner that is not stopping is answered for when
\* it goes on to the next.
LEMMA AdvanceOwes ==
    ASSUME OKs, RecordsStay, NEW c \in Consumer, owner' = c, c \notin stopping',
           SkipEff(c) \/ SucceedsEff(c) \/ ParkEff(c) \/ LoseEff(c), NEW e \in Event, e = InHand(c)
    PROVE  Owed(e)'
  <1> USE DEF OKs
  <1>w. c \in Worker /\ c \notin Tool
    BY Workers
  <1>1. CASE SkipEff(c)
    BY <1>1, <1>w DEF SkipEff, Quiet, SameMarks, Owed
  <1>2. CASE SucceedsEff(c)
    <2>1. handled'[e] = handled[e] + 1 /\ handled[e] \in Nat
      BY <1>2 DEF SucceedsEff, BaseOK
    <2> QED BY <2>1 DEF Owed
  <1>3. CASE ParkEff(c) \/ LoseEff(c)
    <2>1. Failing(c, e)
      BY <1>3 DEF ParkEff, LoseEff, Failing
    <2>2. Owed(e)
      BY <2>1 DEF Owed
    <2>3. ConsumerEff(c) /\ ~ProcessEff(c)
      BY <1>3 DEF ConsumerEff, ParkEff, LoseEff, ProcessEff, GivesUpEff, SkipEff, ClaimEff,
                  ClaimErrorEff,
                  SucceedsEff, FailsEff, ForgetEff
    <2>4. Owed(e)' \/ Left(e)
      BY <2>2, <2>3, ConsumerOwes
    <2> QED BY <2>4 DEF Left
  <1> QED BY <1>1, <1>2, <1>3

\* Every effect keeps what is known of the tool's position.
LEMMA EarnStays ==
    ASSUME OKs, RecordsStay, BaseOK', Effect, EarnInv
    PROVE  EarnInv'
  <1> USE DEF OKs
  <1>0. Len(log) \in Nat /\ committed \in Nat /\ committed >= 1 /\ committed' \in Nat
    BY DEF BaseOK
  <1>1. \A k \in 1..Len(dlq') : dlq'[k].ours /\ (k < position' \/ Passed(k)') => Answered(dlq[k].event)'
    BY PassingAnswers
  <1>2. ASSUME NEW c \in Consumer, owner' = c, c \notin stopping'
        PROVE  \A j \in committed'..job'[c].pos - 1 : Owed(log[j])'
    <2>w. c \in Worker /\ c # Nobody /\ c \notin Tool
      BY Workers
    <2>1. ASSUME owner = c, c \notin stopping, NEW j \in committed..job[c].pos - 1
          PROVE  Owed(log[j])'
      <3>1. job[c].pos \in Nat /\ job[c].pos <= Len(log) + 1
        BY <2>w, JobFields DEF PlacesOK, ConsumerOK
      <3>2. j \in 1..Len(log)
        BY <1>0, <3>1
      <3>3. log[j] \in Event /\ log'[j] = log[j] /\ Owed(log[j])
        <4>1. log[j] \in Event
          BY <3>2 DEF BaseOK
        <4>2. log'[j] = log[j]
          BY <3>2 DEF RecordsStay
        <4>3. Owed(log[j])
          BY <2>1 DEF EarnInv
        <4> QED BY <4>1, <4>2, <4>3
      <3>4. ASSUME NEW e \in Event, e = log[j] PROVE Owed(e)'
        BY <1>2, <3>3, <3>4, OwedStays DEF Left
      <3>5. \A e \in Event : e = log'[j] => Owed(e)'
        BY <3>3, <3>4
      <3>6. log'[j] \in Event
        BY <3>3
      <3> QED BY <3>5, <3>6
    <2>2. ASSUME owner = c, c \notin stopping, job'[c].pos = job[c].pos
          PROVE  \A j \in committed'..job'[c].pos - 1 : Owed(log[j])'
      <3>1. job[c].pos \in Nat
        BY <2>w, JobFields
      <3>2. CASE committed' = committed
        BY <2>1, <2>2, <3>2
      <3>3. CASE committed' # committed
        <4>1. committed' = job[c].pos
          BY <2>2, <3>3, CommitMoves
        <4> QED BY <2>2, <3>1, <4>1
      <3> QED BY <3>2, <3>3
    <2>3. ASSUME NEW w \in Worker, Others(w), w # c, owner' \in {owner, Nobody, w}, stopping \subseteq stopping' \cup {w}
          PROVE  \A j \in committed'..job'[c].pos - 1 : Owed(log[j])'
      <3>1. owner = c /\ c \notin stopping /\ job'[c] = job[c]
        BY <1>2, <2>3, <2>w DEF Others
      <3> QED BY <2>2, <3>1
    <2>4. ASSUME NEW t \in Tool, ToolEff(t)
          PROVE  \A j \in committed'..job'[c].pos - 1 : Owed(log[j])'
      <3>1. t \in Worker /\ t # c /\ Others(t) /\ SameGroup
        BY <2>4, <2>w, Workers
        DEF ToolEff, ProcessEff, GivesUpEff, SkipEff, ClaimEff, ClaimErrorEff, SucceedsEff,
            FailsEff,
            ForgetEff, CommandEff, CommitDoneEff, DownEff, Quiet, Moves
      <3> QED BY <2>3, <3>1 DEF SameGroup
    <2>5. ASSUME NEW d \in Consumer, ConsumerEff(d), d # c
          PROVE  \A j \in committed'..job'[c].pos - 1 : Owed(log[j])'
      <3>1. d \in Worker /\ Others(d) /\ owner' \in {owner, Nobody, d} /\ stopping \subseteq stopping' \cup {d}
        BY <2>5, Workers
        DEF ConsumerEff, ProcessEff, GivesUpEff, SkipEff, ClaimEff, ClaimErrorEff, SucceedsEff,
            FailsEff,
            ForgetEff, PollEff, ParkEff, LoseEff, CommitEff, AssignEff, RebalanceEff, GoneEff, StartEff,
            Quiet, Moves, SameGroup
      <3> QED BY <2>3, <2>5, <3>1
    <2>6. CASE EvictEff \/ AppendEff \/ IdleEff \/ \E e \in Event : ExpireEff(e)
      <3>1. owner = c /\ c \notin stopping /\ job' = job
        BY <1>2, <2>6, <2>w DEF EvictEff, AppendEff, IdleEff, ExpireEff, SameGroup
      <3> QED BY <2>2, <3>1
    <2>7. CASE ConsumerEff(c)
      <3>1. CASE AssignEff(c)
        <4>1. job'[c].pos = committed /\ committed' = committed
          BY <3>1 DEF AssignEff, GoesTo
        <4> QED BY <1>0, <4>1
      <3>2. CASE RebalanceEff(c) \/ GoneEff(c)
        BY <1>2, <3>2, <2>w DEF RebalanceEff, GoneEff
      <3>3. CASE StartEff(c)
        <4>1. job'[c].pos = 1 /\ committed' = committed
          BY <3>3 DEF StartEff, GoesTo, Quiet, SameGroup
        <4> QED BY <1>0, <4>1
      <3>4. CASE GivesUpEff(c) \/ ClaimEff(c) \/ ClaimErrorEff(c) \/ FailsEff(c) \/ ForgetEff(c)
                 \/ PollEff(c) \/ CommitEff(c)
        <4>1. owner = c /\ c \notin stopping /\ job'[c].pos = job[c].pos
          BY <1>2, <3>4
          DEF GivesUpEff, ClaimEff, ClaimErrorEff, FailsEff, ForgetEff, PollEff, CommitEff,
              Quiet, SameGroup,
              GoesTo
        <4> QED BY <2>2, <4>1
      <3>5. CASE SkipEff(c) \/ SucceedsEff(c) \/ ParkEff(c) \/ LoseEff(c)
        <4>1. owner = c /\ c \notin stopping /\ job'[c].pos = job[c].pos + 1 /\ job[c].pc \in Active
              /\ committed' = committed
          BY <1>2, <3>5 DEF SkipEff, SucceedsEff, ParkEff, LoseEff, Quiet, SameGroup, Advances,
                            GoesTo, Active
        <4>2. job[c].pos \in 1..Len(log) /\ InHand(c) = log[job[c].pos] /\ InHand(c) \in Event
          BY <2>w, <4>1, HandIsEvent
        <4>3. \A e \in Event : e = InHand(c) => Owed(e)'
          BY <1>2, <3>5, AdvanceOwes
        <4>4. log'[job[c].pos] = InHand(c)
          BY <4>2 DEF RecordsStay
        <4>5. \A j \in committed..job[c].pos - 1 : Owed(log[j])'
          BY <2>1, <4>1
        <4>6. ASSUME NEW j \in committed'..job'[c].pos - 1 PROVE Owed(log[j])'
          <5>1. job[c].pos \in Nat /\ (j \in committed..job[c].pos - 1 \/ j = job[c].pos)
            BY <1>0, <4>1, <4>2
          <5>2. CASE j = job[c].pos
            <6>1. log'[j] = InHand(c)
              BY <4>4, <5>2
            <6>2. \A e \in Event : e = log'[j] => Owed(e)'
              BY <4>3, <6>1
            <6>3. log'[j] \in Event
              BY <4>2, <6>1
            <6> QED BY <6>2, <6>3
          <5> QED BY <4>5, <5>1, <5>2
        <4> QED BY <4>6
      <3> QED BY <2>7, <3>1, <3>2, <3>3, <3>4, <3>5 DEF ConsumerEff, ProcessEff
    <2> QED BY <2>4, <2>5, <2>6, <2>7 DEF Effect
  <1> QED BY <1>1, <1>2 DEF EarnInv

-----------------------------------------------------------------------------
(* The theorems. *)

\* The invariants hold at the start.
LEMMA InitInv == Init => ConsumerInv /\ EarnInv
  <1> SUFFICES ASSUME Init PROVE ConsumerInv /\ EarnInv
    OBVIOUS
  <1>1. Len(log) = 0 /\ Len(dlq) = 0 /\ log \in Seq(Event) /\ dlq \in Seq(DeadLetter)
    BY DEF Init
  <1>2. BaseOK /\ CountersOK
    BY <1>1, ConsumerAssumption DEF Init, BaseOK, CountersOK
  <1>3. JobsOK /\ \A w \in Worker : /\ job[w].pc \in {"idle", "down"} /\ job[w].pos = 1 /\ job[w].key = FALSE
                                    /\ w \in Tool => job[w].pc = "down"
    BY IdleJobs, Workers DEF Init, JobsOK
  <1>4. PlacesOK
    <2>1. ASSUME NEW c \in Consumer PROVE ConsumerOK(c)
      <3>1. c \in Worker /\ owner # c
        BY Workers DEF Init
      <3> QED BY <1>1, <1>3, <3>1 DEF ConsumerOK, Active
    <2>2. ASSUME NEW t \in Tool PROVE ToolOK(t)
      <3>1. job[t].pc = "down"
        BY <1>3, Workers
      <3> QED BY <3>1 DEF ToolOK, Active
    <2> QED BY <2>1, <2>2 DEF PlacesOK
  <1>5. HandsOK
    BY <1>3 DEF HandsOK, HandOK
  <1>7. CountInv
    <2> SUFFICES ASSUME NEW e \in Event PROVE RunsOK(e)
      BY DEF CountInv
    <2>1. Runners(e) = {}
      BY <1>3 DEF Runners, Running
    <2>2. Cardinality(Runners(e)) = 0 /\ handled[e] = 0 /\ slips[e] = 0
      BY <2>1, FS_EmptySet DEF Init
    <2> QED BY <2>2 DEF RunsOK
  <1>8. DoneInv
    BY ConsumerAssumption DEF Init, DoneInv, Worker
  <1>9. EarnInv
    BY <1>1, ConsumerAssumption DEF Init, EarnInv, Worker
  <1> QED BY <1>2, <1>3, <1>4, <1>5, <1>7, <1>8, <1>9 DEF ConsumerInv

\* The inductive invariant of the consumers holds in every reachable state.
THEOREM ConsumerInvariance == Spec => []ConsumerInv
  <1>1. Init => ConsumerInv
    BY InitInv
  <1>2. ASSUME ConsumerInv, [Next]_vars PROVE ConsumerInv'
    <2>1. OKs /\ CountInv /\ DoneInv
      BY <1>2 DEF ConsumerInv, OKs
    <2>2. Effect
      BY <1>2, <2>1, NextDoes
    <2>3. BaseOK' /\ RecordsStay
      BY <2>1, <2>2, BaseStays
    <2>4. JobsOK' /\ CountersOK' /\ PlacesOK' /\ HandsOK'
      BY <2>1, <2>2, <2>3, PlacesStay
    <2>5. CountInv'
      BY <2>1, <2>2, <2>3, CountStays
    <2>6. DoneInv'
      BY <2>1, <2>2, <2>3, DoneStays
    <2> QED BY <2>3, <2>4, <2>5, <2>6 DEF ConsumerInv
  <1> QED BY <1>1, <1>2, PTL DEF Spec

\* Every variable has its type; the commit and the tool's position in
\* particular stay within their logs.
THEOREM TypeCorrect == Spec => []TypeOK
  <1>1. ConsumerInv => TypeOK
    <2> SUFFICES ASSUME ConsumerInv PROVE TypeOK
      OBVIOUS
    <2>1. BaseOK /\ CountersOK /\ JobsOK
      BY DEF ConsumerInv
    <2>2. DOMAIN dlq = 1..Len(dlq) /\ Len(log) \in Nat /\ Len(dlq) \in Nat
      BY <2>1 DEF BaseOK
    <2>3. committed \in 1..MaxLog + 1
      BY <2>1, <2>2, ConsumerAssumption DEF BaseOK
    <2>4. upsets + errors \in 0..MaxFaults
      BY <2>1, ConsumerAssumption DEF CountersOK
    <2> QED BY <2>1, <2>2, <2>3, <2>4
            DEF BaseOK, CountersOK, JobsOK, TypeOK, StreamTypeOK, DeadLetter
  <1> QED BY <1>1, ConsumerInvariance, PTL

\* The handler succeeds once per event, and once more for each time that the
\* dedupe check of the event failed or its key ran out: for any workers,
\* redeliveries, evictions, deaths and replays.
THEOREM SucceedsOnce == Spec => []HandledOnce
  <1>1. ConsumerInv => HandledOnce
    <2> SUFFICES ASSUME ConsumerInv, NEW e \in Event PROVE handled[e] <= 1 + slips[e]
      BY DEF HandledOnce
    <2>1. handled[e] \in Nat /\ slips[e] \in Nat /\ RunsOK(e)
      BY DEF ConsumerInv, BaseOK, CountInv
    <2>2. Cardinality(Runners(e)) \in Nat
      BY SomeWorkers DEF Runners
    <2> QED BY <2>1, <2>2 DEF RunsOK
  <1> QED BY <1>1, ConsumerInvariance, PTL

\* An event whose key is there was handled, is under way or is orphaned.
LEMMA KeyedIsKnown ==
    ASSUME BaseOK, NEW e \in keys
    PROVE  handled[e] > 0 \/ UnderWay(e) \/ Orphaned(e)
  BY DEF Orphaned, BaseOK

\* A record to be parked is under way.
LEMMA FailingIsUnderWay ==
    ASSUME NEW e, NEW c \in Consumer, Failing(c, e)
    PROVE  UnderWay(e)
  BY Workers DEF Failing, UnderWay

\* What the group committed past was handled, is being handled or is parked,
\* but for the orphaned key and the record that could not be parked.
THEOREM CommitsAreDone == Spec => []CommittedIsDone
  <1>1. ConsumerInv => CommittedIsDone
    <2> SUFFICES ASSUME ConsumerInv, NEW i \in 1..committed - 1
                 PROVE  \/ handled[log[i]] > 0 \/ Parked(log[i]) \/ UnderWay(log[i])
                        \/ Orphaned(log[i]) \/ log[i] \in lost
      BY DEF CommittedIsDone
    <2>1. BaseOK /\ Vouched(log[i])
      BY DEF ConsumerInv, DoneInv
    <2>2. CASE Settled(log[i])
      BY <2>2, FailingIsUnderWay DEF Settled
    <2>3. CASE log[i] \in keys
      BY <2>1, <2>3, KeyedIsKnown
    <2> QED BY <2>1, <2>2, <2>3 DEF Vouched
  <1> QED BY <1>1, ConsumerInvariance, PTL

\* Whatever tools are run at the same time, and whatever their commands, the
\* position passes a record this service parked only when somebody answers
\* for it, or its replay was forsaken.
THEOREM PositionEarned == Spec => []PositionIsEarned
  <1>1. Init => EarnInv
    BY InitInv
  <1>2. ASSUME ConsumerInv, EarnInv, [Next]_vars PROVE EarnInv'
    <2>1. OKs
      BY <1>2 DEF ConsumerInv, OKs
    <2>2. Effect
      BY <1>2, <2>1, NextDoes
    <2>3. BaseOK' /\ RecordsStay
      BY <2>1, <2>2, BaseStays
    <2> QED BY <1>2, <2>1, <2>2, <2>3, EarnStays
  <1>3. ConsumerInv /\ EarnInv => PositionIsEarned
    <2> SUFFICES ASSUME ConsumerInv, EarnInv, NEW i \in 1..position - 1, dlq[i].ours
                 PROVE  LET e == dlq[i].event IN
                        \/ handled[e] > 0 \/ \E k \in dropped : dlq[k] = dlq[i]
                        \/ Orphaned(e) \/ UnderWay(e) \/ e \in lost \/ e \in forsaken
                        \/ \E j \in committed..Len(log) : log[j] = e
                        \/ \E j \in position..Len(dlq) : dlq[j] = dlq[i]
      BY DEF PositionIsEarned
    <2> DEFINE e == dlq[i].event
    <2>1. BaseOK /\ position \in Nat /\ Len(dlq) \in Nat /\ position <= Len(dlq) + 1
      BY DEF ConsumerInv, BaseOK
    <2>2. i \in 1..Len(dlq) /\ i < position
      BY <2>1
    <2>3. Answered(e)
      BY <2>2 DEF EarnInv
    <2>4. ASSUME NEW k \in 1..Len(dlq), dlq[k].event = e, dlq[k].ours PROVE dlq[k] = dlq[i]
      <3>1. dlq[k] \in DeadLetter /\ dlq[i] \in DeadLetter
        BY <2>1, <2>2 DEF BaseOK
      <3>2. dlq[k].ours = dlq[i].ours
        BY <2>4, <3>1 DEF DeadLetter
      <3> QED BY <2>4, <3>1, <3>2 DEF DeadLetter
    <2>5. CASE e \in keys
      BY <2>1, <2>5, KeyedIsKnown
    <2>6. CASE Dropped(e)
      <3>1. PICK k \in dropped : dlq[k].event = e /\ dlq[k].ours
        BY <2>6 DEF Dropped
      <3>2. k \in 1..Len(dlq)
        BY <2>1, <3>1 DEF BaseOK
      <3> QED BY <2>4, <3>1, <3>2
    <2>7. ASSUME NEW k \in 1..Len(dlq), Waits(k, e)
          PROVE  \E j \in position..Len(dlq) : dlq[j] = dlq[i]
      <3>1. k \in position..Len(dlq) /\ dlq[k].event = e /\ dlq[k].ours
        BY <2>1, <2>7 DEF Waits
      <3> QED BY <2>4, <3>1
    <2>8. ASSUME NEW c \in Consumer, Failing(c, e) PROVE UnderWay(e)
      BY <2>8, FailingIsUnderWay
    <2>9. CASE Redelivered(e)
      BY <2>9 DEF Redelivered
    <2> HIDE DEF e
    <2> QED BY <2>3, <2>5, <2>6, <2>7, <2>8, <2>9 DEF Answered, Owed, e
  <1> QED BY <1>1, <1>2, <1>3, ConsumerInvariance, PTL DEF Spec

-----------------------------------------------------------------------------
(* One tool at a time. *)

\* The operator runs one tool at a time.
OneTool == \A s, t \in Tool : s = t

FromOK == \A t \in Tool : job[t].pc # "down" => job[t].from = position

\* The tool works from the position.
LEMMA FromStays ==
    ASSUME OneTool, FromOK, Effect
    PROVE  FromOK'
  <1> SUFFICES ASSUME NEW t \in Tool, job'[t].pc # "down" PROVE job'[t].from = position'
    BY DEF FromOK
  <1>1. ASSUME NEW w \in Worker, Others(w), w \notin Tool, position' = position
        PROVE  job'[t].from = position'
    <2>1. job'[t] = job[t]
      BY <1>1, Workers DEF Others
    <2> QED BY <1>1, <2>1 DEF FromOK
  <1>2. ASSUME NEW w \in Worker, ProcessEff(w) PROVE job'[t].from = position'
    <2>1. Others(w) /\ position' = position /\ Kept(w) /\ job[w].pc # "down"
      BY <1>2
      DEF ProcessEff, GivesUpEff, SkipEff, ClaimEff, ClaimErrorEff, SucceedsEff, FailsEff,
          ForgetEff, Quiet,
          Moves, SameDead, Advances
    <2>2. CASE w \in Tool
      BY <2>1, <2>2 DEF OneTool, Kept, FromOK
    <2> QED BY <1>1, <2>1, <2>2
  <1>3. ASSUME NEW c \in Consumer, ConsumerEff(c), ~ProcessEff(c) PROVE job'[t].from = position'
    <2>1. Others(c) /\ position' = position
      BY <1>3
      DEF ConsumerEff, PollEff, ParkEff, LoseEff, CommitEff, AssignEff, RebalanceEff, GoneEff,
          StartEff,
          Quiet, Moves, SameDead
    <2> QED BY <1>1, <2>1, Workers
  <1>4. ASSUME NEW s \in Tool, ToolEff(s), ~ProcessEff(s) PROVE job'[t].from = position'
    <2>1. s = t
      BY DEF OneTool
    <2> QED BY <1>4, <2>1 DEF ToolEff, CommandEff, CommitDoneEff, DownEff, Quiet, SameDead,
                              GoesTo
  <1>5. CASE EvictEff \/ AppendEff \/ IdleEff \/ \E x \in Event : ExpireEff(x)
    BY <1>5 DEF EvictEff, AppendEff, IdleEff, ExpireEff, SameDead, FromOK
  <1> QED BY <1>2, <1>3, <1>4, <1>5, Workers DEF Effect

\* Only a replay that fails adds to the forsaken events.
LEMMA ForsakenMoves ==
    ASSUME [Next]_vars
    PROVE  forsaken' = forsaken \/ \E w \in Tool : job[w].pc = "forget" /\ Forsakes(w)
  <1>1. ASSUME NEW w \in Worker, Process(w)
        PROVE  forsaken' = forsaken \/ (w \in Tool /\ job[w].pc = "forget" /\ Forsakes(w))
    BY <1>1 DEF Process, Undecodable, Claim, ClaimError, HandlerSucceeds, HandlerFails, Forget,
                ForgetError, Forsakes, dead
  <1>2. ASSUME NEW c \in Consumer, Consume(c), ~Process(c) PROVE forsaken' = forsaken
    BY <1>2 DEF Consume, Poll, Park, ParkError, LeaveUnparked, Commit, CommitError, dead
  <1>3. ASSUME NEW c \in Consumer, \/ Assign(c) \/ Rebalance(c) \/ Evict(c)
                                   \/ Stop(c) \/ Stopped(c) \/ Die(c) \/ Start(c)
        PROVE  forsaken' = forsaken
    BY <1>3 DEF Assign, Rebalance, Evict, Stop, Stopped, Die, Gone, Start, dead
  <1>4. ASSUME NEW t \in Tool, Command(t) \/ SkipForeign(t) \/ CommitDone(t) \/ CommitDoneError(t) \/ Interrupt(t)
        PROVE  forsaken' = forsaken
    BY <1>4 DEF Command, SkipForeign, CommitDone, CommitDoneError, Interrupt, dead
  <1>5. CASE Publishing \/ ParkForeign \/ CaughtUp \/ UNCHANGED vars \/ \E e \in Event : Expire(e)
    BY <1>5 DEF Publishing, ParkForeign, CaughtUp, Expire, vars, dead
  <1> QED BY <1>1, <1>2, <1>3, <1>4, <1>5, Workers DEF Next

\* An operator who runs one tool at a time forsakes nothing: then the
\* position passes a record only for the other reasons of PositionIsEarned.
THEOREM AloneForsakesNothing == ASSUME OneTool PROVE Spec => [](forsaken = {})
  <1> DEFINE Inv == FromOK /\ forsaken = {}
  <1>1. Init => Inv
    <2>1. ASSUME Init, NEW t \in Tool PROVE job[t].pc = "down"
      BY <2>1, IdleJobs, Workers DEF Init
    <2> QED BY <2>1 DEF Init, FromOK
  <1>2. ASSUME ConsumerInv, Inv, [Next]_vars PROVE Inv'
    <2>1. OKs
      BY <1>2 DEF ConsumerInv, OKs
    <2>2. FromOK'
      BY <1>2, <2>1, NextDoes, FromStays
    <2>3. ASSUME NEW w \in Tool, job[w].pc = "forget" PROVE ~Forsakes(w)
      <3>1. /\ job[w].from = position /\ job[w].from <= job[w].pos /\ job[w].from \in Nat
            /\ job[w].pos \in Nat
        BY <1>2, <2>1, <2>3, JobFields, Workers DEF FromOK, OKs, PlacesOK, ToolOK
      <3>2. ~TakesForDone(w, job[w].pos)
        BY <3>1 DEF TakesForDone
      <3> QED BY <3>1, <3>2 DEF Forsakes, OneTool
    <2> QED BY <1>2, <2>2, <2>3, ForsakenMoves
  <1> QED BY <1>1, <1>2, ConsumerInvariance, PTL DEF Spec

-----------------------------------------------------------------------------
(* The topic. *)

\* Consumers and tools only read the topic: it changes as EventStream says,
\* an event at a time.
THEOREM TopicIsFed == Spec => [][\E e \in Event : Deliver(e)]_stream
  <1>1. ASSUME [Next]_vars PROVE [\E e \in Event : Deliver(e)]_stream
    <2>1. ASSUME NEW w \in Worker, Process(w) PROVE UNCHANGED stream
      BY <2>1 DEF Process, Undecodable, Claim, ClaimError, HandlerSucceeds, HandlerFails,
                  Forget,
                  ForgetError
    <2>2. ASSUME NEW c \in Consumer, Consume(c), ~Process(c) PROVE UNCHANGED stream
      BY <2>2 DEF Consume, Poll, Park, ParkError, LeaveUnparked, Commit, CommitError
    <2>3. ASSUME NEW c \in Consumer, \/ Assign(c) \/ Rebalance(c) \/ Evict(c)
                                     \/ Stop(c) \/ Stopped(c) \/ Die(c) \/ Start(c)
          PROVE  UNCHANGED stream
      BY <2>3 DEF Assign, Rebalance, Evict, Stop, Stopped, Die, Gone, Start
    <2>4. ASSUME NEW t \in Tool,
                 Command(t) \/ SkipForeign(t) \/ CommitDone(t) \/ CommitDoneError(t) \/ Interrupt(t)
          PROVE  UNCHANGED stream
      BY <2>4 DEF Command, SkipForeign, CommitDone, CommitDoneError, Interrupt
    <2>5. CASE ParkForeign \/ CaughtUp \/ UNCHANGED vars \/ \E e \in Event : Expire(e)
      BY <2>5 DEF ParkForeign, CaughtUp, Expire, vars
    <2>6. CASE Publishing
      BY <2>6 DEF Publishing
    <2> QED BY <1>1, <2>1, <2>2, <2>3, <2>4, <2>5, <2>6, Workers DEF Next
  <1> QED BY <1>1, PTL DEF Spec
=============================================================================
