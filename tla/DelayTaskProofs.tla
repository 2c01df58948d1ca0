--------------------------- MODULE DelayTaskProofs --------------------------
(***************************************************************************)
(* Proofs about DelayTask for any rows, any number of replicas, any size   *)
(* of the batch and of the pool and any timings, with every crash, stop    *)
(* and database error the model has.                                       *)
(*                                                                         *)
(* The first lemmas say field by field what a step does to the runs; the   *)
(* steps below reason from them and never expand run' themselves.          *)
(***************************************************************************)
EXTENDS DelayTask, FiniteSetTheorems, TLAPS

USE TaskAssumption, ConfigAssumption

RunsOK == run \in [Replica -> [Slot -> Run]]

RowsOK ==
    /\ status \in [Task -> Status] /\ attempts \in [Task -> 0..MaxAttempts]
    /\ age \in [Task -> 0..Stale + 1] /\ due \in [Task -> Nat]

RestOK ==
    /\ mode \in [Replica -> Mode] /\ queue \in [Replica -> SUBSET Claim]
    /\ tracked \in [Replica -> [Task -> Slot \cup {Untracked}]]
    /\ errors \in 0..MaxErrors /\ stops \in 0..MaxStops /\ crashes \in 0..MaxCrashes
    /\ claimer \in [Task -> Replica \cup {NoReplica}]

\* A run has a row; a process that is down has nothing in hand; a run whose
\* ctx ended with the poller's is one of a replica that is stopping.
RunInHand(r, s) ==
    run[r][s].phase # "idle" =>
      /\ run[r][s].task \in Task /\ mode[r] \notin {"stopped", "crashed"}
      /\ run[r][s].cause = "parent" => mode[r] = "stopping"

HandInv ==
    \A r \in Replica : /\ mode[r] \in {"stopped", "crashed"} => queue[r] = {}
                       /\ \A s \in Slot : RunInHand(r, s)

\* A row nobody scheduled has no attempt, and neither it nor one that is
\* pending is being timed.
FreshInv ==
    \A t \in Task : /\ status[t] = "absent" => attempts[t] = 0
                    /\ status[t] \in {"absent", "pending"} => age[t] = 0

Holds(r, t) ==
    \/ \E c \in queue[r] : c.task = t
    \/ \E s \in Slot : run[r][s].phase # "idle" /\ run[r][s].task = t

\* While the database takes every write, whoever claimed a running row last
\* has it in its batch or in a run, unless the process died.
HeldInv ==
    errors = 0 => \A t \in Task, r \in Replica :
        status[t] = "running" /\ claimer[t] = r => Holds(r, t)

\* The time to a run's next heartbeat is within the time it has left to hear
\* of an abort.
Heard(r, s) ==
    run[r][s].phase = "running" /\ run[r][s].cause = "none" /\ status[run[r][s].task] = "cancelled"
    => \/ age[run[r][s].task] + run[r][s].beat <= Heartbeat
       \/ run[r][s].ran + run[r][s].beat <= Heartbeat

HeardInv == Timely /\ errors = 0 => \A r \in Replica, s \in Slot : Heard(r, s)

\* The pool has a place for every long row of the batch.
LongQueued(r) == {c \in queue[r] : c.task \in Long}
BusySlots(r) == {s \in PoolSlot : run[r][s].phase # "idle"}

Room(r) == /\ IsFiniteSet(queue[r])
           /\ Cardinality(LongQueued(r)) + Cardinality(BusySlots(r)) <= LongWorkers

RoomInv == \A r \in Replica : Room(r)

\* What Abort and Stop find for a task is the run of that task.
TrackInv ==
    \A r \in Replica, t \in Task : tracked[r][t] # Untracked =>
        run[r][tracked[r][t]].phase = "running" /\ run[r][tracked[r][t]].task = t

RunOf(r, s, t) == run[r][s].phase # "idle" /\ run[r][s].task = t

\* The row t is not cancelled; whoever has it in its batch or in a run is the
\* only one, finds it running and has heard of no abort.
Sole(t) ==
    /\ status[t] # "cancelled"
    /\ \A r \in Replica :
         /\ \A s \in Slot : RunOf(r, s, t) => status[t] = "running" /\ run[r][s].cause # "aborted"
         /\ \A c \in queue[r] : c.task = t => status[t] = "running"
    /\ \A r, q \in Replica :
         /\ \A s, z \in Slot : RunOf(r, s, t) /\ RunOf(q, z, t) => r = q /\ s = z
         /\ \A c \in queue[r], d \in queue[q] : c.task = t /\ d.task = t => r = q /\ c = d
         /\ \A s \in Slot, d \in queue[q] : ~(RunOf(r, s, t) /\ d.task = t)

\* So it is with every row that nobody asked to cancel and nobody claimed
\* while another still had it.
MarkInv == marked \subseteq Task /\ \A t \in Task \ marked : Sole(t)

DelayInv == /\ RowsOK /\ RestOK /\ RunsOK /\ HandInv /\ FreshInv /\ AttemptLeft
            /\ HeldInv /\ HeardInv /\ RoomInv /\ TrackInv /\ MarkInv

-----------------------------------------------------------------------------
(* What the steps do to the runs. *)

\* What Run says of one run.
LEMMA RunFields ==
    ASSUME RunsOK, NEW r \in Replica, NEW s \in Slot
    PROVE  /\ run[r][s] \in Run /\ run[r][s].phase \in {"idle", "running", "returned"}
           /\ run[r][s].read \in Nat /\ run[r][s].cause \in Cause /\ run[r][s].err \in BOOLEAN
           /\ run[r][s].beat \in 0..Heartbeat /\ run[r][s].ran \in 0..Longest
BY DEF RunsOK, Run, Longest

\* A run no step touches.
Others(r, s) == \A q \in Replica, z \in Slot : q # r \/ z # s => run'[q][z] = run[q][z]

Replaced(r, s, x) == run' = [run EXCEPT ![r][s] = x]
BeatSet(r, s, b) == run' = [run EXCEPT ![r][s].beat = b]
CauseSet(r, s, c) == run' = [run EXCEPT ![r][s].cause = c]

\* One run is replaced.
LEMMA ReplacedRun ==
    ASSUME RunsOK, NEW r \in Replica, NEW s \in Slot, NEW x \in Run, Replaced(r, s, x)
    PROVE  RunsOK' /\ run'[r][s] = x /\ Others(r, s)
BY DEF RunsOK, Others, Replaced

\* A run's heartbeat timer is set.
LEMMA SetBeat ==
    ASSUME RunsOK, NEW r \in Replica, NEW s \in Slot, NEW b \in 0..Heartbeat,
           BeatSet(r, s, b)
    PROVE  /\ RunsOK' /\ Others(r, s) /\ run'[r][s].beat = b
           /\ run'[r][s].phase = run[r][s].phase /\ run'[r][s].task = run[r][s].task
           /\ run'[r][s].read = run[r][s].read /\ run'[r][s].cause = run[r][s].cause
           /\ run'[r][s].ran = run[r][s].ran
<1> DEFINE x == [run[r][s] EXCEPT !.beat = b]
<1>1. Replaced(r, s, x)
  BY DEF RunsOK, BeatSet, Replaced
<1>2. /\ x \in Run /\ x.beat = b /\ x.phase = run[r][s].phase /\ x.task = run[r][s].task
      /\ x.read = run[r][s].read /\ x.cause = run[r][s].cause /\ x.ran = run[r][s].ran
  BY RunFields DEF Run
<1> HIDE DEF x
<1> QED
  BY <1>1, <1>2, ReplacedRun

\* A run's ctx ends.
LEMMA SetCause ==
    ASSUME RunsOK, NEW r \in Replica, NEW s \in Slot, NEW c \in Cause,
           CauseSet(r, s, c)
    PROVE  /\ RunsOK' /\ Others(r, s) /\ run'[r][s].cause = c
           /\ run'[r][s].phase = run[r][s].phase /\ run'[r][s].task = run[r][s].task
           /\ run'[r][s].read = run[r][s].read
<1> DEFINE x == [run[r][s] EXCEPT !.cause = c]
<1>1. Replaced(r, s, x)
  BY DEF RunsOK, CauseSet, Replaced
<1>2. /\ x \in Run /\ x.cause = c /\ x.phase = run[r][s].phase /\ x.task = run[r][s].task
      /\ x.read = run[r][s].read
  BY RunFields DEF Run
<1> HIDE DEF x
<1> QED
  BY <1>1, <1>2, ReplacedRun

\* The heartbeat: the row is refreshed, or the run hears that it was aborted.
BeatDoes(r, s) ==
    /\ RunsOK' /\ Others(r, s) /\ run[r][s].phase = "running" /\ run[r][s].cause = "none"
    /\ run'[r][s].phase = "running" /\ run'[r][s].task = run[r][s].task
    /\ run'[r][s].read = run[r][s].read
    /\ \/ /\ status[run[r][s].task] = "running" /\ run'[r][s].cause = "none"
          /\ age' = [age EXCEPT ![run[r][s].task] = 0]
       \/ run'[r][s].cause = "aborted" /\ age' = age
    /\ UNCHANGED <<status, attempts, due, mode, queue, tracked, used, claimer>>

\* Every Beat does.
LEMMA BeatRun ==
    ASSUME RunsOK, NEW r \in Replica, NEW s \in Slot, Beat(r, s)
    PROVE  BeatDoes(r, s)
<1> USE DEF BeatDoes
<1>1. /\ run[r][s].phase = "running" /\ run[r][s].cause = "none"
      /\ UNCHANGED <<status, attempts, due, mode, queue, tracked, used, claimer>>
  BY DEF Beat, Live
<1>2. CASE /\ status[run[r][s].task] = "running" /\ age' = [age EXCEPT ![run[r][s].task] = 0]
           /\ BeatSet(r, s, Heartbeat)
  <2>1. Heartbeat \in 0..Heartbeat
    OBVIOUS
  <2> QED
    BY <1>1, <1>2, <2>1, SetBeat
<1>3. CASE CauseSet(r, s, "aborted") /\ age' = age
  <2>1. "aborted" \in Cause
    BY DEF Cause
  <2> QED
    BY <1>1, <1>3, <2>1, SetCause
<1> QED
  BY <1>2, <1>3 DEF Beat, BeatSet, CauseSet

\* The heartbeat fails.
BeatErrorDoes(r, s) ==
    /\ RunsOK' /\ Others(r, s) /\ run'[r][s].phase = run[r][s].phase
    /\ run'[r][s].task = run[r][s].task /\ run'[r][s].read = run[r][s].read
    /\ run'[r][s].cause = run[r][s].cause
    /\ errors < MaxErrors /\ errors' = errors + 1
    /\ UNCHANGED <<row, mode, queue, tracked, stops, crashes, claimer>>

\* Every BeatError does.
LEMMA BeatErrorRun ==
    ASSUME RunsOK, NEW r \in Replica, NEW s \in Slot, BeatError(r, s)
    PROVE  BeatErrorDoes(r, s)
<1> USE DEF BeatErrorDoes
<1>1. /\ BeatSet(r, s, Heartbeat) /\ Heartbeat \in 0..Heartbeat
      /\ errors < MaxErrors /\ errors' = errors + 1
      /\ UNCHANGED <<row, mode, queue, tracked, stops, crashes, claimer>>
  BY DEF BeatError, OneMoreError, BeatSet
<1> QED
  BY <1>1, SetBeat

\* The run's time limit.
TimesOutDoes(r, s) ==
    /\ RunsOK' /\ Others(r, s) /\ run'[r][s].phase = run[r][s].phase
    /\ run'[r][s].task = run[r][s].task /\ run'[r][s].read = run[r][s].read
    /\ run'[r][s].cause = "timeout"
    /\ UNCHANGED <<row, mode, queue, tracked, used, claimer>>

\* Every TimesOut does.
LEMMA TimesOutRun ==
    ASSUME RunsOK, NEW r \in Replica, NEW s \in Slot, TimesOut(r, s)
    PROVE  TimesOutDoes(r, s)
<1> USE DEF TimesOutDoes
<1>1. /\ CauseSet(r, s, "timeout") /\ "timeout" \in Cause
      /\ UNCHANGED <<row, mode, queue, tracked, used, claimer>>
  BY DEF TimesOut, Cause, CauseSet
<1> QED
  BY <1>1, SetCause

\* The handler returns.
ReturnDoes(r, s) ==
    /\ RunsOK' /\ Others(r, s)
    /\ run[r][s].phase = "running" /\ run'[r][s].phase = "returned"
    /\ run'[r][s].task = run[r][s].task /\ run'[r][s].read = run[r][s].read
    /\ run'[r][s].cause = run[r][s].cause
    /\ tracked' = [tracked EXCEPT ![r][run[r][s].task] = Untracked]
    /\ UNCHANGED <<row, mode, queue, used, claimer>>

\* Every Return does.
LEMMA ReturnRun ==
    ASSUME RunsOK, NEW r \in Replica, NEW s \in Slot, Return(r, s)
    PROVE  ReturnDoes(r, s)
<1> USE DEF ReturnDoes
<1>1. PICK e \in BOOLEAN :
        run' = [run EXCEPT ![r][s].phase = "returned", ![r][s].err = e]
  BY DEF Return
<1> DEFINE x == [run[r][s] EXCEPT !.phase = "returned", !.err = e]
<1>2. Replaced(r, s, x)
  BY <1>1 DEF RunsOK, Replaced
<1>3. /\ x \in Run /\ x.phase = "returned" /\ x.task = run[r][s].task
      /\ x.read = run[r][s].read /\ x.cause = run[r][s].cause
  BY RunFields DEF Run
<1> HIDE DEF x
<1>4. RunsOK' /\ Others(r, s) /\ run'[r][s] = x
  BY <1>2, <1>3, ReplacedRun
<1> QED
  BY <1>3, <1>4 DEF Return

\* A run begins.
BeginDoes(r, c, s) ==
    /\ RunsOK' /\ Others(r, s) /\ mode[r] \in {"up", "cancelling", "stopping"}
    /\ run[r][s].phase = "idle" /\ run'[r][s].phase = "running"
    /\ run'[r][s].task = c.task /\ run'[r][s].read = c.read
    /\ c.task \in Task /\ c.read \in Nat
    /\ \/ run'[r][s].cause = "none"
       \/ run'[r][s].cause = "parent" /\ mode[r] = "stopping"
    /\ run'[r][s].beat = Heartbeat /\ run'[r][s].ran = 0
    /\ c.task \in Short <=> s = 0
    /\ queue' = [queue EXCEPT ![r] = @ \ {c}]
    /\ tracked' = [tracked EXCEPT ![r][c.task] = s]
    /\ UNCHANGED <<row, mode, used, claimer>>

\* Every Begin does.
LEMMA BeginRun ==
    ASSUME RunsOK, RestOK, NEW r \in Replica, NEW s \in Slot, NEW c \in queue[r], Begin(r, c, s)
    PROVE  BeginDoes(r, c, s)
<1> USE DEF BeginDoes
<1> DEFINE cause == IF mode[r] = "stopping" THEN "parent" ELSE "none"
<1> DEFINE x == [phase |-> "running", task |-> c.task, read |-> c.read, cause |-> cause,
                 err |-> FALSE, beat |-> Heartbeat, ran |-> 0]
<1>1. /\ c.task \in Task /\ c.read \in Nat /\ cause \in Cause
      /\ cause = "none" \/ (cause = "parent" /\ mode[r] = "stopping")
  BY DEF RestOK, Claim, Cause
<1>2. Replaced(r, s, x)
  BY DEF Begin, Replaced
<1> HIDE DEF cause
<1>3. /\ x \in Run /\ x.phase = "running" /\ x.task = c.task /\ x.read = c.read
      /\ x.cause = cause /\ x.beat = Heartbeat /\ x.ran = 0
  BY <1>1 DEF Run, Longest
<1> HIDE DEF x
<1>4. RunsOK' /\ Others(r, s) /\ run'[r][s] = x
  BY <1>2, <1>3, ReplacedRun
<1>5. /\ mode[r] \in {"up", "cancelling", "stopping"} /\ run[r][s].phase = "idle"
      /\ queue' = [queue EXCEPT ![r] = @ \ {c}]
      /\ tracked' = [tracked EXCEPT ![r][c.task] = s]
      /\ UNCHANGED <<row, mode, used, claimer>>
  BY DEF Begin
<1>6. c.task \in Short <=> s = 0
  BY DEF Begin
<1> QED
  BY <1>1, <1>3, <1>4, <1>5, <1>6

\* A run is over.
LEMMA OverRun ==
    ASSUME RunsOK, NEW r \in Replica, NEW s \in Slot, Replaced(r, s, IdleRun)
    PROVE  /\ RunsOK' /\ Others(r, s) /\ run'[r][s].phase = "idle" /\ run'[r][s].read = 0
<1>1. IdleRun \in Run /\ IdleRun.phase = "idle" /\ IdleRun.read = 0
  BY DEF IdleRun, Run, Cause, Longest
<1> QED
  BY <1>1, ReplacedRun

\* A run ends without an outcome: the write fails, or its ctx is over.
Unwritten(r, s) == OutcomeError(r, s) \/ OutcomeLate(r, s)

UnwrittenDoes(r, s) ==
    /\ RunsOK' /\ Others(r, s) /\ run'[r][s].phase = "idle" /\ run'[r][s].read = 0
    /\ run[r][s].phase = "returned"
    /\ \/ errors < MaxErrors /\ errors' = errors + 1 /\ UNCHANGED claimer
       \/ /\ errors' = errors
          /\ claimer' = [claimer EXCEPT ![run[r][s].task] = IF @ = r THEN NoReplica ELSE @]
    /\ UNCHANGED <<row, mode, queue, tracked, stops, crashes>>

\* Every Unwritten does.
LEMMA UnwrittenRun ==
    ASSUME RunsOK, NEW r \in Replica, NEW s \in Slot, Unwritten(r, s)
    PROVE  UnwrittenDoes(r, s)
<1>1. /\ Replaced(r, s, IdleRun) /\ run[r][s].phase = "returned"
      /\ \/ errors < MaxErrors /\ errors' = errors + 1 /\ UNCHANGED claimer
         \/ /\ errors' = errors
            /\ claimer' = [claimer EXCEPT ![run[r][s].task] = IF @ = r THEN NoReplica ELSE @]
      /\ UNCHANGED <<row, mode, queue, tracked, stops, crashes>>
  BY DEF Unwritten, OutcomeError, OutcomeLate, OneMoreError, Replaced, used
<1> QED
  BY <1>1, OverRun DEF UnwrittenDoes

\* The runs of r whose ctx is ended now; nothing else of a run changes.
RunsEnded(r, cause) ==
    /\ \A q \in Replica, z \in Slot : q # r => run'[q][z] = run[q][z]
    /\ \A z \in Slot :
         /\ run'[r][z].phase = run[r][z].phase /\ run'[r][z].task = run[r][z].task
         /\ run'[r][z].read = run[r][z].read /\ run'[r][z].beat = run[r][z].beat
         /\ run'[r][z].ran = run[r][z].ran
         /\ \/ run'[r][z].cause = run[r][z].cause
            \/ Live(r, z) /\ run'[r][z].cause = cause

RunsSet(r, runs) == run' = [run EXCEPT ![r] = runs]

\* Some of the runs of r end.
LEMMA SomeEnded ==
    ASSUME RunsOK, NEW r \in Replica, NEW cause \in Cause, NEW ends, NEW runs,
           runs = [s \in Slot |-> IF Live(r, s) /\ s \in ends
                                  THEN [run[r][s] EXCEPT !.cause = cause] ELSE run[r][s]],
           RunsSet(r, runs)
    PROVE  RunsOK' /\ RunsEnded(r, cause)
<1>1. ASSUME NEW z \in Slot
      PROVE  /\ runs[z] \in Run /\ runs[z].phase = run[r][z].phase
             /\ runs[z].task = run[r][z].task /\ runs[z].read = run[r][z].read
             /\ runs[z].beat = run[r][z].beat /\ runs[z].ran = run[r][z].ran
             /\ \/ runs[z].cause = run[r][z].cause
                \/ Live(r, z) /\ runs[z].cause = cause
  <2> DEFINE x == [run[r][z] EXCEPT !.cause = cause]
  <2>1. /\ run[r][z] \in Run /\ x \in Run /\ x.phase = run[r][z].phase /\ x.task = run[r][z].task
        /\ x.read = run[r][z].read /\ x.beat = run[r][z].beat /\ x.ran = run[r][z].ran
        /\ x.cause = cause
    BY RunFields DEF Run
  <2>2. runs[z] = (IF Live(r, z) /\ z \in ends THEN x ELSE run[r][z])
    OBVIOUS
  <2> HIDE DEF x
  <2> QED
    BY <2>1, <2>2
<1>2. runs \in [Slot -> Run]
  BY <1>1
<1>3. RunsOK' /\ run'[r] = runs /\ \A q \in Replica : q # r => run'[q] = run[q]
  BY <1>2 DEF RunsOK, RunsSet
<1> QED
  BY <1>1, <1>3 DEF RunsEnded

\* Abort ends the runs it finds here; its transaction commits or does not.
AbortDoes(r) ==
    /\ RunsOK' /\ RunsEnded(r, "aborted") /\ RowsOK'
    /\ \A t \in Task :
         \/ status'[t] = status[t] /\ age'[t] = age[t]
         \/ status[t] \in Open /\ status'[t] = "cancelled" /\ age'[t] = 0
    /\ UNCHANGED <<attempts, due, mode, queue, tracked, used, claimer>>

\* Every Abort does.
LEMMA AbortRun ==
    ASSUME RunsOK, RowsOK, NEW r \in Replica, NEW k \in Key, Abort(r, k)
    PROVE  AbortDoes(r)
<1> USE DEF AbortDoes
<1> DEFINE ids == {t \in Task : KeyOf[t] = k /\ status[t] \in Open}
<1> DEFINE ends == {s \in Slot : \E t \in ids : tracked[r][t] = s}
<1> DEFINE runs == EndedRuns(r, ids, "aborted")
<1>1. RunsSet(r, runs)
  BY DEF Abort, RunsSet
<1>2. runs = [s \in Slot |-> IF Live(r, s) /\ s \in ends
                             THEN [run[r][s] EXCEPT !.cause = "aborted"] ELSE run[r][s]]
  BY DEF EndedRuns, Live
<1>3. "aborted" \in Cause
  BY DEF Cause
<1> HIDE DEF runs, ends
<1>4. RunsOK' /\ RunsEnded(r, "aborted")
  BY <1>1, <1>2, <1>3, SomeEnded
<1>5. CASE UNCHANGED <<status, age>>
  BY <1>4, <1>5 DEF Abort, RowsOK
<1>6. CASE /\ status' = [t \in Task |-> IF t \in ids THEN "cancelled" ELSE status[t]]
           /\ age' = [t \in Task |-> IF t \in ids THEN 0 ELSE age[t]]
  <2>1. status' \in [Task -> Status] /\ age' \in [Task -> 0..Stale + 1]
    BY <1>6 DEF RowsOK, Status, Stale
  <2>2. \A t \in Task : \/ status'[t] = status[t] /\ age'[t] = age[t]
                        \/ status[t] \in Open /\ status'[t] = "cancelled" /\ age'[t] = 0
    BY <1>6
  <2>3. UNCHANGED <<attempts, due, mode, queue, tracked, used, claimer>>
    BY DEF Abort
  <2> QED
    BY <1>4, <2>1, <2>2, <2>3 DEF RowsOK
<1> QED
  BY <1>5, <1>6 DEF Abort

\* The first half of Stop.
StopRunsDoes(r) ==
    /\ RunsOK' /\ RunsEnded(r, "shutdown")
    /\ mode[r] = "up" /\ mode' = [mode EXCEPT ![r] = "cancelling"]
    /\ stops < MaxStops /\ stops' = stops + 1
    /\ UNCHANGED <<row, queue, tracked, errors, crashes, claimer>>

\* Every StopRuns does.
LEMMA StopRunsRun ==
    ASSUME RunsOK, NEW r \in Replica, StopRuns(r)
    PROVE  StopRunsDoes(r)
<1> USE DEF StopRunsDoes
<1> DEFINE ends == {s \in Slot : \E t \in Task : tracked[r][t] = s}
<1> DEFINE runs == EndedRuns(r, Task, "shutdown")
<1>1. /\ RunsSet(r, runs) /\ mode[r] = "up" /\ mode' = [mode EXCEPT ![r] = "cancelling"]
      /\ stops < MaxStops /\ stops' = stops + 1
      /\ UNCHANGED <<row, queue, tracked, errors, crashes, claimer>>
  BY DEF StopRuns, RunsSet
<1>2. runs = [s \in Slot |-> IF Live(r, s) /\ s \in ends
                             THEN [run[r][s] EXCEPT !.cause = "shutdown"] ELSE run[r][s]]
  BY DEF EndedRuns, Live
<1>3. "shutdown" \in Cause
  BY DEF Cause
<1> HIDE DEF runs, ends
<1> QED
  BY <1>1, <1>2, <1>3, SomeEnded

\* The end of the poller's ctx ends what is left.
StopPollerDoes(r) ==
    /\ RunsOK' /\ RunsEnded(r, "parent")
    /\ mode[r] = "cancelling" /\ mode' = [mode EXCEPT ![r] = "stopping"]
    /\ UNCHANGED <<row, queue, tracked, used, claimer>>

\* Every StopPoller does.
LEMMA StopPollerRun ==
    ASSUME RunsOK, NEW r \in Replica, StopPoller(r)
    PROVE  StopPollerDoes(r)
<1> USE DEF StopPollerDoes
<1> DEFINE runs == [s \in Slot |->
                      IF Live(r, s) THEN [run[r][s] EXCEPT !.cause = "parent"] ELSE run[r][s]]
<1>1. /\ RunsSet(r, runs) /\ mode[r] = "cancelling" /\ mode' = [mode EXCEPT ![r] = "stopping"]
      /\ UNCHANGED <<row, queue, tracked, used, claimer>>
  BY DEF StopPoller, RunsSet
<1>2. runs = [s \in Slot |-> IF Live(r, s) /\ s \in Slot
                             THEN [run[r][s] EXCEPT !.cause = "parent"] ELSE run[r][s]]
  OBVIOUS
<1>3. "parent" \in Cause
  BY DEF Cause
<1> HIDE DEF runs
<1> QED
  BY <1>1, <1>2, <1>3, SomeEnded

\* A process dies with all it had in hand.
CrashDoes(r) ==
    /\ RunsOK'
    /\ \A z \in Slot : run'[r][z].phase = "idle" /\ run'[r][z].read = 0
    /\ \A q \in Replica, z \in Slot : q # r => run'[q][z] = run[q][z]
    /\ crashes < MaxCrashes /\ crashes' = crashes + 1
    /\ mode' = [mode EXCEPT ![r] = "crashed"] /\ queue' = [queue EXCEPT ![r] = {}]
    /\ tracked' = [tracked EXCEPT ![r] = [t \in Task |-> Untracked]]
    /\ claimer' = [t \in Task |-> IF claimer[t] = r THEN NoReplica ELSE claimer[t]]
    /\ UNCHANGED <<row, errors, stops>>

\* Every Crash does.
LEMMA CrashRun ==
    ASSUME RunsOK, NEW r \in Replica, Crash(r)
    PROVE  CrashDoes(r)
<1> USE DEF CrashDoes
<1>1. IdleRun \in Run /\ IdleRun.phase = "idle" /\ IdleRun.read = 0
  BY DEF IdleRun, Run, Cause, Longest
<1> DEFINE runs == [s \in Slot |-> IdleRun]
<1>2. /\ RunsSet(r, runs) /\ crashes < MaxCrashes /\ crashes' = crashes + 1
      /\ mode' = [mode EXCEPT ![r] = "crashed"] /\ queue' = [queue EXCEPT ![r] = {}]
      /\ tracked' = [tracked EXCEPT ![r] = [t \in Task |-> Untracked]]
      /\ claimer' = [t \in Task |-> IF claimer[t] = r THEN NoReplica ELSE claimer[t]]
      /\ UNCHANGED <<row, errors, stops>>
  BY DEF Crash, RunsSet
<1>3. runs \in [Slot -> Run] /\ \A z \in Slot : runs[z] = IdleRun
  BY <1>1
<1> HIDE DEF runs
<1>4. RunsOK' /\ run'[r] = runs /\ \A q \in Replica : q # r => run'[q] = run[q]
  BY <1>2, <1>3 DEF RunsOK, RunsSet
<1> QED
  BY <1>1, <1>2, <1>3, <1>4

\* A unit of time passes for every run.
TickDoes ==
    /\ RunsOK'
    /\ \A q \in Replica, z \in Slot :
         /\ run'[q][z].phase = run[q][z].phase /\ run'[q][z].task = run[q][z].task
         /\ run'[q][z].read = run[q][z].read /\ run'[q][z].cause = run[q][z].cause
         /\ run[q][z].phase = "running" /\ run[q][z].cause = "none" =>
              /\ run'[q][z].beat = (IF run[q][z].beat > 0 THEN run[q][z].beat - 1 ELSE 0)
              /\ run'[q][z].ran = (IF run[q][z].ran < Longest THEN run[q][z].ran + 1
                                   ELSE run[q][z].ran)
    /\ age' = [t \in Task |-> IF \/ status[t] = "running" /\ age[t] <= Stale
                                 \/ status[t] = "cancelled" /\ age[t] <= Heartbeat
                              THEN age[t] + 1 ELSE age[t]]
    /\ Timely => \A r \in Replica : ~Busy(r)
    /\ UNCHANGED <<status, attempts, mode, queue, tracked, used, claimer>>

\* Every Tick does.
LEMMA TickRun ==
    ASSUME RunsOK, Tick
    PROVE  TickDoes
<1> USE DEF TickDoes
<1>1. run' = [r \in Replica |-> [s \in Slot |->
                LET x == run[r][s] IN
                IF x.phase = "idle" THEN x
                ELSE [x EXCEPT !.beat = IF @ > 0 /\ Live(r, s) THEN @ - 1 ELSE @,
                               !.ran = IF @ < Longest THEN @ + 1 ELSE @]]]
  BY DEF Tick
<1>2. ASSUME NEW q \in Replica, NEW z \in Slot
      PROVE  /\ run'[q][z] \in Run
             /\ run'[q][z].phase = run[q][z].phase /\ run'[q][z].task = run[q][z].task
             /\ run'[q][z].read = run[q][z].read /\ run'[q][z].cause = run[q][z].cause
             /\ run[q][z].phase = "running" /\ run[q][z].cause = "none" =>
                  /\ run'[q][z].beat = (IF run[q][z].beat > 0 THEN run[q][z].beat - 1 ELSE 0)
                  /\ run'[q][z].ran = (IF run[q][z].ran < Longest THEN run[q][z].ran + 1
                                       ELSE run[q][z].ran)
  <2> DEFINE b == IF run[q][z].beat > 0 /\ Live(q, z) THEN run[q][z].beat - 1
                  ELSE run[q][z].beat
  <2> DEFINE n == IF run[q][z].ran < Longest THEN run[q][z].ran + 1 ELSE run[q][z].ran
  <2> DEFINE x == [run[q][z] EXCEPT !.beat = b, !.ran = n]
  <2>1. /\ run[q][z].beat \in 0..Heartbeat /\ run[q][z].ran \in 0..Longest
        /\ b \in 0..Heartbeat /\ n \in 0..Longest
    BY RunFields DEF Longest
  <2>2. run'[q][z] = (IF run[q][z].phase = "idle" THEN run[q][z] ELSE x)
    BY <1>1
  <2> HIDE DEF b, n
  <2>3. /\ run[q][z] \in Run /\ x \in Run /\ x.phase = run[q][z].phase /\ x.task = run[q][z].task
        /\ x.read = run[q][z].read /\ x.cause = run[q][z].cause /\ x.beat = b /\ x.ran = n
    BY <2>1, RunFields DEF Run
  <2> HIDE DEF x
  <2> QED
    BY <2>1, <2>2, <2>3 DEF Live, b, n
<1>3. RunsOK'
  BY <1>1, <1>2 DEF RunsOK
<1>4. /\ age' = [t \in Task |-> IF \/ status[t] = "running" /\ age[t] <= Stale
                                   \/ status[t] = "cancelled" /\ age[t] <= Heartbeat
                                THEN age[t] + 1 ELSE age[t]]
      /\ Timely => \A r \in Replica : ~Busy(r)
      /\ UNCHANGED <<status, attempts, mode, queue, tracked, used, claimer>>
  BY DEF Tick
<1> QED
  BY <1>2, <1>3, <1>4

\* Minute << min(n-1, 10), cut off at Hour, is a delay.
LEMMA BackoffDelay ==
    ASSUME NEW n \in Nat \ {0}
    PROVE  BackoffOf(n) \in Nat
<1> DEFINE k == IF n - 1 < 10 THEN n - 1 ELSE 10
<1>1. k \in 0..10
  OBVIOUS
<1> HIDE DEF k
<1>2. /\ 2 ^ 0 \in Nat /\ 2 ^ 1 \in Nat /\ 2 ^ 2 \in Nat /\ 2 ^ 3 \in Nat /\ 2 ^ 4 \in Nat
      /\ 2 ^ 5 \in Nat /\ 2 ^ 6 \in Nat /\ 2 ^ 7 \in Nat /\ 2 ^ 8 \in Nat /\ 2 ^ 9 \in Nat
      /\ 2 ^ 10 \in Nat
  OBVIOUS
<1>3. \/ k = 0 \/ k = 1 \/ k = 2 \/ k = 3 \/ k = 4 \/ k = 5 \/ k = 6 \/ k = 7 \/ k = 8 \/ k = 9
      \/ k = 10
  BY <1>1
<1>4. 2 ^ k \in Nat
  BY <1>2, <1>3
<1> DEFINE p == 2 ^ k
<1>5. BackoffOf(n) = (IF Minute * p > Hour THEN Hour ELSE Minute * p)
  BY DEF BackoffOf, k
<1>6. p \in Nat
  BY <1>4
<1> HIDE DEF p
<1> QED
  BY <1>5, <1>6

\* What a run writes: an attempt more, unless it was interrupted or aborted,
\* and pending again only with an attempt left.
LEMMA OutcomeFields ==
    ASSUME RowsOK, NEW r \in Replica, NEW x \in Run, x.task \in Task, x.read < MaxAttempts,
           attempts[x.task] < MaxAttempts
    PROVE  /\ Outcome(r, x).status \in {"pending", "cancelled", "done", "failed"}
           /\ Outcome(r, x).attempts \in 0..MaxAttempts /\ Outcome(r, x).due \in Nat
           /\ Outcome(r, x).status = "pending" => Outcome(r, x).attempts < MaxAttempts
           /\ Interrupted(r, x) => Outcome(r, x).attempts = attempts[x.task]
           /\ Outcome(r, x).status = "cancelled" => x.cause = "aborted"
<1> DEFINE n == x.read + 1
<1> DEFINE keep == [status |-> "pending", attempts |-> attempts[x.task], due |-> due[x.task]]
<1>1. /\ x.read \in Nat /\ n \in 1..MaxAttempts
      /\ attempts[x.task] \in 0..MaxAttempts /\ due[x.task] \in Nat
  BY DEF RowsOK, Run
<1>2. CASE x.cause = "aborted"
  <2>1. Outcome(r, x) = [keep EXCEPT !.status = "cancelled"]
    BY <1>2 DEF Outcome
  <2> QED
    BY <1>1, <1>2, <2>1
<1>3. CASE x.cause # "aborted" /\ Interrupted(r, x)
  <2>1. Outcome(r, x) = [keep EXCEPT !.due = 0]
    BY <1>3 DEF Outcome
  <2> QED
    BY <1>1, <2>1
<1>4. CASE x.cause # "aborted" /\ ~Interrupted(r, x) /\ ~x.err
  <2>1. Outcome(r, x) = [keep EXCEPT !.status = "done", !.attempts = n]
    BY <1>4 DEF Outcome
  <2> QED
    BY <1>1, <1>4, <2>1
<1>5. CASE x.cause # "aborted" /\ ~Interrupted(r, x) /\ x.err /\ n >= MaxAttempts
  <2>1. Outcome(r, x) = [keep EXCEPT !.status = "failed", !.attempts = n]
    BY <1>5 DEF Outcome
  <2> QED
    BY <1>1, <1>5, <2>1
<1>6. CASE x.cause # "aborted" /\ ~Interrupted(r, x) /\ x.err /\ ~(n >= MaxAttempts)
  <2>1. Outcome(r, x) = [status |-> "pending", attempts |-> n, due |-> BackoffOf(n)]
    BY <1>6 DEF Outcome
  <2>2. BackoffOf(n) \in Nat /\ n < MaxAttempts
    BY <1>1, <1>6, BackoffDelay
  <2> HIDE DEF n
  <2> QED
    BY <1>1, <1>6, <2>1, <2>2
<1> QED
  BY <1>2, <1>3, <1>4, <1>5, <1>6

\* A run that returned writes its outcome, if the row is still running.
WriteOutcomeDoes(r, s) ==
    /\ RunsOK' /\ Others(r, s) /\ run'[r][s].phase = "idle" /\ run'[r][s].read = 0
    /\ run[r][s].phase = "returned" /\ run[r][s].task \in Task
    /\ \/ status[run[r][s].task] # "running" /\ UNCHANGED row
       \/ /\ status[run[r][s].task] = "running"
          /\ \E st \in {"pending", "cancelled", "done", "failed"}, n \in 0..MaxAttempts,
                d \in Nat :
               /\ status' = [status EXCEPT ![run[r][s].task] = st]
               /\ attempts' = [attempts EXCEPT ![run[r][s].task] = n]
               /\ due' = [due EXCEPT ![run[r][s].task] = d]
               /\ age' = [age EXCEPT ![run[r][s].task] = 0]
               /\ st = "pending" => n < MaxAttempts
               /\ Interrupted(r, run[r][s]) => n = attempts[run[r][s].task]
               /\ st = "cancelled" => run[r][s].cause = "aborted"
    /\ UNCHANGED <<mode, queue, tracked, used, claimer>>

\* Every WriteOutcome does.
LEMMA WriteOutcomeRun ==
    ASSUME RunsOK, RowsOK, HandInv, AttemptLeft, NEW r \in Replica, NEW s \in Slot,
           WriteOutcome(r, s)
    PROVE  WriteOutcomeDoes(r, s)
<1> USE DEF WriteOutcomeDoes
<1> DEFINE x == run[r][s]
<1> DEFINE o == Outcome(r, x)
<1>1. /\ Replaced(r, s, IdleRun) /\ x.phase = "returned"
      /\ UNCHANGED <<mode, queue, tracked, used, claimer>>
  BY DEF WriteOutcome, Replaced
<1>2. RunsOK' /\ Others(r, s) /\ run'[r][s].phase = "idle" /\ run'[r][s].read = 0
  BY <1>1, OverRun
<1>3. x \in Run /\ x.task \in Task /\ x.read < MaxAttempts
  BY <1>1, RunFields DEF HandInv, RunInHand, AttemptLeft
<1>4. CASE status[x.task] # "running"
  <2>1. UNCHANGED row
    BY <1>4 DEF WriteOutcome, MayWrite
  <2> QED
    BY <1>1, <1>2, <1>3, <1>4, <2>1
<1>5. CASE status[x.task] = "running"
  <2>1. attempts[x.task] < MaxAttempts
    BY <1>3, <1>5 DEF AttemptLeft, Open
  <2>2. /\ o.status \in {"pending", "cancelled", "done", "failed"}
        /\ o.attempts \in 0..MaxAttempts /\ o.due \in Nat
        /\ o.status = "pending" => o.attempts < MaxAttempts
        /\ Interrupted(r, x) => o.attempts = attempts[x.task]
        /\ o.status = "cancelled" => x.cause = "aborted"
    BY <1>3, <2>1, OutcomeFields
  <2>3. /\ status' = [status EXCEPT ![x.task] = o.status]
        /\ attempts' = [attempts EXCEPT ![x.task] = o.attempts]
        /\ due' = [due EXCEPT ![x.task] = o.due] /\ age' = [age EXCEPT ![x.task] = 0]
    BY <1>5 DEF WriteOutcome, MayWrite
  <2> HIDE DEF o
  <2> QED
    BY <1>1, <1>2, <1>3, <1>5, <2>2, <2>3
<1> QED
  BY <1>4, <1>5

-----------------------------------------------------------------------------
(* The invariant, one conjunct at a time. *)

\* Every run stays one of Run.
LEMMA RunsStep ==
    ASSUME RunsOK, RowsOK, RestOK, HandInv, AttemptLeft, [Next]_vars
    PROVE  RunsOK'
<1>1. ASSUME Tick PROVE RunsOK'
  <2>1. TickDoes
    BY <1>1, TickRun
  <2> QED
    BY <2>1 DEF TickDoes, used
<1>2. ASSUME NEW t \in Task, Schedule(t) PROVE RunsOK'
  BY <1>2 DEF Schedule, used, RunsOK
<1>3. ASSUME NEW t \in Task, Cleanup(t) PROVE RunsOK'
  BY <1>3 DEF Cleanup, used, RunsOK
<1>4. ASSUME NEW k \in Key, Cancel(k) PROVE RunsOK'
  BY <1>4 DEF Cancel, used, RunsOK
<1>5. ASSUME NEW k \in Key, NEW r \in Replica, Abort(r, k) PROVE RunsOK'
  <2>1. AbortDoes(r)
    BY <1>5, AbortRun
  <2> QED
    BY <2>1 DEF AbortDoes, RunsEnded, Live, used
<1>6. ASSUME NEW r \in Replica, NEW ts \in SUBSET Task, ClaimRows(r, ts) PROVE RunsOK'
  BY <1>6 DEF ClaimRows, used, RunsOK
<1>7. ASSUME NEW r \in Replica, NEW s \in Slot, Beat(r, s) PROVE RunsOK'
  <2>1. BeatDoes(r, s)
    BY <1>7, BeatRun
  <2> QED
    BY <2>1 DEF BeatDoes, Others, used
<1>8. ASSUME NEW r \in Replica, NEW s \in Slot, BeatError(r, s) PROVE RunsOK'
  <2>1. BeatErrorDoes(r, s)
    BY <1>8, BeatErrorRun
  <2> QED
    BY <2>1 DEF BeatErrorDoes, Others, row
<1>9. ASSUME NEW r \in Replica, NEW s \in Slot, TimesOut(r, s) PROVE RunsOK'
  <2>1. TimesOutDoes(r, s)
    BY <1>9, TimesOutRun
  <2> QED
    BY <2>1 DEF TimesOutDoes, Others, row, used
<1>10. ASSUME NEW r \in Replica, NEW s \in Slot, Return(r, s) PROVE RunsOK'
  <2>1. ReturnDoes(r, s)
    BY <1>10, ReturnRun
  <2> QED
    BY <2>1 DEF ReturnDoes, Others, row, used
<1>11. ASSUME NEW r \in Replica, NEW s \in Slot, WriteOutcome(r, s) PROVE RunsOK'
  <2>1. WriteOutcomeDoes(r, s)
    BY <1>11, WriteOutcomeRun
  <2> QED
    BY <2>1 DEF WriteOutcomeDoes, Others, row, used
<1>12. ASSUME NEW r \in Replica, NEW s \in Slot, Unwritten(r, s) PROVE RunsOK'
  <2>1. UnwrittenDoes(r, s)
    BY <1>12, UnwrittenRun
  <2> QED
    BY <2>1 DEF UnwrittenDoes, Others, row
<1>13. ASSUME NEW r \in Replica, NEW s \in Slot, NEW c \in queue[r], Begin(r, c, s)
       PROVE  RunsOK'
  <2>1. BeginDoes(r, c, s)
    BY <1>13, BeginRun
  <2> QED
    BY <2>1 DEF BeginDoes, Others, row, used
<1>14. ASSUME NEW r \in Replica, StopRuns(r) PROVE RunsOK'
  <2>1. StopRunsDoes(r)
    BY <1>14, StopRunsRun
  <2> QED
    BY <2>1 DEF StopRunsDoes, RunsEnded, Live, row
<1>15. ASSUME NEW r \in Replica, StopPoller(r) PROVE RunsOK'
  <2>1. StopPollerDoes(r)
    BY <1>15, StopPollerRun
  <2> QED
    BY <2>1 DEF StopPollerDoes, RunsEnded, Live, row, used
<1>16. ASSUME NEW r \in Replica, Stopped(r) PROVE RunsOK'
  BY <1>16 DEF Stopped, row, used, RunsOK
<1>17. ASSUME NEW r \in Replica, Crash(r) PROVE RunsOK'
  <2>1. CrashDoes(r)
    BY <1>17, CrashRun
  <2> QED
    BY <2>1 DEF CrashDoes, row
<1>18. ASSUME NEW r \in Replica, Start(r) PROVE RunsOK'
  BY <1>18 DEF Start, row, used, RunsOK
<1>19. CASE UNCHANGED vars
  BY <1>19 DEF vars, row, used, RunsOK
<1> QED
  BY <1>1, <1>2, <1>3, <1>4, <1>5, <1>6, <1>7, <1>8, <1>9, <1>10, <1>11, <1>12, <1>13, <1>14,
     <1>15, <1>16, <1>17, <1>18, <1>19 DEF Next, RunStep, Unwritten

\* The columns of a row keep their types.
LEMMA RowsStep ==
    ASSUME RunsOK, RowsOK, RestOK, HandInv, AttemptLeft, [Next]_vars
    PROVE  RowsOK'
<1>1. ASSUME Tick PROVE RowsOK'
  <2>1. \A t \in Task : age'[t] \in 0..Stale + 1 /\ due'[t] \in Nat
    <3> SUFFICES ASSUME NEW t \in Task PROVE age'[t] \in 0..Stale + 1 /\ due'[t] \in Nat
      OBVIOUS
    <3>1. age[t] \in 0..Stale + 1 /\ due[t] \in Nat
      BY DEF RowsOK
    <3>2. /\ \/ age'[t] = age[t]
             \/ age'[t] = age[t] + 1 /\ (age[t] <= Stale \/ age[t] <= Heartbeat)
          /\ due'[t] = (IF due[t] > 0 THEN due[t] - 1 ELSE 0)
      BY <1>1 DEF Tick
    <3> QED
      BY <3>1, <3>2 DEF Stale
  <2> QED
    BY <1>1, <2>1 DEF Tick, RowsOK
<1>2. ASSUME NEW t \in Task, Schedule(t) PROVE RowsOK'
  BY <1>2 DEF Schedule, used, RowsOK, Status, Stale
<1>3. ASSUME NEW t \in Task, Cleanup(t) PROVE RowsOK'
  BY <1>3 DEF Cleanup, used, RowsOK, Status, Stale
<1>4. ASSUME NEW k \in Key, Cancel(k) PROVE RowsOK'
  BY <1>4 DEF Cancel, used, RowsOK, Status, Stale
<1>5. ASSUME NEW k \in Key, NEW r \in Replica, Abort(r, k) PROVE RowsOK'
  <2>1. AbortDoes(r)
    BY <1>5, AbortRun
  <2> QED
    BY <2>1 DEF AbortDoes, RunsEnded, Live, used
<1>6. ASSUME NEW r \in Replica, NEW ts \in SUBSET Task, ClaimRows(r, ts) PROVE RowsOK'
  BY <1>6 DEF ClaimRows, used, RowsOK, Status, Stale
<1>7. ASSUME NEW r \in Replica, NEW s \in Slot, Beat(r, s) PROVE RowsOK'
  <2>1. BeatDoes(r, s)
    BY <1>7, BeatRun
  <2> QED
    BY <2>1 DEF BeatDoes, Others, used, RowsOK, Status, Stale
<1>8. ASSUME NEW r \in Replica, NEW s \in Slot, BeatError(r, s) PROVE RowsOK'
  <2>1. BeatErrorDoes(r, s)
    BY <1>8, BeatErrorRun
  <2> QED
    BY <2>1 DEF BeatErrorDoes, Others, row, RowsOK, Status, Stale
<1>9. ASSUME NEW r \in Replica, NEW s \in Slot, TimesOut(r, s) PROVE RowsOK'
  <2>1. TimesOutDoes(r, s)
    BY <1>9, TimesOutRun
  <2> QED
    BY <2>1 DEF TimesOutDoes, Others, row, used, RowsOK, Status, Stale
<1>10. ASSUME NEW r \in Replica, NEW s \in Slot, Return(r, s) PROVE RowsOK'
  <2>1. ReturnDoes(r, s)
    BY <1>10, ReturnRun
  <2> QED
    BY <2>1 DEF ReturnDoes, Others, row, used, RowsOK, Status, Stale
<1>11. ASSUME NEW r \in Replica, NEW s \in Slot, WriteOutcome(r, s) PROVE RowsOK'
  <2>1. /\ RowsOK /\ RestOK /\ run[r][s].task \in Task
        /\ \/ UNCHANGED row
           \/ \E st \in {"pending", "cancelled", "done", "failed"}, n \in 0..MaxAttempts, d \in Nat :
                /\ status' = [status EXCEPT ![run[r][s].task] = st]
                /\ attempts' = [attempts EXCEPT ![run[r][s].task] = n]
                /\ due' = [due EXCEPT ![run[r][s].task] = d]
                /\ age' = [age EXCEPT ![run[r][s].task] = 0]
    BY <1>11, WriteOutcomeRun DEF WriteOutcomeDoes
  <2> QED
    BY <2>1 DEF RowsOK, Status, Stale, row
<1>12. ASSUME NEW r \in Replica, NEW s \in Slot, Unwritten(r, s) PROVE RowsOK'
  <2>1. UnwrittenDoes(r, s)
    BY <1>12, UnwrittenRun
  <2> QED
    BY <2>1 DEF UnwrittenDoes, Others, row, RowsOK, Status, Stale
<1>13. ASSUME NEW r \in Replica, NEW s \in Slot, NEW c \in queue[r], Begin(r, c, s)
       PROVE  RowsOK'
  <2>1. BeginDoes(r, c, s)
    BY <1>13, BeginRun
  <2> QED
    BY <2>1 DEF BeginDoes, Others, row, used, RowsOK, Status, Stale
<1>14. ASSUME NEW r \in Replica, StopRuns(r) PROVE RowsOK'
  <2>1. StopRunsDoes(r)
    BY <1>14, StopRunsRun
  <2> QED
    BY <2>1 DEF StopRunsDoes, RunsEnded, Live, row, RowsOK, Status, Stale
<1>15. ASSUME NEW r \in Replica, StopPoller(r) PROVE RowsOK'
  <2>1. StopPollerDoes(r)
    BY <1>15, StopPollerRun
  <2> QED
    BY <2>1 DEF StopPollerDoes, RunsEnded, Live, row, used, RowsOK, Status, Stale
<1>16. ASSUME NEW r \in Replica, Stopped(r) PROVE RowsOK'
  BY <1>16 DEF Stopped, row, used, RowsOK, Status, Stale
<1>17. ASSUME NEW r \in Replica, Crash(r) PROVE RowsOK'
  <2>1. CrashDoes(r)
    BY <1>17, CrashRun
  <2> QED
    BY <2>1 DEF CrashDoes, row, RowsOK, Status, Stale
<1>18. ASSUME NEW r \in Replica, Start(r) PROVE RowsOK'
  BY <1>18 DEF Start, row, used, RowsOK, Status, Stale
<1>19. CASE UNCHANGED vars
  BY <1>19 DEF vars, row, used, RowsOK
<1> QED
  BY <1>1, <1>2, <1>3, <1>4, <1>5, <1>6, <1>7, <1>8, <1>9, <1>10, <1>11, <1>12, <1>13, <1>14,
     <1>15, <1>16, <1>17, <1>18, <1>19 DEF Next, RunStep, Unwritten

\* Everything else keeps its type.
LEMMA RestStep ==
    ASSUME RunsOK, RowsOK, RestOK, HandInv, AttemptLeft, [Next]_vars
    PROVE  RestOK'
<1>1. ASSUME Tick PROVE RestOK'
  <2>1. TickDoes
    BY <1>1, TickRun
  <2> QED
    BY <2>1 DEF TickDoes, used, RestOK, Mode
<1>2. ASSUME NEW t \in Task, Schedule(t) PROVE RestOK'
  BY <1>2 DEF Schedule, used, RestOK, Mode
<1>3. ASSUME NEW t \in Task, Cleanup(t) PROVE RestOK'
  BY <1>3 DEF Cleanup, used, RestOK, Mode
<1>4. ASSUME NEW k \in Key, Cancel(k) PROVE RestOK'
  BY <1>4 DEF Cancel, used, RestOK, Mode
<1>5. ASSUME NEW k \in Key, NEW r \in Replica, Abort(r, k) PROVE RestOK'
  <2>1. AbortDoes(r)
    BY <1>5, AbortRun
  <2> QED
    BY <2>1 DEF AbortDoes, RunsEnded, Live, used, RestOK, Mode
<1>6. ASSUME NEW r \in Replica, NEW ts \in SUBSET Task, ClaimRows(r, ts) PROVE RestOK'
  <2>1. {[task |-> t, read |-> attempts[t]] : t \in ts} \subseteq Claim
    BY DEF RowsOK, Claim
  <2>2. queue' \in [Replica -> SUBSET Claim]
    BY <1>6, <2>1 DEF ClaimRows, RestOK
  <2>3. claimer' \in [Task -> Replica \cup {NoReplica}]
    BY <1>6 DEF ClaimRows, RestOK
  <2> QED
    BY <1>6, <2>2, <2>3 DEF ClaimRows, RestOK, used
<1>7. ASSUME NEW r \in Replica, NEW s \in Slot, Beat(r, s) PROVE RestOK'
  <2>1. BeatDoes(r, s)
    BY <1>7, BeatRun
  <2> QED
    BY <2>1 DEF BeatDoes, Others, used, RestOK, Mode
<1>8. ASSUME NEW r \in Replica, NEW s \in Slot, BeatError(r, s) PROVE RestOK'
  <2>1. BeatErrorDoes(r, s)
    BY <1>8, BeatErrorRun
  <2> QED
    BY <2>1 DEF BeatErrorDoes, Others, row, RestOK, Mode
<1>9. ASSUME NEW r \in Replica, NEW s \in Slot, TimesOut(r, s) PROVE RestOK'
  <2>1. TimesOutDoes(r, s)
    BY <1>9, TimesOutRun
  <2> QED
    BY <2>1 DEF TimesOutDoes, Others, row, used, RestOK, Mode
<1>10. ASSUME NEW r \in Replica, NEW s \in Slot, Return(r, s) PROVE RestOK'
  <2>1. run[r][s].task \in Task /\ Untracked \in Slot \cup {Untracked}
    BY <1>10, ReturnRun DEF HandInv, RunInHand, ReturnDoes
  <2>2. /\ tracked' = [tracked EXCEPT ![r][run[r][s].task] = Untracked]
        /\ UNCHANGED <<mode, queue, used, claimer>>
    BY <1>10 DEF Return
  <2>3. tracked' \in [Replica -> [Task -> Slot \cup {Untracked}]]
    BY <2>1, <2>2 DEF RestOK
  <2> QED
    BY <2>2, <2>3 DEF RestOK, used
<1>11. ASSUME NEW r \in Replica, NEW s \in Slot, WriteOutcome(r, s) PROVE RestOK'
  <2>1. WriteOutcomeDoes(r, s)
    BY <1>11, WriteOutcomeRun
  <2> QED
    BY <2>1 DEF WriteOutcomeDoes, Others, row, used, RestOK, Mode
<1>12. ASSUME NEW r \in Replica, NEW s \in Slot, Unwritten(r, s) PROVE RestOK'
  <2>1. UnwrittenDoes(r, s)
    BY <1>12, UnwrittenRun
  <2> QED
    BY <2>1 DEF UnwrittenDoes, Others, row, RestOK, Mode
<1>13. ASSUME NEW r \in Replica, NEW s \in Slot, NEW c \in queue[r], Begin(r, c, s)
       PROVE  RestOK'
  <2>1. c.task \in Task
    BY DEF RestOK, Claim
  <2>2. /\ tracked' = [tracked EXCEPT ![r][c.task] = s] /\ queue' = [queue EXCEPT ![r] = @ \ {c}]
        /\ UNCHANGED <<mode, used, claimer>>
    BY <1>13 DEF Begin
  <2>3. tracked' \in [Replica -> [Task -> Slot \cup {Untracked}]]
    BY <2>1, <2>2 DEF RestOK
  <2>4. queue' \in [Replica -> SUBSET Claim]
    BY <2>2 DEF RestOK
  <2> QED
    BY <2>2, <2>3, <2>4 DEF RestOK, used
<1>14. ASSUME NEW r \in Replica, StopRuns(r) PROVE RestOK'
  <2>1. StopRunsDoes(r)
    BY <1>14, StopRunsRun
  <2> QED
    BY <2>1 DEF StopRunsDoes, RunsEnded, Live, row, RestOK, Mode
<1>15. ASSUME NEW r \in Replica, StopPoller(r) PROVE RestOK'
  <2>1. StopPollerDoes(r)
    BY <1>15, StopPollerRun
  <2> QED
    BY <2>1 DEF StopPollerDoes, RunsEnded, Live, row, used, RestOK, Mode
<1>16. ASSUME NEW r \in Replica, Stopped(r) PROVE RestOK'
  BY <1>16 DEF Stopped, row, used, RestOK, Mode
<1>17. ASSUME NEW r \in Replica, Crash(r) PROVE RestOK'
  <2>1. tracked' \in [Replica -> [Task -> Slot \cup {Untracked}]]
    BY <1>17 DEF Crash, RestOK
  <2>2. mode' \in [Replica -> Mode] /\ queue' \in [Replica -> SUBSET Claim]
    BY <1>17 DEF Crash, RestOK, Mode
  <2>3. claimer' \in [Task -> Replica \cup {NoReplica}]
    BY <1>17 DEF Crash, RestOK
  <2>4. crashes' \in 0..MaxCrashes /\ UNCHANGED <<errors, stops>>
    BY <1>17 DEF Crash, RestOK
  <2> QED
    BY <2>1, <2>2, <2>3, <2>4 DEF RestOK
<1>18. ASSUME NEW r \in Replica, Start(r) PROVE RestOK'
  BY <1>18 DEF Start, row, used, RestOK, Mode
<1>19. CASE UNCHANGED vars
  BY <1>19 DEF vars, row, used, RestOK
<1> QED
  BY <1>1, <1>2, <1>3, <1>4, <1>5, <1>6, <1>7, <1>8, <1>9, <1>10, <1>11, <1>12, <1>13, <1>14,
     <1>15, <1>16, <1>17, <1>18, <1>19 DEF Next, RunStep, Unwritten

\* A process has in hand what it says it has.
LEMMA HandStep ==
    ASSUME RunsOK, RowsOK, RestOK, HandInv, AttemptLeft, [Next]_vars
    PROVE  HandInv'
<1>1. ASSUME Tick PROVE HandInv'
  <2>1. TickDoes
    BY <1>1, TickRun
  <2>2. mode \in [Replica -> Mode] /\ queue \in [Replica -> SUBSET Claim]
    BY DEF RestOK
  <2>3. ASSUME NEW q \in Replica, mode'[q] \in {"stopped", "crashed"} PROVE queue'[q] = {}
    BY <2>1, <2>2, <2>3 DEF HandInv, TickDoes, used
  <2>4. ASSUME NEW q \in Replica, NEW z \in Slot PROVE RunInHand(q, z)'
    <3>1. RunInHand(q, z)
      BY DEF HandInv
    <3> QED
      BY <2>1, <2>2, <3>1 DEF RunInHand, TickDoes, used
  <2> QED
    BY <2>3, <2>4 DEF HandInv
<1>2. ASSUME NEW t \in Task, Schedule(t) PROVE HandInv'
  BY <1>2 DEF Schedule, used, HandInv, RunInHand, RestOK
<1>3. ASSUME NEW t \in Task, Cleanup(t) PROVE HandInv'
  BY <1>3 DEF Cleanup, used, HandInv, RunInHand, RestOK
<1>4. ASSUME NEW k \in Key, Cancel(k) PROVE HandInv'
  BY <1>4 DEF Cancel, used, HandInv, RunInHand, RestOK
<1>5. ASSUME NEW k \in Key, NEW r \in Replica, Abort(r, k) PROVE HandInv'
  <2>1. AbortDoes(r)
    BY <1>5, AbortRun
  <2>2. mode \in [Replica -> Mode] /\ queue \in [Replica -> SUBSET Claim]
    BY DEF RestOK
  <2>3. ASSUME NEW q \in Replica, mode'[q] \in {"stopped", "crashed"} PROVE queue'[q] = {}
    BY <2>1, <2>2, <2>3 DEF HandInv, AbortDoes, RunsEnded, Live, used
  <2>4. ASSUME NEW q \in Replica, NEW z \in Slot PROVE RunInHand(q, z)'
    <3>1. RunInHand(q, z)
      BY DEF HandInv
    <3> QED
      BY <2>1, <2>2, <3>1 DEF RunInHand, AbortDoes, RunsEnded, Live, used
  <2> QED
    BY <2>3, <2>4 DEF HandInv
<1>6. ASSUME NEW r \in Replica, NEW ts \in SUBSET Task, ClaimRows(r, ts) PROVE HandInv'
  BY <1>6 DEF ClaimRows, used, HandInv, RunInHand, RestOK
<1>7. ASSUME NEW r \in Replica, NEW s \in Slot, Beat(r, s) PROVE HandInv'
  <2>1. BeatDoes(r, s)
    BY <1>7, BeatRun
  <2>2. mode \in [Replica -> Mode] /\ queue \in [Replica -> SUBSET Claim]
    BY DEF RestOK
  <2>3. ASSUME NEW q \in Replica, mode'[q] \in {"stopped", "crashed"} PROVE queue'[q] = {}
    BY <2>1, <2>2, <2>3 DEF HandInv, BeatDoes, Others, used
  <2>4. ASSUME NEW q \in Replica, NEW z \in Slot PROVE RunInHand(q, z)'
    <3>1. RunInHand(q, z)
      BY DEF HandInv
    <3> QED
      BY <2>1, <2>2, <3>1 DEF RunInHand, BeatDoes, Others, used
  <2> QED
    BY <2>3, <2>4 DEF HandInv
<1>8. ASSUME NEW r \in Replica, NEW s \in Slot, BeatError(r, s) PROVE HandInv'
  <2>1. BeatErrorDoes(r, s)
    BY <1>8, BeatErrorRun
  <2>2. mode \in [Replica -> Mode] /\ queue \in [Replica -> SUBSET Claim]
    BY DEF RestOK
  <2>3. ASSUME NEW q \in Replica, mode'[q] \in {"stopped", "crashed"} PROVE queue'[q] = {}
    BY <2>1, <2>2, <2>3 DEF HandInv, BeatErrorDoes, Others, row
  <2>4. ASSUME NEW q \in Replica, NEW z \in Slot PROVE RunInHand(q, z)'
    <3>1. RunInHand(q, z)
      BY DEF HandInv
    <3> QED
      BY <2>1, <2>2, <3>1 DEF RunInHand, BeatErrorDoes, Others, row
  <2> QED
    BY <2>3, <2>4 DEF HandInv
<1>9. ASSUME NEW r \in Replica, NEW s \in Slot, TimesOut(r, s) PROVE HandInv'
  <2>1. TimesOutDoes(r, s)
    BY <1>9, TimesOutRun
  <2>2. mode \in [Replica -> Mode] /\ queue \in [Replica -> SUBSET Claim]
    BY DEF RestOK
  <2>3. ASSUME NEW q \in Replica, mode'[q] \in {"stopped", "crashed"} PROVE queue'[q] = {}
    BY <2>1, <2>2, <2>3 DEF HandInv, TimesOutDoes, Others, row, used
  <2>4. ASSUME NEW q \in Replica, NEW z \in Slot PROVE RunInHand(q, z)'
    <3>1. RunInHand(q, z)
      BY DEF HandInv
    <3> QED
      BY <2>1, <2>2, <3>1 DEF RunInHand, TimesOutDoes, Others, row, used
  <2> QED
    BY <2>3, <2>4 DEF HandInv
<1>10. ASSUME NEW r \in Replica, NEW s \in Slot, Return(r, s) PROVE HandInv'
  <2>1. ReturnDoes(r, s)
    BY <1>10, ReturnRun
  <2>2. mode \in [Replica -> Mode] /\ queue \in [Replica -> SUBSET Claim]
    BY DEF RestOK
  <2>3. ASSUME NEW q \in Replica, mode'[q] \in {"stopped", "crashed"} PROVE queue'[q] = {}
    BY <2>1, <2>2, <2>3 DEF HandInv, ReturnDoes, Others, row, used
  <2>4. ASSUME NEW q \in Replica, NEW z \in Slot PROVE RunInHand(q, z)'
    <3>1. RunInHand(q, z)
      BY DEF HandInv
    <3> QED
      BY <2>1, <2>2, <3>1 DEF RunInHand, ReturnDoes, Others, row, used
  <2> QED
    BY <2>3, <2>4 DEF HandInv
<1>11. ASSUME NEW r \in Replica, NEW s \in Slot, WriteOutcome(r, s) PROVE HandInv'
  <2>1. WriteOutcomeDoes(r, s)
    BY <1>11, WriteOutcomeRun
  <2>2. mode \in [Replica -> Mode] /\ queue \in [Replica -> SUBSET Claim]
    BY DEF RestOK
  <2>3. ASSUME NEW q \in Replica, mode'[q] \in {"stopped", "crashed"} PROVE queue'[q] = {}
    BY <2>1, <2>2, <2>3 DEF HandInv, WriteOutcomeDoes, Others, row, used
  <2>4. ASSUME NEW q \in Replica, NEW z \in Slot PROVE RunInHand(q, z)'
    <3>1. RunInHand(q, z)
      BY DEF HandInv
    <3> QED
      BY <2>1, <2>2, <3>1 DEF RunInHand, WriteOutcomeDoes, Others, row, used
  <2> QED
    BY <2>3, <2>4 DEF HandInv
<1>12. ASSUME NEW r \in Replica, NEW s \in Slot, Unwritten(r, s) PROVE HandInv'
  <2>1. UnwrittenDoes(r, s)
    BY <1>12, UnwrittenRun
  <2>2. mode \in [Replica -> Mode] /\ queue \in [Replica -> SUBSET Claim]
    BY DEF RestOK
  <2>3. ASSUME NEW q \in Replica, mode'[q] \in {"stopped", "crashed"} PROVE queue'[q] = {}
    BY <2>1, <2>2, <2>3 DEF HandInv, UnwrittenDoes, Others, row
  <2>4. ASSUME NEW q \in Replica, NEW z \in Slot PROVE RunInHand(q, z)'
    <3>1. RunInHand(q, z)
      BY DEF HandInv
    <3> QED
      BY <2>1, <2>2, <3>1 DEF RunInHand, UnwrittenDoes, Others, row
  <2> QED
    BY <2>3, <2>4 DEF HandInv
<1>13. ASSUME NEW r \in Replica, NEW s \in Slot, NEW c \in queue[r], Begin(r, c, s)
       PROVE  HandInv'
  <2>1. BeginDoes(r, c, s)
    BY <1>13, BeginRun
  <2>2. mode \in [Replica -> Mode] /\ queue \in [Replica -> SUBSET Claim]
    BY DEF RestOK
  <2>3. ASSUME NEW q \in Replica, mode'[q] \in {"stopped", "crashed"} PROVE queue'[q] = {}
    BY <2>1, <2>2, <2>3 DEF HandInv, BeginDoes, Others, row, used
  <2>4. ASSUME NEW q \in Replica, NEW z \in Slot PROVE RunInHand(q, z)'
    <3>1. RunInHand(q, z)
      BY DEF HandInv
    <3> QED
      BY <2>1, <2>2, <3>1 DEF RunInHand, BeginDoes, Others, row, used
  <2> QED
    BY <2>3, <2>4 DEF HandInv
<1>14. ASSUME NEW r \in Replica, StopRuns(r) PROVE HandInv'
  <2>1. StopRunsDoes(r)
    BY <1>14, StopRunsRun
  <2>2. mode \in [Replica -> Mode] /\ queue \in [Replica -> SUBSET Claim]
    BY DEF RestOK
  <2>3. ASSUME NEW q \in Replica, mode'[q] \in {"stopped", "crashed"} PROVE queue'[q] = {}
    BY <2>1, <2>2, <2>3 DEF HandInv, StopRunsDoes, RunsEnded, Live, row
  <2>4. ASSUME NEW q \in Replica, NEW z \in Slot PROVE RunInHand(q, z)'
    <3>1. RunInHand(q, z)
      BY DEF HandInv
    <3> QED
      BY <2>1, <2>2, <3>1 DEF RunInHand, StopRunsDoes, RunsEnded, Live, row
  <2> QED
    BY <2>3, <2>4 DEF HandInv
<1>15. ASSUME NEW r \in Replica, StopPoller(r) PROVE HandInv'
  <2>1. StopPollerDoes(r)
    BY <1>15, StopPollerRun
  <2>2. mode \in [Replica -> Mode] /\ queue \in [Replica -> SUBSET Claim]
    BY DEF RestOK
  <2>3. ASSUME NEW q \in Replica, mode'[q] \in {"stopped", "crashed"} PROVE queue'[q] = {}
    BY <2>1, <2>2, <2>3 DEF HandInv, StopPollerDoes, RunsEnded, Live, row, used
  <2>4. ASSUME NEW q \in Replica, NEW z \in Slot PROVE RunInHand(q, z)'
    <3>1. RunInHand(q, z)
      BY DEF HandInv
    <3> QED
      BY <2>1, <2>2, <3>1 DEF RunInHand, StopPollerDoes, RunsEnded, Live, row, used
  <2> QED
    BY <2>3, <2>4 DEF HandInv
<1>16. ASSUME NEW r \in Replica, Stopped(r) PROVE HandInv'
  BY <1>16 DEF Stopped, row, used, HandInv, RunInHand, RestOK
<1>17. ASSUME NEW r \in Replica, Crash(r) PROVE HandInv'
  <2>1. CrashDoes(r)
    BY <1>17, CrashRun
  <2>2. mode \in [Replica -> Mode] /\ queue \in [Replica -> SUBSET Claim]
    BY DEF RestOK
  <2>3. ASSUME NEW q \in Replica, mode'[q] \in {"stopped", "crashed"} PROVE queue'[q] = {}
    BY <2>1, <2>2, <2>3 DEF HandInv, CrashDoes, row
  <2>4. ASSUME NEW q \in Replica, NEW z \in Slot PROVE RunInHand(q, z)'
    <3>1. RunInHand(q, z)
      BY DEF HandInv
    <3> QED
      BY <2>1, <2>2, <3>1 DEF RunInHand, CrashDoes, row
  <2> QED
    BY <2>3, <2>4 DEF HandInv
<1>18. ASSUME NEW r \in Replica, Start(r) PROVE HandInv'
  BY <1>18 DEF Start, row, used, HandInv, RunInHand, RestOK
<1>19. CASE UNCHANGED vars
  BY <1>19 DEF vars, row, used, HandInv, RunInHand, RestOK
<1> QED
  BY <1>1, <1>2, <1>3, <1>4, <1>5, <1>6, <1>7, <1>8, <1>9, <1>10, <1>11, <1>12, <1>13, <1>14,
     <1>15, <1>16, <1>17, <1>18, <1>19 DEF Next, RunStep, Unwritten

\* Nobody counts attempts or times a row before it is claimed.
LEMMA FreshStep ==
    ASSUME RunsOK, RowsOK, RestOK, HandInv, AttemptLeft, FreshInv, [Next]_vars
    PROVE  FreshInv'
<1>1. ASSUME Tick PROVE FreshInv'
  <2>1. TickDoes
    BY <1>1, TickRun
  <2> QED
    BY <2>1 DEF TickDoes, used, FreshInv, HandInv, RowsOK, Open
<1>2. ASSUME NEW t \in Task, Schedule(t) PROVE FreshInv'
  BY <1>2 DEF Schedule, used, FreshInv, HandInv, RowsOK, Open
<1>3. ASSUME NEW t \in Task, Cleanup(t) PROVE FreshInv'
  BY <1>3 DEF Cleanup, used, FreshInv, HandInv, RowsOK, Open
<1>4. ASSUME NEW k \in Key, Cancel(k) PROVE FreshInv'
  BY <1>4 DEF Cancel, used, FreshInv, HandInv, RowsOK, Open
<1>5. ASSUME NEW k \in Key, NEW r \in Replica, Abort(r, k) PROVE FreshInv'
  <2>1. AbortDoes(r)
    BY <1>5, AbortRun
  <2> QED
    BY <2>1 DEF AbortDoes, RunsEnded, Live, used, FreshInv, HandInv, RowsOK, Open
<1>6. ASSUME NEW r \in Replica, NEW ts \in SUBSET Task, ClaimRows(r, ts) PROVE FreshInv'
  BY <1>6 DEF ClaimRows, used, FreshInv, HandInv, RowsOK, Open
<1>7. ASSUME NEW r \in Replica, NEW s \in Slot, Beat(r, s) PROVE FreshInv'
  <2>1. BeatDoes(r, s)
    BY <1>7, BeatRun
  <2> QED
    BY <2>1 DEF BeatDoes, Others, used, FreshInv, HandInv, RowsOK, Open
<1>8. ASSUME NEW r \in Replica, NEW s \in Slot, BeatError(r, s) PROVE FreshInv'
  <2>1. BeatErrorDoes(r, s)
    BY <1>8, BeatErrorRun
  <2> QED
    BY <2>1 DEF BeatErrorDoes, Others, row, FreshInv, HandInv, RowsOK, Open
<1>9. ASSUME NEW r \in Replica, NEW s \in Slot, TimesOut(r, s) PROVE FreshInv'
  <2>1. TimesOutDoes(r, s)
    BY <1>9, TimesOutRun
  <2> QED
    BY <2>1 DEF TimesOutDoes, Others, row, used, FreshInv, HandInv, RowsOK, Open
<1>10. ASSUME NEW r \in Replica, NEW s \in Slot, Return(r, s) PROVE FreshInv'
  <2>1. ReturnDoes(r, s)
    BY <1>10, ReturnRun
  <2> QED
    BY <2>1 DEF ReturnDoes, Others, row, used, FreshInv, HandInv, RowsOK, Open
<1>11. ASSUME NEW r \in Replica, NEW s \in Slot, WriteOutcome(r, s) PROVE FreshInv'
  <2>1. WriteOutcomeDoes(r, s)
    BY <1>11, WriteOutcomeRun
  <2>2. ASSUME NEW t \in Task
        PROVE  /\ status'[t] = "absent" => attempts'[t] = 0
               /\ status'[t] \in {"absent", "pending"} => age'[t] = 0
    <3>1. CASE t = run[r][s].task /\ status[t] = "running"
      BY <2>1, <3>1 DEF WriteOutcomeDoes, RowsOK
    <3>2. CASE t # run[r][s].task \/ status[t] # "running"
      <4>1. status'[t] = status[t] /\ attempts'[t] = attempts[t] /\ age'[t] = age[t]
        BY <2>1, <3>2 DEF WriteOutcomeDoes, RowsOK, row
      <4> QED
        BY <4>1 DEF FreshInv
    <3> QED
      BY <3>1, <3>2
  <2> QED
    BY <2>2 DEF FreshInv
<1>12. ASSUME NEW r \in Replica, NEW s \in Slot, Unwritten(r, s) PROVE FreshInv'
  <2>1. UnwrittenDoes(r, s)
    BY <1>12, UnwrittenRun
  <2> QED
    BY <2>1 DEF UnwrittenDoes, Others, row, FreshInv, HandInv, RowsOK, Open
<1>13. ASSUME NEW r \in Replica, NEW s \in Slot, NEW c \in queue[r], Begin(r, c, s)
       PROVE  FreshInv'
  <2>1. BeginDoes(r, c, s)
    BY <1>13, BeginRun
  <2> QED
    BY <2>1 DEF BeginDoes, Others, row, used, FreshInv, HandInv, RowsOK, Open
<1>14. ASSUME NEW r \in Replica, StopRuns(r) PROVE FreshInv'
  <2>1. StopRunsDoes(r)
    BY <1>14, StopRunsRun
  <2> QED
    BY <2>1 DEF StopRunsDoes, RunsEnded, Live, row, FreshInv, HandInv, RowsOK, Open
<1>15. ASSUME NEW r \in Replica, StopPoller(r) PROVE FreshInv'
  <2>1. StopPollerDoes(r)
    BY <1>15, StopPollerRun
  <2> QED
    BY <2>1 DEF StopPollerDoes, RunsEnded, Live, row, used, FreshInv, HandInv, RowsOK, Open
<1>16. ASSUME NEW r \in Replica, Stopped(r) PROVE FreshInv'
  BY <1>16 DEF Stopped, row, used, FreshInv, HandInv, RowsOK, Open
<1>17. ASSUME NEW r \in Replica, Crash(r) PROVE FreshInv'
  <2>1. CrashDoes(r)
    BY <1>17, CrashRun
  <2> QED
    BY <2>1 DEF CrashDoes, row, FreshInv, HandInv, RowsOK, Open
<1>18. ASSUME NEW r \in Replica, Start(r) PROVE FreshInv'
  BY <1>18 DEF Start, row, used, FreshInv, HandInv, RowsOK, Open
<1>19. CASE UNCHANGED vars
  BY <1>19 DEF vars, row, used, FreshInv, HandInv, RowsOK, Open
<1> QED
  BY <1>1, <1>2, <1>3, <1>4, <1>5, <1>6, <1>7, <1>8, <1>9, <1>10, <1>11, <1>12, <1>13, <1>14,
     <1>15, <1>16, <1>17, <1>18, <1>19 DEF Next, RunStep, Unwritten

\* A step that moves no row between the table, a batch and a run.
Steady ==
    /\ queue' = queue /\ claimer' = claimer /\ attempts' = attempts
    /\ errors' = 0 => errors = 0
    /\ \A t \in Task : /\ status'[t] = "running" => status[t] = "running"
                       /\ status'[t] \in Open => status[t] \in Open \cup {"absent"}
    /\ \A q \in Replica, z \in Slot :
         /\ run'[q][z].phase = "idle" <=> run[q][z].phase = "idle"
         /\ run'[q][z].task = run[q][z].task /\ run'[q][z].read = run[q][z].read

\* The steps that move rows are the claim, the start of a run, its outcome
\* and the death of the process.
Moves(r) ==
    \/ \E ts \in SUBSET Task : ClaimRows(r, ts)
    \/ \E s \in Slot, c \in queue[r] : Begin(r, c, s)
    \/ \E s \in Slot : WriteOutcome(r, s) \/ Unwritten(r, s)
    \/ Crash(r)

\* Every other step is steady.
LEMMA SteadyStep ==
    ASSUME RunsOK, RowsOK, RestOK, HandInv, AttemptLeft, [Next]_vars
    PROVE  Steady \/ \E r \in Replica : Moves(r)
<1>1. ASSUME Tick PROVE Steady
  <2>1. TickDoes
    BY <1>1, TickRun
  <2> QED
    BY <2>1 DEF TickDoes, used, Steady, RestOK, Open
<1>2. ASSUME NEW t \in Task, Schedule(t) PROVE Steady
  BY <1>2 DEF Schedule, used, row, Steady, RowsOK, RestOK, Open
<1>3. ASSUME NEW t \in Task, Cleanup(t) PROVE Steady
  BY <1>3 DEF Cleanup, used, row, Steady, RowsOK, RestOK, Open
<1>4. ASSUME NEW k \in Key, Cancel(k) PROVE Steady
  BY <1>4 DEF Cancel, used, row, Steady, RowsOK, RestOK, Open
<1>5. ASSUME NEW k \in Key, NEW r \in Replica, Abort(r, k) PROVE Steady
  <2>1. AbortDoes(r)
    BY <1>5, AbortRun
  <2> QED
    BY <2>1 DEF AbortDoes, RunsEnded, Live, used, Steady, RestOK, Open
<1>6. ASSUME NEW r \in Replica, NEW s \in Slot, Beat(r, s) PROVE Steady
  <2>1. BeatDoes(r, s)
    BY <1>6, BeatRun
  <2> QED
    BY <2>1 DEF BeatDoes, Others, used, Steady, RestOK, Open
<1>7. ASSUME NEW r \in Replica, NEW s \in Slot, BeatError(r, s) PROVE Steady
  <2>1. BeatErrorDoes(r, s)
    BY <1>7, BeatErrorRun
  <2> QED
    BY <2>1 DEF BeatErrorDoes, Others, row, Steady, RestOK, Open
<1>8. ASSUME NEW r \in Replica, NEW s \in Slot, TimesOut(r, s) PROVE Steady
  <2>1. TimesOutDoes(r, s)
    BY <1>8, TimesOutRun
  <2> QED
    BY <2>1 DEF TimesOutDoes, Others, row, used, Steady, RestOK, Open
<1>9. ASSUME NEW r \in Replica, NEW s \in Slot, Return(r, s) PROVE Steady
  <2>1. ReturnDoes(r, s)
    BY <1>9, ReturnRun
  <2> QED
    BY <2>1 DEF ReturnDoes, Others, row, used, Steady, RestOK, Open
<1>10. ASSUME NEW r \in Replica, StopRuns(r) PROVE Steady
  <2>1. StopRunsDoes(r)
    BY <1>10, StopRunsRun
  <2> QED
    BY <2>1 DEF StopRunsDoes, RunsEnded, Live, row, Steady, RestOK, Open
<1>11. ASSUME NEW r \in Replica, StopPoller(r) PROVE Steady
  <2>1. StopPollerDoes(r)
    BY <1>11, StopPollerRun
  <2> QED
    BY <2>1 DEF StopPollerDoes, RunsEnded, Live, row, used, Steady, RestOK, Open
<1>12. ASSUME NEW r \in Replica, Stopped(r) PROVE Steady
  BY <1>12 DEF Stopped, row, used, Steady, RowsOK, RestOK, Open
<1>13. ASSUME NEW r \in Replica, Start(r) PROVE Steady
  BY <1>13 DEF Start, row, used, Steady, RowsOK, RestOK, Open
<1>14. CASE UNCHANGED vars
  BY <1>14 DEF vars, row, used, Steady, Open
<1> QED
  BY <1>1, <1>2, <1>3, <1>4, <1>5, <1>6, <1>7, <1>8, <1>9, <1>10, <1>11, <1>12, <1>13, <1>14 DEF
     Next, RunStep, Unwritten, Moves

\* No claim and no outcome uses up an attempt that is not there.
LEMMA AttemptStep ==
    ASSUME RunsOK, RowsOK, RestOK, HandInv, AttemptLeft, FreshInv, [Next]_vars
    PROVE  AttemptLeft'
<1>1. ASSUME Steady PROVE AttemptLeft'
  <2>2. ASSUME NEW t \in Task, status'[t] \in Open PROVE attempts'[t] < MaxAttempts
    BY <1>1, <2>2 DEF Steady, AttemptLeft, FreshInv, RowsOK, Open
  <2>3. ASSUME NEW q \in Replica, NEW d \in queue'[q] PROVE d.read < MaxAttempts
    BY <1>1, <2>3 DEF Steady, AttemptLeft, RestOK
  <2>4. ASSUME NEW q \in Replica, NEW z \in Slot PROVE run'[q][z].read < MaxAttempts
    BY <1>1 DEF Steady, AttemptLeft
  <2> QED
    BY <2>2, <2>3, <2>4 DEF AttemptLeft
<1>2. ASSUME NEW r \in Replica, NEW ts \in SUBSET Task, ClaimRows(r, ts) PROVE AttemptLeft'
  <2>2. ASSUME NEW t \in Task, status'[t] \in Open PROVE attempts'[t] < MaxAttempts
    BY <1>2, <2>2 DEF ClaimRows, Claimable, AttemptLeft, FreshInv, RowsOK, Open
  <2>3. ASSUME NEW q \in Replica, NEW d \in queue'[q] PROVE d.read < MaxAttempts
    <3>1. CASE q = r
      <4>1. PICK t \in ts : d = [task |-> t, read |-> attempts[t]]
        BY <1>2, <2>3, <3>1 DEF ClaimRows, RestOK
      <4>2. d.read = attempts[t] /\ status[t] \in Open
        BY <1>2, <4>1 DEF ClaimRows, Claimable, Open
      <4> QED
        BY <4>2 DEF AttemptLeft
    <3>2. CASE q # r
      BY <1>2, <2>3, <3>2 DEF ClaimRows, AttemptLeft, RestOK
    <3> QED
      BY <3>1, <3>2
  <2>4. ASSUME NEW q \in Replica, NEW z \in Slot PROVE run'[q][z].read < MaxAttempts
    BY <1>2 DEF ClaimRows, Claimable, AttemptLeft
  <2> QED
    BY <2>2, <2>3, <2>4 DEF AttemptLeft
<1>3. ASSUME NEW r \in Replica, NEW s \in Slot, NEW c \in queue[r], Begin(r, c, s)
      PROVE  AttemptLeft'
  <2>1. BeginDoes(r, c, s)
    BY <1>3, BeginRun
  <2>2. ASSUME NEW t \in Task, status'[t] \in Open PROVE attempts'[t] < MaxAttempts
    BY <2>1, <2>2 DEF BeginDoes, Others, row, used, AttemptLeft, FreshInv, RowsOK, Open
  <2>3. ASSUME NEW q \in Replica, NEW d \in queue'[q] PROVE d.read < MaxAttempts
    BY <2>1, <2>3 DEF BeginDoes, Others, row, used, AttemptLeft, RestOK
  <2>4. ASSUME NEW q \in Replica, NEW z \in Slot PROVE run'[q][z].read < MaxAttempts
    BY <2>1 DEF BeginDoes, Others, row, used, AttemptLeft
  <2> QED
    BY <2>2, <2>3, <2>4 DEF AttemptLeft
<1>4. ASSUME NEW r \in Replica, NEW s \in Slot, WriteOutcome(r, s) PROVE AttemptLeft'
  <2>1. WriteOutcomeDoes(r, s)
    BY <1>4, WriteOutcomeRun
  <2>2. ASSUME NEW t \in Task, status'[t] \in Open PROVE attempts'[t] < MaxAttempts
    BY <2>1, <2>2 DEF WriteOutcomeDoes, Others, row, used, AttemptLeft, FreshInv, RowsOK, Open
  <2>3. ASSUME NEW q \in Replica, NEW d \in queue'[q] PROVE d.read < MaxAttempts
    BY <2>1, <2>3 DEF WriteOutcomeDoes, Others, row, used, AttemptLeft, RestOK
  <2>4. ASSUME NEW q \in Replica, NEW z \in Slot PROVE run'[q][z].read < MaxAttempts
    BY <2>1 DEF WriteOutcomeDoes, Others, row, used, AttemptLeft
  <2> QED
    BY <2>2, <2>3, <2>4 DEF AttemptLeft
<1>5. ASSUME NEW r \in Replica, NEW s \in Slot, Unwritten(r, s) PROVE AttemptLeft'
  <2>1. UnwrittenDoes(r, s)
    BY <1>5, UnwrittenRun
  <2>2. ASSUME NEW t \in Task, status'[t] \in Open PROVE attempts'[t] < MaxAttempts
    BY <2>1, <2>2 DEF UnwrittenDoes, Others, row, AttemptLeft, FreshInv, RowsOK, Open
  <2>3. ASSUME NEW q \in Replica, NEW d \in queue'[q] PROVE d.read < MaxAttempts
    BY <2>1, <2>3 DEF UnwrittenDoes, Others, row, AttemptLeft, RestOK
  <2>4. ASSUME NEW q \in Replica, NEW z \in Slot PROVE run'[q][z].read < MaxAttempts
    BY <2>1 DEF UnwrittenDoes, Others, row, AttemptLeft
  <2> QED
    BY <2>2, <2>3, <2>4 DEF AttemptLeft
<1>6. ASSUME NEW r \in Replica, Crash(r) PROVE AttemptLeft'
  <2>1. CrashDoes(r)
    BY <1>6, CrashRun
  <2>2. ASSUME NEW t \in Task, status'[t] \in Open PROVE attempts'[t] < MaxAttempts
    BY <2>1, <2>2 DEF CrashDoes, row, AttemptLeft, FreshInv, RowsOK, Open
  <2>3. ASSUME NEW q \in Replica, NEW d \in queue'[q] PROVE d.read < MaxAttempts
    BY <2>1, <2>3 DEF CrashDoes, row, AttemptLeft, RestOK
  <2>4. ASSUME NEW q \in Replica, NEW z \in Slot PROVE run'[q][z].read < MaxAttempts
    BY <2>1 DEF CrashDoes, row, AttemptLeft
  <2> QED
    BY <2>2, <2>3, <2>4 DEF AttemptLeft
<1> QED
  BY <1>1, <1>2, <1>3, <1>4, <1>5, <1>6, SteadyStep DEF Moves

\* The claimer of a running row has it in hand.
LEMMA HeldStep ==
    ASSUME RunsOK, RowsOK, RestOK, HandInv, AttemptLeft, HeldInv, [Next]_vars
    PROVE  HeldInv'
<1>1. ASSUME Steady PROVE HeldInv'
  <2>2. ASSUME errors' = 0, NEW t \in Task, NEW q \in Replica,
               status'[t] = "running", claimer'[t] = q
        PROVE  Holds(q, t)'
    <3>1. Holds(q, t)
      BY <1>1, <2>2 DEF Steady, HeldInv
    <3> QED
      BY <1>1, <3>1 DEF Steady, Holds
  <2> QED
    BY <2>2 DEF HeldInv
<1>2. ASSUME NEW r \in Replica, NEW ts \in SUBSET Task, ClaimRows(r, ts) PROVE HeldInv'
  <2>2. ASSUME errors' = 0, NEW t \in Task, NEW q \in Replica,
               status'[t] = "running", claimer'[t] = q
        PROVE  Holds(q, t)'
    <3>1. CASE t \in ts
      <4>1. [task |-> t, read |-> attempts[t]] \in queue'[q]
        BY <1>2, <2>2, <3>1 DEF ClaimRows, RestOK
      <4> QED
        BY <4>1 DEF Holds
    <3>2. CASE t \notin ts
      <4>1. Holds(q, t)
        BY <1>2, <2>2, <3>2 DEF ClaimRows, HeldInv, used
      <4>2. queue[r] = {} /\ run' = run /\ \A v \in Replica : v # r => queue'[v] = queue[v]
        BY <1>2 DEF ClaimRows, PollerFree, RestOK
      <4> QED
        BY <4>1, <4>2 DEF Holds
    <3> QED
      BY <3>1, <3>2
  <2> QED
    BY <2>2 DEF HeldInv
<1>3. ASSUME NEW r \in Replica, NEW s \in Slot, NEW c \in queue[r], Begin(r, c, s)
      PROVE  HeldInv'
  <2>1. BeginDoes(r, c, s)
    BY <1>3, BeginRun
  <2>2. ASSUME errors' = 0, NEW t \in Task, NEW q \in Replica,
               status'[t] = "running", claimer'[t] = q
        PROVE  Holds(q, t)'
    <3>1. Holds(q, t)
      BY <2>1, <2>2 DEF BeginDoes, HeldInv, row, used
    <3>2. CASE \E d \in queue[q] : d.task = t
      BY <2>1, <3>2 DEF BeginDoes, Holds, RestOK
    <3>3. CASE \E z \in Slot : run[q][z].phase # "idle" /\ run[q][z].task = t
      BY <2>1, <3>3 DEF BeginDoes, Others, Holds
    <3> QED
      BY <3>1, <3>2, <3>3 DEF Holds
  <2> QED
    BY <2>2 DEF HeldInv
<1>4. ASSUME NEW r \in Replica, NEW s \in Slot, WriteOutcome(r, s) PROVE HeldInv'
  <2>1. WriteOutcomeDoes(r, s)
    BY <1>4, WriteOutcomeRun
  <2>2. ASSUME errors' = 0, NEW t \in Task, NEW q \in Replica,
               status'[t] = "running", claimer'[t] = q
        PROVE  Holds(q, t)'
    <3>1. status[t] = "running" /\ t # run[r][s].task
      BY <2>1, <2>2 DEF WriteOutcomeDoes, RowsOK, row
    <3>2. Holds(q, t)
      BY <2>1, <2>2, <3>1 DEF WriteOutcomeDoes, HeldInv, used
    <3>3. queue' = queue /\ Others(r, s)
      BY <2>1 DEF WriteOutcomeDoes
    <3> QED
      BY <3>1, <3>2, <3>3 DEF Holds, Others
  <2> QED
    BY <2>2 DEF HeldInv
<1>5. ASSUME NEW r \in Replica, NEW s \in Slot, Unwritten(r, s) PROVE HeldInv'
  <2>1. UnwrittenDoes(r, s)
    BY <1>5, UnwrittenRun
  <2>2. ASSUME errors' = 0, NEW t \in Task, NEW q \in Replica,
               status'[t] = "running", claimer'[t] = q
        PROVE  Holds(q, t)'
    <3>1. errors = 0 /\ status[t] = "running"
      BY <2>1, <2>2 DEF UnwrittenDoes, RestOK, row
    <3>2. /\ claimer' = [claimer EXCEPT ![run[r][s].task] = IF @ = r THEN NoReplica ELSE @]
          /\ queue' = queue /\ Others(r, s)
      BY <2>1, <2>2, <3>1 DEF UnwrittenDoes
    <3>3. claimer[t] = q /\ (q # r \/ t # run[r][s].task)
      BY <2>2, <3>2 DEF RestOK
    <3>4. Holds(q, t)
      BY <3>1, <3>3 DEF HeldInv
    <3> QED
      BY <3>2, <3>3, <3>4 DEF Holds, Others
  <2> QED
    BY <2>2 DEF HeldInv
<1>6. ASSUME NEW r \in Replica, Crash(r) PROVE HeldInv'
  <2>1. CrashDoes(r)
    BY <1>6, CrashRun
  <2>2. ASSUME errors' = 0, NEW t \in Task, NEW q \in Replica,
               status'[t] = "running", claimer'[t] = q
        PROVE  Holds(q, t)'
    <3>1. q # r /\ claimer[t] = q /\ status[t] = "running" /\ errors = 0
      BY <2>1, <2>2 DEF CrashDoes, RestOK, row
    <3>2. Holds(q, t)
      BY <3>1 DEF HeldInv
    <3>3. queue'[q] = queue[q] /\ \A z \in Slot : run'[q][z] = run[q][z]
      BY <2>1, <3>1 DEF CrashDoes, RestOK
    <3> QED
      BY <3>2, <3>3 DEF Holds
  <2> QED
    BY <2>2 DEF HeldInv
<1> QED
  BY <1>1, <1>2, <1>3, <1>4, <1>5, <1>6, SteadyStep DEF Moves

\* Both sets are finite.
LEMMA RoomCounts ==
    ASSUME NEW r \in Replica, IsFiniteSet(queue[r])
    PROVE  /\ IsFiniteSet(LongQueued(r)) /\ Cardinality(LongQueued(r)) \in Nat
           /\ IsFiniteSet(BusySlots(r)) /\ Cardinality(BusySlots(r)) \in Nat
<1>1. IsFiniteSet(LongQueued(r))
  BY FS_Subset DEF LongQueued
<1>2. IsFiniteSet(PoolSlot)
  BY FS_Interval DEF PoolSlot
<1>3. IsFiniteSet(BusySlots(r))
  BY <1>2, FS_Subset DEF BusySlots
<1> QED
  BY <1>1, <1>3, FS_CardinalityType

\* A smaller batch and a pool no busier fit where the ones before did.
LEMMA RoomShrinks ==
    ASSUME NEW r \in Replica, Room(r), queue'[r] \subseteq queue[r],
           BusySlots(r)' \subseteq BusySlots(r)
    PROVE  Room(r)'
<1>1. /\ IsFiniteSet(LongQueued(r)) /\ Cardinality(LongQueued(r)) \in Nat
      /\ IsFiniteSet(BusySlots(r)) /\ Cardinality(BusySlots(r)) \in Nat
  BY RoomCounts DEF Room
<1>2. LongQueued(r)' \subseteq LongQueued(r)
  BY DEF LongQueued
<1>3. /\ IsFiniteSet(LongQueued(r)') /\ Cardinality(LongQueued(r)') <= Cardinality(LongQueued(r))
      /\ IsFiniteSet(BusySlots(r)') /\ Cardinality(BusySlots(r)') <= Cardinality(BusySlots(r))
  BY <1>1, <1>2, FS_Subset
<1>4. Cardinality(LongQueued(r)') \in Nat /\ Cardinality(BusySlots(r)') \in Nat
  BY <1>3, FS_CardinalityType
<1>5. IsFiniteSet(queue'[r])
  BY FS_Subset DEF Room
<1> QED
  BY <1>1, <1>3, <1>4, <1>5 DEF Room

\* The rows a claim queues are no more than those it took.
LEMMA ClaimedRoom ==
    ASSUME RestOK, NEW r \in Replica, Room(r), NEW ts \in SUBSET Task, ClaimRows(r, ts)
    PROVE  Room(r)'
<1>1. IsFiniteSet(ts) /\ IsFiniteSet(ts \cap Long)
  BY FS_Subset
<1> DEFINE claim == [t \in ts |-> [task |-> t, read |-> attempts[t]]]
<1> DEFINE longClaim == [t \in ts \cap Long |-> [task |-> t, read |-> attempts[t]]]
<1>2. queue'[r] = {[task |-> t, read |-> attempts[t]] : t \in ts}
  BY DEF ClaimRows, RestOK
<1>3. claim \in Surjection(ts, queue'[r])
  BY <1>2 DEF Surjection
<1>4. longClaim \in Surjection(ts \cap Long, LongQueued(r)')
  BY <1>2 DEF Surjection, LongQueued
<1> HIDE DEF claim, longClaim
<1>5. /\ IsFiniteSet(queue'[r]) /\ IsFiniteSet(LongQueued(r)')
      /\ Cardinality(LongQueued(r)') <= Cardinality(ts \cap Long)
  BY <1>1, <1>3, <1>4, FS_Surjection
<1>6. BusySlots(r)' = BusySlots(r) /\ Cardinality(ts \cap Long) <= LongWorkers - Cardinality(BusySlots(r))
  BY DEF ClaimRows, Free, BusySlots
<1>7. /\ Cardinality(ts \cap Long) \in Nat /\ Cardinality(LongQueued(r)') \in Nat
      /\ Cardinality(BusySlots(r)) \in Nat
  BY <1>1, <1>5, RoomCounts, FS_CardinalityType DEF Room
<1> QED
  BY <1>5, <1>6, <1>7 DEF Room

\* A run that begins takes one place of the pool for one row of the batch.
LEMMA BegunRoom ==
    ASSUME RestOK, NEW r \in Replica, Room(r), NEW s \in Slot, NEW c \in queue[r],
           BeginDoes(r, c, s)
    PROVE  Room(r)'
<1>1. /\ IsFiniteSet(LongQueued(r)) /\ Cardinality(LongQueued(r)) \in Nat
      /\ IsFiniteSet(BusySlots(r)) /\ Cardinality(BusySlots(r)) \in Nat
  BY RoomCounts DEF Room
<1>2. queue'[r] = queue[r] \ {c}
  BY DEF BeginDoes, RestOK
<1>3. CASE s = 0
  <2>1. BusySlots(r)' \subseteq BusySlots(r)
    BY <1>3 DEF BeginDoes, Others, BusySlots, PoolSlot, Slot
  <2> QED
    BY <1>2, <2>1, RoomShrinks
<1>4. CASE s # 0
  <2>1. c \in LongQueued(r) /\ LongQueued(r)' = LongQueued(r) \ {c}
    BY <1>2, <1>4 DEF BeginDoes, LongQueued, Short
  <2>2. s \in PoolSlot /\ s \notin BusySlots(r)
    BY <1>4 DEF BeginDoes, BusySlots, PoolSlot, Slot
  <2>3. BusySlots(r)' = BusySlots(r) \cup {s}
    BY <1>4, <2>2 DEF BeginDoes, Others, BusySlots, PoolSlot, Slot
  <2>4. /\ Cardinality(LongQueued(r)') = Cardinality(LongQueued(r)) - 1
        /\ Cardinality(BusySlots(r)') = Cardinality(BusySlots(r)) + 1
    <3>1. Cardinality(LongQueued(r) \ {c}) = Cardinality(LongQueued(r)) - 1
      BY <1>1, <2>1, FS_RemoveElement
    <3>2. Cardinality(BusySlots(r) \cup {s}) = Cardinality(BusySlots(r)) + 1
      BY <1>1, <2>2, FS_AddElement
    <3> QED
      BY <2>1, <2>3, <3>1, <3>2
  <2>5. IsFiniteSet(queue'[r])
    BY <1>2, FS_RemoveElement DEF Room
  <2> QED
    BY <1>1, <2>4, <2>5 DEF Room
<1> QED
  BY <1>3, <1>4

\* The pool keeps a place for every long row of the batch.
LEMMA RoomStep ==
    ASSUME RunsOK, RowsOK, RestOK, HandInv, AttemptLeft, RoomInv, [Next]_vars
    PROVE  RoomInv'
<1>1. ASSUME Steady PROVE RoomInv'
  <2>2. ASSUME NEW q \in Replica PROVE Room(q)'
    <3>1. Room(q) /\ queue'[q] \subseteq queue[q]
      BY <1>1 DEF RoomInv, RestOK, Steady
    <3>2. BusySlots(q)' \subseteq BusySlots(q)
      BY <1>1 DEF BusySlots, PoolSlot, Slot, Steady
    <3> QED
      BY <3>1, <3>2, RoomShrinks
  <2> QED
    BY <2>2 DEF RoomInv
<1>2. ASSUME NEW r \in Replica, NEW ts \in SUBSET Task, ClaimRows(r, ts) PROVE RoomInv'
  <2>2. Room(r)'
    BY <1>2, ClaimedRoom DEF RoomInv
  <2>3. ASSUME NEW q \in Replica, q # r PROVE Room(q)'
    <3>1. Room(q) /\ queue'[q] \subseteq queue[q]
      BY <1>2, <2>3 DEF RoomInv, RestOK, ClaimRows
    <3>2. BusySlots(q)' \subseteq BusySlots(q)
      BY <1>2, <2>3 DEF BusySlots, PoolSlot, Slot, ClaimRows
    <3> QED
      BY <3>1, <3>2, RoomShrinks
  <2> QED
    BY <2>2, <2>3 DEF RoomInv
<1>3. ASSUME NEW r \in Replica, NEW s \in Slot, NEW c \in queue[r], Begin(r, c, s)
      PROVE  RoomInv'
  <2>1. BeginDoes(r, c, s)
    BY <1>3, BeginRun
  <2>2. Room(r)'
    BY <2>1, BegunRoom DEF RoomInv
  <2>3. ASSUME NEW q \in Replica, q # r PROVE Room(q)'
    <3>1. Room(q) /\ queue'[q] \subseteq queue[q]
      BY <2>1, <2>3 DEF RoomInv, RestOK, BeginDoes
    <3>2. BusySlots(q)' \subseteq BusySlots(q)
      BY <2>1, <2>3 DEF BusySlots, PoolSlot, Slot, BeginDoes, Others
    <3> QED
      BY <3>1, <3>2, RoomShrinks
  <2> QED
    BY <2>2, <2>3 DEF RoomInv
<1>4. ASSUME NEW r \in Replica, NEW s \in Slot, WriteOutcome(r, s) PROVE RoomInv'
  <2>1. WriteOutcomeDoes(r, s)
    BY <1>4, WriteOutcomeRun
  <2>2. ASSUME NEW q \in Replica PROVE Room(q)'
    <3>1. Room(q) /\ queue'[q] \subseteq queue[q]
      BY <2>1 DEF RoomInv, RestOK, WriteOutcomeDoes
    <3>2. BusySlots(q)' \subseteq BusySlots(q)
      BY <2>1 DEF BusySlots, PoolSlot, Slot, WriteOutcomeDoes, Others
    <3> QED
      BY <3>1, <3>2, RoomShrinks
  <2> QED
    BY <2>2 DEF RoomInv
<1>5. ASSUME NEW r \in Replica, NEW s \in Slot, Unwritten(r, s) PROVE RoomInv'
  <2>1. UnwrittenDoes(r, s)
    BY <1>5, UnwrittenRun
  <2>2. ASSUME NEW q \in Replica PROVE Room(q)'
    <3>1. Room(q) /\ queue'[q] \subseteq queue[q]
      BY <2>1 DEF RoomInv, RestOK, UnwrittenDoes
    <3>2. BusySlots(q)' \subseteq BusySlots(q)
      BY <2>1 DEF BusySlots, PoolSlot, Slot, UnwrittenDoes, Others
    <3> QED
      BY <3>1, <3>2, RoomShrinks
  <2> QED
    BY <2>2 DEF RoomInv
<1>6. ASSUME NEW r \in Replica, Crash(r) PROVE RoomInv'
  <2>1. CrashDoes(r)
    BY <1>6, CrashRun
  <2>2. ASSUME NEW q \in Replica PROVE Room(q)'
    <3>1. Room(q) /\ queue'[q] \subseteq queue[q]
      BY <2>1 DEF RoomInv, RestOK, CrashDoes
    <3>2. BusySlots(q)' \subseteq BusySlots(q)
      BY <2>1 DEF BusySlots, PoolSlot, Slot, CrashDoes
    <3> QED
      BY <3>1, <3>2, RoomShrinks
  <2> QED
    BY <2>2 DEF RoomInv
<1> QED
  BY <1>1, <1>2, <1>3, <1>4, <1>5, <1>6, SteadyStep DEF Moves

\* A run hears of an abort at its next heartbeat.
LEMMA HeardStep ==
    ASSUME RunsOK, RowsOK, RestOK, HandInv, AttemptLeft, FreshInv, HeardInv, [Next]_vars
    PROVE  HeardInv'
<1>1. ASSUME Tick PROVE HeardInv'
  <2>1. TickDoes
    BY <1>1, TickRun
  <2>2. ASSUME Timely, errors' = 0, NEW q \in Replica, NEW z \in Slot PROVE Heard(q, z)'
    <3>1. errors = 0
      BY <2>1, <2>2 DEF TickDoes, used
    <3>2. /\ Heard(q, z) /\ RunInHand(q, z)
          /\ run[q][z].beat \in 0..Heartbeat /\ run[q][z].ran \in 0..Longest
      BY <2>2, <3>1, RunFields DEF HeardInv, HandInv
    <3> QED
      BY <2>1, <2>2, <3>2 DEF Heard, RunInHand, RowsOK, TickDoes, Busy, Live
  <2> QED
    BY <2>2 DEF HeardInv
<1>2. ASSUME NEW t \in Task, Schedule(t) PROVE HeardInv'
  <2>2. ASSUME Timely, errors' = 0, NEW q \in Replica, NEW z \in Slot PROVE Heard(q, z)'
    <3>1. errors = 0
      BY <1>2, <2>2 DEF Schedule, used
    <3>2. /\ Heard(q, z) /\ RunInHand(q, z)
          /\ run[q][z].beat \in 0..Heartbeat /\ run[q][z].ran \in 0..Longest
      BY <2>2, <3>1, RunFields DEF HeardInv, HandInv
    <3> QED
      BY <1>2, <2>2, <3>2 DEF Heard, RunInHand, RowsOK, Schedule
  <2> QED
    BY <2>2 DEF HeardInv
<1>3. ASSUME NEW t \in Task, Cleanup(t) PROVE HeardInv'
  <2>2. ASSUME Timely, errors' = 0, NEW q \in Replica, NEW z \in Slot PROVE Heard(q, z)'
    <3>1. errors = 0
      BY <1>3, <2>2 DEF Cleanup, used
    <3>2. /\ Heard(q, z) /\ RunInHand(q, z)
          /\ run[q][z].beat \in 0..Heartbeat /\ run[q][z].ran \in 0..Longest
      BY <2>2, <3>1, RunFields DEF HeardInv, HandInv
    <3> QED
      BY <1>3, <2>2, <3>2 DEF Heard, RunInHand, RowsOK, Cleanup
  <2> QED
    BY <2>2 DEF HeardInv
<1>4. ASSUME NEW k \in Key, Cancel(k) PROVE HeardInv'
  <2>2. ASSUME Timely, errors' = 0, NEW q \in Replica, NEW z \in Slot PROVE Heard(q, z)'
    <3>1. errors = 0
      BY <1>4, <2>2 DEF Cancel, used
    <3>2. /\ Heard(q, z) /\ RunInHand(q, z)
          /\ run[q][z].beat \in 0..Heartbeat /\ run[q][z].ran \in 0..Longest
      BY <2>2, <3>1, RunFields DEF HeardInv, HandInv
    <3> QED
      BY <1>4, <2>2, <3>2 DEF Heard, RunInHand, RowsOK, Cancel, FreshInv
  <2> QED
    BY <2>2 DEF HeardInv
<1>5. ASSUME NEW k \in Key, NEW r \in Replica, Abort(r, k) PROVE HeardInv'
  <2>1. AbortDoes(r)
    BY <1>5, AbortRun
  <2>2. ASSUME Timely, errors' = 0, NEW q \in Replica, NEW z \in Slot PROVE Heard(q, z)'
    <3>1. errors = 0
      BY <2>1, <2>2 DEF AbortDoes, used
    <3>2. /\ Heard(q, z) /\ RunInHand(q, z)
          /\ run[q][z].beat \in 0..Heartbeat /\ run[q][z].ran \in 0..Longest
      BY <2>2, <3>1, RunFields DEF HeardInv, HandInv
    <3> QED
      BY <2>1, <2>2, <3>2 DEF Heard, RunInHand, RowsOK, AbortDoes, RunsEnded, Live
  <2> QED
    BY <2>2 DEF HeardInv
<1>6. ASSUME NEW r \in Replica, NEW ts \in SUBSET Task, ClaimRows(r, ts) PROVE HeardInv'
  <2>2. ASSUME Timely, errors' = 0, NEW q \in Replica, NEW z \in Slot PROVE Heard(q, z)'
    <3>1. errors = 0
      BY <1>6, <2>2 DEF ClaimRows, used
    <3>2. /\ Heard(q, z) /\ RunInHand(q, z)
          /\ run[q][z].beat \in 0..Heartbeat /\ run[q][z].ran \in 0..Longest
      BY <2>2, <3>1, RunFields DEF HeardInv, HandInv
    <3> QED
      BY <1>6, <2>2, <3>2 DEF Heard, RunInHand, RowsOK, ClaimRows, Claimable
  <2> QED
    BY <2>2 DEF HeardInv
<1>7. ASSUME NEW r \in Replica, NEW s \in Slot, Beat(r, s) PROVE HeardInv'
  <2>1. BeatDoes(r, s)
    BY <1>7, BeatRun
  <2>2. ASSUME Timely, errors' = 0, NEW q \in Replica, NEW z \in Slot PROVE Heard(q, z)'
    <3>1. errors = 0
      BY <2>1, <2>2 DEF BeatDoes, used
    <3>2. /\ Heard(q, z) /\ RunInHand(q, z)
          /\ run[q][z].beat \in 0..Heartbeat /\ run[q][z].ran \in 0..Longest
      BY <2>2, <3>1, RunFields DEF HeardInv, HandInv
    <3> QED
      BY <2>1, <2>2, <3>2 DEF Heard, RunInHand, RowsOK, BeatDoes, Others
  <2> QED
    BY <2>2 DEF HeardInv
<1>8. ASSUME NEW r \in Replica, NEW s \in Slot, BeatError(r, s) PROVE HeardInv'
  BY <1>8, BeatErrorRun DEF BeatErrorDoes, HeardInv, RestOK
<1>9. ASSUME NEW r \in Replica, NEW s \in Slot, TimesOut(r, s) PROVE HeardInv'
  <2>1. TimesOutDoes(r, s)
    BY <1>9, TimesOutRun
  <2>2. ASSUME Timely, errors' = 0, NEW q \in Replica, NEW z \in Slot PROVE Heard(q, z)'
    <3>1. errors = 0
      BY <2>1, <2>2 DEF TimesOutDoes, used
    <3>2. /\ Heard(q, z) /\ RunInHand(q, z)
          /\ run[q][z].beat \in 0..Heartbeat /\ run[q][z].ran \in 0..Longest
      BY <2>2, <3>1, RunFields DEF HeardInv, HandInv
    <3> QED
      BY <2>1, <2>2, <3>2 DEF Heard, RunInHand, RowsOK, TimesOutDoes, Others, row
  <2> QED
    BY <2>2 DEF HeardInv
<1>10. ASSUME NEW r \in Replica, NEW s \in Slot, Return(r, s) PROVE HeardInv'
  <2>1. ReturnDoes(r, s)
    BY <1>10, ReturnRun
  <2>2. ASSUME Timely, errors' = 0, NEW q \in Replica, NEW z \in Slot PROVE Heard(q, z)'
    <3>1. errors = 0
      BY <2>1, <2>2 DEF ReturnDoes, used
    <3>2. /\ Heard(q, z) /\ RunInHand(q, z)
          /\ run[q][z].beat \in 0..Heartbeat /\ run[q][z].ran \in 0..Longest
      BY <2>2, <3>1, RunFields DEF HeardInv, HandInv
    <3> QED
      BY <2>1, <2>2, <3>2 DEF Heard, RunInHand, RowsOK, ReturnDoes, Others, row
  <2> QED
    BY <2>2 DEF HeardInv
<1>11. ASSUME NEW r \in Replica, NEW s \in Slot, WriteOutcome(r, s) PROVE HeardInv'
  <2>1. WriteOutcomeDoes(r, s)
    BY <1>11, WriteOutcomeRun
  <2>2. ASSUME Timely, errors' = 0, NEW q \in Replica, NEW z \in Slot PROVE Heard(q, z)'
    <3>1. errors = 0
      BY <2>1, <2>2 DEF WriteOutcomeDoes, used
    <3>2. /\ Heard(q, z) /\ RunInHand(q, z)
          /\ run[q][z].beat \in 0..Heartbeat /\ run[q][z].ran \in 0..Longest
      BY <2>2, <3>1, RunFields DEF HeardInv, HandInv
    <3>3. CASE run[q][z].task = run[r][s].task /\ status[run[r][s].task] = "running"
      <4>1. age'[run[r][s].task] = 0
        BY <2>1, <3>3 DEF WriteOutcomeDoes, RowsOK
      <4>2. run'[q][z] = run[q][z] \/ run'[q][z].phase = "idle"
        BY <2>1 DEF WriteOutcomeDoes, Others
      <4> QED
        BY <3>2, <3>3, <4>1, <4>2 DEF Heard
    <3>4. CASE run[q][z].task # run[r][s].task \/ status[run[r][s].task] # "running"
      <4>1. \/ run[q][z].phase = "idle"
            \/ /\ status'[run[q][z].task] = status[run[q][z].task]
               /\ age'[run[q][z].task] = age[run[q][z].task]
        BY <2>1, <3>2, <3>4 DEF WriteOutcomeDoes, RunInHand, RowsOK, row
      <4>2. run'[q][z] = run[q][z] \/ run'[q][z].phase = "idle"
        BY <2>1 DEF WriteOutcomeDoes, Others
      <4> QED
        BY <3>2, <4>1, <4>2 DEF Heard
    <3> QED
      BY <3>3, <3>4
  <2> QED
    BY <2>2 DEF HeardInv
<1>12. ASSUME NEW r \in Replica, NEW s \in Slot, Unwritten(r, s) PROVE HeardInv'
  <2>1. UnwrittenDoes(r, s)
    BY <1>12, UnwrittenRun
  <2>2. ASSUME Timely, errors' = 0, NEW q \in Replica, NEW z \in Slot PROVE Heard(q, z)'
    <3>1. errors = 0
      BY <2>1, <2>2 DEF UnwrittenDoes, RestOK
    <3>2. Heard(q, z)
      BY <2>2, <3>1 DEF HeardInv
    <3> QED
      BY <2>1, <2>2, <3>2 DEF Heard, UnwrittenDoes, Others, row
  <2> QED
    BY <2>2 DEF HeardInv
<1>13. ASSUME NEW r \in Replica, NEW s \in Slot, NEW c \in queue[r], Begin(r, c, s)
       PROVE  HeardInv'
  <2>1. BeginDoes(r, c, s)
    BY <1>13, BeginRun
  <2>2. ASSUME Timely, errors' = 0, NEW q \in Replica, NEW z \in Slot PROVE Heard(q, z)'
    <3>1. errors = 0
      BY <2>1, <2>2 DEF BeginDoes, used
    <3>2. /\ Heard(q, z) /\ RunInHand(q, z)
          /\ run[q][z].beat \in 0..Heartbeat /\ run[q][z].ran \in 0..Longest
      BY <2>2, <3>1, RunFields DEF HeardInv, HandInv
    <3> QED
      BY <2>1, <2>2, <3>2 DEF Heard, RunInHand, RowsOK, BeginDoes, Others, row
  <2> QED
    BY <2>2 DEF HeardInv
<1>14. ASSUME NEW r \in Replica, StopRuns(r) PROVE HeardInv'
  <2>1. StopRunsDoes(r)
    BY <1>14, StopRunsRun
  <2>2. ASSUME Timely, errors' = 0, NEW q \in Replica, NEW z \in Slot PROVE Heard(q, z)'
    <3>1. errors = 0
      BY <2>1, <2>2 DEF StopRunsDoes, used
    <3>2. /\ Heard(q, z) /\ RunInHand(q, z)
          /\ run[q][z].beat \in 0..Heartbeat /\ run[q][z].ran \in 0..Longest
      BY <2>2, <3>1, RunFields DEF HeardInv, HandInv
    <3> QED
      BY <2>1, <2>2, <3>2 DEF Heard, RunInHand, RowsOK, StopRunsDoes, RunsEnded, Live, row
  <2> QED
    BY <2>2 DEF HeardInv
<1>15. ASSUME NEW r \in Replica, StopPoller(r) PROVE HeardInv'
  <2>1. StopPollerDoes(r)
    BY <1>15, StopPollerRun
  <2>2. ASSUME Timely, errors' = 0, NEW q \in Replica, NEW z \in Slot PROVE Heard(q, z)'
    <3>1. errors = 0
      BY <2>1, <2>2 DEF StopPollerDoes, used
    <3>2. /\ Heard(q, z) /\ RunInHand(q, z)
          /\ run[q][z].beat \in 0..Heartbeat /\ run[q][z].ran \in 0..Longest
      BY <2>2, <3>1, RunFields DEF HeardInv, HandInv
    <3> QED
      BY <2>1, <2>2, <3>2 DEF Heard, RunInHand, RowsOK, StopPollerDoes, RunsEnded, Live, row
  <2> QED
    BY <2>2 DEF HeardInv
<1>16. ASSUME NEW r \in Replica, Stopped(r) PROVE HeardInv'
  <2>2. ASSUME Timely, errors' = 0, NEW q \in Replica, NEW z \in Slot PROVE Heard(q, z)'
    <3>1. errors = 0
      BY <1>16, <2>2 DEF Stopped, used
    <3>2. /\ Heard(q, z) /\ RunInHand(q, z)
          /\ run[q][z].beat \in 0..Heartbeat /\ run[q][z].ran \in 0..Longest
      BY <2>2, <3>1, RunFields DEF HeardInv, HandInv
    <3> QED
      BY <1>16, <2>2, <3>2 DEF Heard, RunInHand, RowsOK, Stopped, row
  <2> QED
    BY <2>2 DEF HeardInv
<1>17. ASSUME NEW r \in Replica, Crash(r) PROVE HeardInv'
  <2>1. CrashDoes(r)
    BY <1>17, CrashRun
  <2>2. ASSUME Timely, errors' = 0, NEW q \in Replica, NEW z \in Slot PROVE Heard(q, z)'
    <3>1. errors = 0
      BY <2>1, <2>2 DEF CrashDoes, used
    <3>2. /\ Heard(q, z) /\ RunInHand(q, z)
          /\ run[q][z].beat \in 0..Heartbeat /\ run[q][z].ran \in 0..Longest
      BY <2>2, <3>1, RunFields DEF HeardInv, HandInv
    <3> QED
      BY <2>1, <2>2, <3>2 DEF Heard, RunInHand, RowsOK, CrashDoes, row
  <2> QED
    BY <2>2 DEF HeardInv
<1>18. ASSUME NEW r \in Replica, Start(r) PROVE HeardInv'
  <2>2. ASSUME Timely, errors' = 0, NEW q \in Replica, NEW z \in Slot PROVE Heard(q, z)'
    <3>1. errors = 0
      BY <1>18, <2>2 DEF Start, used
    <3>2. /\ Heard(q, z) /\ RunInHand(q, z)
          /\ run[q][z].beat \in 0..Heartbeat /\ run[q][z].ran \in 0..Longest
      BY <2>2, <3>1, RunFields DEF HeardInv, HandInv
    <3> QED
      BY <1>18, <2>2, <3>2 DEF Heard, RunInHand, RowsOK, Start, row
  <2> QED
    BY <2>2 DEF HeardInv
<1>19. CASE UNCHANGED vars
  BY <1>19 DEF vars, row, used, HeardInv, Heard
<1> QED
  BY <1>1, <1>2, <1>3, <1>4, <1>5, <1>6, <1>7, <1>8, <1>9, <1>10, <1>11, <1>12, <1>13, <1>14,
     <1>15, <1>16, <1>17, <1>18, <1>19 DEF Next, RunStep, Unwritten

-----------------------------------------------------------------------------
(* Who has a row, and who asked to cancel it. *)

\* A step that moves no row between the table, a batch and a run, and cancels
\* and aborts only what is marked.
Quiet ==
    /\ queue' = queue /\ marked \subseteq marked' /\ marked' \subseteq Task
    /\ \A t \in Task \ marked' :
         status'[t] = status[t] \/ (status[t] # "running" /\ status'[t] # "cancelled")
    /\ \A q \in Replica, z \in Slot :
         /\ run'[q][z].phase = "idle" <=> run[q][z].phase = "idle"
         /\ run'[q][z].task = run[q][z].task
         /\ run[q][z].phase # "idle" /\ run'[q][z].cause = "aborted" =>
              run[q][z].cause = "aborted" \/ run[q][z].task \in marked'

\* What is tracked stays tracked, in the same run.
Tracks ==
    /\ tracked' = tracked
    /\ \A q \in Replica, z \in Slot :
         run'[q][z].phase = run[q][z].phase /\ run'[q][z].task = run[q][z].task

\* Such a step keeps TrackInv.
LEMMA TracksKept == ASSUME RestOK, TrackInv, Tracks PROVE TrackInv'
<1>1. \A r \in Replica, t \in Task : tracked[r][t] # Untracked => tracked[r][t] \in Slot
  BY DEF RestOK
<1> QED
  BY <1>1 DEF TrackInv, Tracks

\* A quiet step keeps MarkInv.
LEMMA QuietKept == ASSUME MarkInv, Quiet PROVE MarkInv'
<1> SUFFICES ASSUME NEW t \in Task \ marked' PROVE Sole(t)'
  BY DEF MarkInv, Quiet
<1>1. Sole(t) /\ t \in Task
  BY DEF MarkInv, Quiet
<1>2. \A r \in Replica, s \in Slot : RunOf(r, s, t)' <=> RunOf(r, s, t)
  BY DEF Quiet, RunOf
<1>3. status'[t] = status[t] \/ (status[t] # "running" /\ status'[t] # "cancelled")
  BY DEF Quiet
<1>4. status'[t] # "cancelled"
  BY <1>1, <1>3 DEF Sole
<1>5. ASSUME NEW r \in Replica, NEW s \in Slot, RunOf(r, s, t)'
      PROVE  status'[t] = "running" /\ run'[r][s].cause # "aborted"
  <2>1. RunOf(r, s, t)
    BY <1>2, <1>5
  <2>2. status[t] = "running" /\ run[r][s].cause # "aborted"
    BY <1>1, <2>1 DEF Sole
  <2> QED
    BY <1>3, <2>1, <2>2 DEF Quiet, RunOf
<1>6. ASSUME NEW r \in Replica, NEW c \in queue'[r], c.task = t PROVE status'[t] = "running"
  BY <1>1, <1>3, <1>6 DEF Quiet, Sole
<1>7. ASSUME NEW r \in Replica, NEW q \in Replica
      PROVE  /\ \A s, z \in Slot : RunOf(r, s, t)' /\ RunOf(q, z, t)' => r = q /\ s = z
             /\ \A c \in queue'[r], d \in queue'[q] :
                  c.task = t /\ d.task = t => r = q /\ c = d
             /\ \A s \in Slot, d \in queue'[q] : ~(RunOf(r, s, t)' /\ d.task = t)
  <2>1. queue' = queue
    BY DEF Quiet
  <2> QED
    BY <1>1, <1>2, <2>1 DEF Sole
<1> QED
  BY <1>4, <1>5, <1>6, <1>7 DEF Sole

\* Every step but those that move rows is quiet.
LEMMA QuietStep ==
    ASSUME RunsOK, RowsOK, RestOK, HandInv, TrackInv, MarkInv, [Next]_vars
    PROVE  (Quiet /\ TrackInv') \/ \E r \in Replica : Moves(r)
<1>0. marked \subseteq Task
  BY DEF MarkInv
<1>1. ASSUME Tick PROVE Quiet /\ TrackInv'
  <2>1. TickDoes /\ marked' = marked
    BY <1>1, TickRun DEF Tick
  <2>2. Quiet /\ Tracks
    BY <1>0, <2>1 DEF TickDoes, Quiet, Tracks
  <2> QED
    BY <2>2, TracksKept
<1>2. ASSUME NEW t \in Task, Schedule(t) \/ Cleanup(t) PROVE Quiet /\ TrackInv'
  <2>1. /\ marked' = marked /\ queue' = queue /\ run' = run /\ tracked' = tracked
        /\ \A u \in Task :
             status'[u] = status[u] \/ (status[u] # "running" /\ status'[u] # "cancelled")
    BY <1>2 DEF Schedule, Cleanup, RowsOK
  <2>2. Quiet /\ Tracks
    BY <1>0, <2>1 DEF Quiet, Tracks
  <2> QED
    BY <2>2, TracksKept
<1>3. ASSUME NEW k \in Key, Cancel(k) PROVE Quiet /\ TrackInv'
  <2>1. /\ marked' = marked \cup {t \in Task : KeyOf[t] = k /\ status[t] = "pending"}
        /\ status' = [t \in Task |-> IF KeyOf[t] = k /\ status[t] = "pending"
                                     THEN "cancelled" ELSE status[t]]
        /\ queue' = queue /\ run' = run /\ tracked' = tracked
    BY <1>3 DEF Cancel
  <2>2. Quiet /\ Tracks
    BY <1>0, <2>1 DEF Quiet, Tracks
  <2> QED
    BY <2>2, TracksKept
<1>4. ASSUME NEW k \in Key, NEW r \in Replica, Abort(r, k) PROVE Quiet /\ TrackInv'
  <2> DEFINE ids == {t \in Task : KeyOf[t] = k /\ status[t] \in Open}
  <2>1. AbortDoes(r)
    BY <1>4, AbortRun
  <2>2. /\ marked' = marked \cup ids /\ run' = [run EXCEPT ![r] = EndedRuns(r, ids, "aborted")]
        /\ \A t \in Task \ ids : status'[t] = status[t]
    BY <1>4 DEF Abort
  <2>3. ASSUME NEW q \in Replica, NEW z \in Slot, run'[q][z].cause = "aborted",
               run[q][z].cause # "aborted"
        PROVE  run[q][z].task \in ids
    <3>1. q = r /\ run'[q][z] = EndedRuns(r, ids, "aborted")[z]
      BY <2>2, <2>3 DEF RunsOK
    <3>2. \E t \in ids : tracked[r][t] = z
      BY <2>3, <3>1 DEF EndedRuns
    <3>3. Untracked \notin Slot
      BY DEF Untracked, Slot
    <3> QED
      BY <3>1, <3>2, <3>3 DEF TrackInv
  <2>4. ASSUME NEW q \in Replica, NEW z \in Slot
        PROVE  run'[q][z].phase = run[q][z].phase /\ run'[q][z].task = run[q][z].task
    <3>1. CASE q = r
      BY <2>1, <3>1 DEF AbortDoes, RunsEnded
    <3>2. CASE q # r
      BY <2>1, <3>2 DEF AbortDoes, RunsEnded
    <3> QED
      BY <3>1, <3>2
  <2>5. queue' = queue /\ tracked' = tracked /\ ids \subseteq Task
    BY <2>1 DEF AbortDoes
  <2> HIDE DEF ids
  <2>6. Quiet /\ Tracks
    BY <1>0, <2>2, <2>3, <2>4, <2>5 DEF Quiet, Tracks
  <2> QED
    BY <2>6, TracksKept
<1>5. ASSUME NEW r \in Replica, NEW s \in Slot, Beat(r, s) PROVE Quiet /\ TrackInv'
  <2>1. BeatDoes(r, s) /\ marked' = marked /\ (run'[r][s].cause = "aborted" => status[run[r][s].task] # "running")
    <3>1. BeatDoes(r, s) /\ marked' = marked
      BY <1>5, BeatRun DEF Beat
    <3>2. CASE status[run[r][s].task] # "running"
      BY <3>1, <3>2
    <3>3. CASE status[run[r][s].task] = "running"
      <4>1. BeatSet(r, s, Heartbeat) /\ Heartbeat \in 0..Heartbeat /\ run[r][s].cause = "none"
        BY <1>5, <3>3 DEF Beat, BeatSet, Live
      <4>2. run'[r][s].cause = "none"
        BY <4>1, SetBeat
      <4> QED
        BY <3>1, <4>2
    <3> QED
      BY <3>2, <3>3
  <2>2. run[r][s].task \in Task /\ RunOf(r, s, run[r][s].task)
    BY <2>1 DEF BeatDoes, HandInv, RunInHand, RunOf
  <2>3. run'[r][s].cause = "aborted" => run[r][s].task \in marked
    BY <2>1, <2>2 DEF MarkInv, Sole
  <2>4. Tracks /\ queue' = queue /\ status' = status /\ Others(r, s)
    <3>1. /\ Others(r, s) /\ queue' = queue /\ status' = status /\ tracked' = tracked
          /\ run'[r][s].phase = run[r][s].phase /\ run'[r][s].task = run[r][s].task
      BY <2>1 DEF BeatDoes
    <3> QED
      BY <3>1 DEF Others, Tracks
  <2>5. Quiet
    BY <1>0, <2>1, <2>3, <2>4 DEF Quiet, Tracks, Others
  <2> QED
    BY <2>4, <2>5, TracksKept
<1>6. ASSUME NEW r \in Replica, NEW s \in Slot, BeatError(r, s) \/ TimesOut(r, s)
      PROVE  Quiet /\ TrackInv'
  <2>1. /\ Others(r, s) /\ queue' = queue /\ status' = status /\ tracked' = tracked
        /\ run'[r][s].phase = run[r][s].phase /\ run'[r][s].task = run[r][s].task
        /\ run'[r][s].cause = run[r][s].cause \/ run'[r][s].cause = "timeout"
    BY <1>6, BeatErrorRun, TimesOutRun DEF BeatErrorDoes, TimesOutDoes, row
  <2>2. marked' = marked
    BY <1>6 DEF BeatError, TimesOut
  <2>3. Quiet /\ Tracks
    BY <1>0, <2>1, <2>2 DEF Quiet, Tracks, Others
  <2> QED
    BY <2>3, TracksKept
<1>7. ASSUME NEW r \in Replica, NEW s \in Slot, Return(r, s) PROVE Quiet /\ TrackInv'
  <2>1. ReturnDoes(r, s) /\ marked' = marked
    BY <1>7, ReturnRun DEF Return
  <2>2. /\ Others(r, s) /\ queue' = queue /\ status' = status
        /\ run[r][s].phase = "running" /\ run'[r][s].phase = "returned"
        /\ run'[r][s].task = run[r][s].task /\ run'[r][s].cause = run[r][s].cause
    BY <2>1 DEF ReturnDoes, row
  <2>3. Quiet
    BY <1>0, <2>1, <2>2 DEF Quiet, Others
  <2>4. ASSUME NEW q \in Replica, NEW t \in Task, tracked'[q][t] # Untracked
        PROVE  /\ run'[q][tracked'[q][t]].phase = "running"
               /\ run'[q][tracked'[q][t]].task = t
    <3>1. tracked' = [tracked EXCEPT ![r][run[r][s].task] = Untracked]
      BY <2>1 DEF ReturnDoes
    <3>2. ~(q = r /\ t = run[r][s].task) /\ tracked'[q][t] = tracked[q][t]
      BY <2>4, <3>1 DEF RestOK
    <3>3. tracked[q][t] \in Slot
      BY <2>4, <3>2 DEF RestOK
    <3>4. run[q][tracked[q][t]].phase = "running" /\ run[q][tracked[q][t]].task = t
      BY <2>4, <3>2 DEF TrackInv
    <3>5. q # r \/ tracked[q][t] # s
      BY <3>2, <3>4
    <3>6. run'[q][tracked[q][t]] = run[q][tracked[q][t]]
      BY <2>2, <3>3, <3>5 DEF Others
    <3> QED
      BY <3>2, <3>4, <3>6
  <2> QED
    BY <2>3, <2>4 DEF TrackInv
<1>8. ASSUME NEW r \in Replica, StopRuns(r) \/ StopPoller(r) PROVE Quiet /\ TrackInv'
  <2>1. /\ RunsEnded(r, "shutdown") \/ RunsEnded(r, "parent")
        /\ queue' = queue /\ status' = status /\ tracked' = tracked
    BY <1>8, StopRunsRun, StopPollerRun DEF StopRunsDoes, StopPollerDoes, row
  <2>2. marked' = marked
    BY <1>8 DEF StopRuns, StopPoller
  <2>3. ASSUME NEW q \in Replica, NEW z \in Slot
        PROVE  /\ run'[q][z].phase = run[q][z].phase /\ run'[q][z].task = run[q][z].task
               /\ run'[q][z].cause = "aborted" => run[q][z].cause = "aborted"
    <3>1. CASE q = r
      BY <2>1, <3>1 DEF RunsEnded
    <3>2. CASE q # r
      BY <2>1, <3>2 DEF RunsEnded
    <3> QED
      BY <3>1, <3>2
  <2>4. Quiet /\ Tracks
    BY <1>0, <2>1, <2>2, <2>3 DEF Quiet, Tracks
  <2> QED
    BY <2>4, TracksKept
<1>9. ASSUME NEW r \in Replica, Stopped(r) \/ Start(r) PROVE Quiet /\ TrackInv'
  <2>1. /\ marked' = marked /\ queue' = queue /\ run' = run /\ tracked' = tracked
        /\ status' = status
    BY <1>9 DEF Stopped, Start, row
  <2>2. Quiet /\ Tracks
    BY <1>0, <2>1 DEF Quiet, Tracks
  <2> QED
    BY <2>2, TracksKept
<1>10. CASE UNCHANGED vars
  <2>1. /\ marked' = marked /\ queue' = queue /\ run' = run /\ tracked' = tracked
        /\ status' = status
    BY <1>10 DEF vars, row
  <2>2. Quiet /\ Tracks
    BY <1>0, <2>1 DEF Quiet, Tracks
  <2> QED
    BY <2>2, TracksKept
<1> QED
  BY <1>1, <1>2, <1>3, <1>4, <1>5, <1>6, <1>7, <1>8, <1>9, <1>10
     DEF Next, RunStep, Unwritten, Moves

\* Every step keeps TrackInv and MarkInv.
LEMMA MarkStep ==
    ASSUME RunsOK, RowsOK, RestOK, HandInv, AttemptLeft, TrackInv, MarkInv, [Next]_vars
    PROVE  TrackInv' /\ MarkInv'
<1>0. marked \subseteq Task
  BY DEF MarkInv
<1>1. CASE Quiet /\ TrackInv'
  BY <1>1, QuietKept
<1>2. ASSUME NEW r \in Replica, NEW ts \in SUBSET Task, ClaimRows(r, ts)
      PROVE  TrackInv' /\ MarkInv'
  <2>1. /\ run' = run /\ tracked' = tracked /\ queue[r] = {}
        /\ queue' = [queue EXCEPT ![r] = {[task |-> t, read |-> attempts[t]] : t \in ts}]
        /\ marked' = marked \cup {t \in ts : UnderWay(t)}
        /\ status' = [t \in Task |-> IF t \in ts THEN "running" ELSE status[t]]
    BY <1>2 DEF ClaimRows, PollerFree
  <2>2. TrackInv'
    BY <2>1, TracksKept DEF Tracks
  <2>3. ASSUME NEW t \in Task \ marked' PROVE Sole(t)'
    <3>1. Sole(t) /\ (t \in ts => ~UnderWay(t))
      BY <1>0, <2>1, <2>3 DEF MarkInv
    <3>2. \A q \in Replica, z \in Slot : RunOf(q, z, t)' <=> RunOf(q, z, t)
      BY <2>1 DEF RunOf
    <3>3. /\ \A q \in Replica : q # r => queue'[q] = queue[q]
          /\ queue'[r] = {[task |-> u, read |-> attempts[u]] : u \in ts}
      BY <2>1 DEF RestOK
    <3>4. CASE t \in ts
      <4>0. ~UnderWay(t) /\ t \in Task
        BY <2>3, <3>1, <3>4
      <4>1. /\ status'[t] = "running"
            /\ \A q \in Replica : /\ \A z \in Slot : ~RunOf(q, z, t)
                                  /\ \A c \in queue[q] : c.task # t
        BY <2>1, <3>4, <4>0 DEF UnderWay, RunOf
      <4>2. \A q \in Replica : \A c \in queue'[q] :
               c.task = t => q = r /\ c = [task |-> t, read |-> attempts[t]]
        <5> SUFFICES ASSUME NEW q \in Replica, NEW c \in queue'[q], c.task = t
                     PROVE  q = r /\ c = [task |-> t, read |-> attempts[t]]
          OBVIOUS
        <5>1. q = r
          BY <3>3, <4>1
        <5>2. PICK u \in ts : c = [task |-> u, read |-> attempts[u]]
          BY <3>3, <5>1
        <5>3. u = t
          BY <5>2
        <5> QED
          BY <5>1, <5>2, <5>3
      <4> QED
        BY <3>2, <4>1, <4>2 DEF Sole
    <3>5. CASE t \notin ts
      <4>1. status'[t] = status[t]
        BY <2>1, <2>3, <3>5
      <4>2. \A q \in Replica : \A c \in queue'[q] : c.task = t => c \in queue[q]
        BY <3>3, <3>5
      <4>3. \A q \in Replica, z \in Slot : run'[q][z].cause = run[q][z].cause
        BY <2>1
      <4> QED
        BY <3>1, <3>2, <4>1, <4>2, <4>3 DEF Sole
    <3> QED
      BY <3>4, <3>5
  <2>4. marked' \subseteq Task
    BY <1>0, <2>1
  <2> QED
    BY <2>2, <2>3, <2>4 DEF MarkInv
<1>3. ASSUME NEW r \in Replica, NEW s \in Slot, NEW c \in queue[r], Begin(r, c, s)
      PROVE  TrackInv' /\ MarkInv'
  <2>1. BeginDoes(r, c, s) /\ marked' = marked
    BY <1>3, BeginRun DEF Begin
  <2>2. /\ Others(r, s) /\ run[r][s].phase = "idle" /\ run'[r][s].phase = "running"
        /\ run'[r][s].task = c.task /\ c.task \in Task /\ status' = status
        /\ run'[r][s].cause # "aborted" /\ queue' = [queue EXCEPT ![r] = @ \ {c}]
        /\ tracked' = [tracked EXCEPT ![r][c.task] = s]
    BY <2>1 DEF BeginDoes, row
  <2>3. ASSUME NEW q \in Replica, NEW t \in Task, tracked'[q][t] # Untracked
        PROVE  /\ run'[q][tracked'[q][t]].phase = "running"
               /\ run'[q][tracked'[q][t]].task = t
    <3>1. CASE q = r /\ t = c.task
      <4>1. tracked'[q][t] = s
        BY <2>2, <3>1 DEF RestOK
      <4> QED
        BY <2>2, <3>1, <4>1
    <3>2. CASE ~(q = r /\ t = c.task)
      <4>1. tracked'[q][t] = tracked[q][t]
        BY <2>2, <3>2 DEF RestOK
      <4>2. /\ tracked[q][t] \in Slot /\ run[q][tracked[q][t]].phase = "running"
            /\ run[q][tracked[q][t]].task = t
        BY <2>3, <4>1 DEF TrackInv, RestOK
      <4>3. run'[q][tracked[q][t]] = run[q][tracked[q][t]]
        BY <2>2, <4>2 DEF Others
      <4> QED
        BY <4>1, <4>2, <4>3
    <3> QED
      BY <3>1, <3>2
  <2>4. ASSUME NEW t \in Task \ marked' PROVE Sole(t)'
    <3>1. Sole(t)
      BY <2>1, <2>4 DEF MarkInv
    <3>2. \A q \in Replica : \A d \in queue'[q] : d \in queue[q] /\ (q = r => d # c)
      BY <2>2 DEF RestOK
    <3>3. \A q \in Replica, z \in Slot :
             \/ q = r /\ z = s
             \/ run'[q][z] = run[q][z] /\ (RunOf(q, z, t)' <=> RunOf(q, z, t))
      BY <2>2 DEF Others, RunOf
    <3>4. CASE c.task = t
      <4>1. /\ status[t] = "running" /\ \A q \in Replica, z \in Slot : ~RunOf(q, z, t)
            /\ \A q \in Replica : \A d \in queue[q] : d.task = t => q = r /\ d = c
        BY <3>1, <3>4 DEF Sole
      <4>2. /\ status'[t] = "running"
            /\ \A q \in Replica, z \in Slot : RunOf(q, z, t)' => q = r /\ z = s
            /\ \A q \in Replica : \A d \in queue'[q] : d.task # t
        BY <2>2, <3>2, <3>3, <4>1
      <4> QED
        BY <2>2, <4>2 DEF Sole
    <3>5. CASE c.task # t
      <4>1. ~RunOf(r, s, t)'
        BY <2>2, <3>5 DEF RunOf
      <4>2. /\ status'[t] = status[t]
            /\ \A q \in Replica, z \in Slot :
                 RunOf(q, z, t)' => RunOf(q, z, t) /\ run'[q][z].cause = run[q][z].cause
            /\ \A q \in Replica : \A d \in queue'[q] : d \in queue[q]
        BY <2>2, <3>2, <3>3, <4>1
      <4> QED
        BY <3>1, <4>2 DEF Sole
    <3> QED
      BY <3>4, <3>5
  <2> QED
    BY <1>0, <2>1, <2>3, <2>4 DEF TrackInv, MarkInv
<1>4. ASSUME NEW r \in Replica, NEW s \in Slot, WriteOutcome(r, s) \/ Unwritten(r, s)
      PROVE  TrackInv' /\ MarkInv'
  <2>1. /\ Others(r, s) /\ run[r][s].phase = "returned" /\ run'[r][s].phase = "idle"
        /\ queue' = queue /\ tracked' = tracked
    BY <1>4, WriteOutcomeRun, UnwrittenRun DEF WriteOutcomeDoes, UnwrittenDoes
  <2>2. marked' = marked
    BY <1>4 DEF WriteOutcome, Unwritten, OutcomeError, OutcomeLate
  <2>3. \A t \in Task : \/ status'[t] = status[t]
                        \/ /\ t = run[r][s].task
                           /\ status'[t] = "cancelled" => run[r][s].cause = "aborted"
    <3>1. CASE WriteOutcome(r, s)
      <4>1. WriteOutcomeDoes(r, s)
        BY <3>1, WriteOutcomeRun
      <4> QED
        BY <4>1 DEF WriteOutcomeDoes, row, RowsOK
    <3>2. CASE Unwritten(r, s)
      BY <3>2, UnwrittenRun DEF UnwrittenDoes, row
    <3> QED
      BY <1>4, <3>1, <3>2
  <2>4. TrackInv'
    <3> SUFFICES ASSUME NEW q \in Replica, NEW t \in Task, tracked[q][t] # Untracked
                 PROVE  /\ run'[q][tracked[q][t]].phase = "running"
                        /\ run'[q][tracked[q][t]].task = t
      BY <2>1 DEF TrackInv
    <3>1. /\ tracked[q][t] \in Slot /\ run[q][tracked[q][t]].phase = "running"
          /\ run[q][tracked[q][t]].task = t
      BY DEF TrackInv, RestOK
    <3>2. run'[q][tracked[q][t]] = run[q][tracked[q][t]]
      BY <2>1, <3>1 DEF Others
    <3> QED
      BY <3>1, <3>2
  <2>5. ASSUME NEW t \in Task \ marked' PROVE Sole(t)'
    <3>1. Sole(t)
      BY <2>2, <2>5 DEF MarkInv
    <3>2. \A q \in Replica, z \in Slot : RunOf(q, z, t)' =>
             RunOf(q, z, t) /\ run'[q][z].cause = run[q][z].cause /\ ~(q = r /\ z = s)
      BY <2>1 DEF Others, RunOf
    <3>3. CASE run[r][s].task = t
      <4>1. RunOf(r, s, t)
        BY <2>1, <3>3 DEF RunOf
      <4>2. /\ run[r][s].cause # "aborted"
            /\ \A q \in Replica, z \in Slot : RunOf(q, z, t) => q = r /\ z = s
            /\ \A q \in Replica : \A d \in queue[q] : d.task # t
        BY <3>1, <4>1 DEF Sole
      <4>3. status'[t] # "cancelled"
        BY <2>3, <2>5, <3>1, <4>2 DEF Sole
      <4>4. \A q \in Replica, z \in Slot : ~RunOf(q, z, t)'
        BY <3>2, <4>2
      <4> QED
        BY <2>1, <4>2, <4>3, <4>4 DEF Sole
    <3>4. CASE run[r][s].task # t
      <4>1. status'[t] = status[t]
        BY <2>3, <2>5, <3>4
      <4> QED
        BY <2>1, <3>1, <3>2, <4>1 DEF Sole
    <3> QED
      BY <3>3, <3>4
  <2> QED
    BY <1>0, <2>2, <2>4, <2>5 DEF MarkInv
<1>5. ASSUME NEW r \in Replica, Crash(r) PROVE TrackInv' /\ MarkInv'
  <2>1. CrashDoes(r) /\ marked' = marked
    BY <1>5, CrashRun DEF Crash
  <2>2. /\ \A z \in Slot : run'[r][z].phase = "idle"
        /\ \A q \in Replica, z \in Slot : q # r => run'[q][z] = run[q][z]
        /\ queue' = [queue EXCEPT ![r] = {}] /\ status' = status
        /\ tracked' = [tracked EXCEPT ![r] = [t \in Task |-> Untracked]]
    BY <2>1 DEF CrashDoes, row
  <2>3. TrackInv'
    <3> SUFFICES ASSUME NEW q \in Replica, NEW t \in Task, tracked'[q][t] # Untracked
                 PROVE  /\ run'[q][tracked'[q][t]].phase = "running"
                        /\ run'[q][tracked'[q][t]].task = t
      BY DEF TrackInv
    <3>1. q # r /\ tracked'[q][t] = tracked[q][t]
      BY <2>2 DEF RestOK
    <3>2. /\ tracked[q][t] \in Slot /\ run[q][tracked[q][t]].phase = "running"
          /\ run[q][tracked[q][t]].task = t
      BY <3>1 DEF TrackInv, RestOK
    <3> QED
      BY <2>2, <3>1, <3>2
  <2>4. ASSUME NEW t \in Task \ marked' PROVE Sole(t)'
    <3>1. Sole(t)
      BY <2>1, <2>4 DEF MarkInv
    <3>2. /\ \A q \in Replica, z \in Slot :
               RunOf(q, z, t)' => RunOf(q, z, t) /\ run'[q][z].cause = run[q][z].cause
          /\ \A q \in Replica : \A d \in queue'[q] : d \in queue[q]
      BY <2>2 DEF RunOf, RestOK
    <3> QED
      BY <2>2, <3>1, <3>2 DEF Sole
  <2> QED
    BY <1>0, <2>1, <2>3, <2>4 DEF MarkInv
<1> QED
  BY <1>1, <1>2, <1>3, <1>4, <1>5, QuietStep DEF Moves

-----------------------------------------------------------------------------
(* The theorems. *)

\* The invariant holds of every behaviour.
THEOREM DelayInvariance == Spec => []DelayInv
<1>1. Init => DelayInv
  <2> SUFFICES ASSUME Init PROVE DelayInv
    OBVIOUS
  <2>1. RowsOK
    BY DEF Init, RowsOK, Status, Stale
  <2>2. RestOK
    BY DEF Init, RestOK, Mode, Claim
  <2>3. IdleRun \in Run /\ IdleRun.phase = "idle" /\ IdleRun.read = 0
    BY DEF IdleRun, Run, Cause, Longest
  <2>4. RunsOK /\ \A r \in Replica, s \in Slot : run[r][s] = IdleRun
    BY <2>3 DEF Init, RunsOK
  <2>5. HandInv /\ FreshInv /\ AttemptLeft
    BY <2>3, <2>4 DEF Init, HandInv, RunInHand, FreshInv, AttemptLeft, Open
  <2>6. HeldInv /\ HeardInv
    BY <2>3, <2>4 DEF Init, HeldInv, HeardInv, Heard
  <2>8. TrackInv /\ MarkInv
    BY <2>3, <2>4 DEF Init, TrackInv, MarkInv, Sole, RunOf
  <2>7. RoomInv
    <3> SUFFICES ASSUME NEW r \in Replica PROVE Room(r)
      BY DEF RoomInv
    <3>1. queue[r] = {} /\ LongQueued(r) = {}
      BY DEF Init, LongQueued
    <3>2. BusySlots(r) = {}
      BY <2>3, <2>4 DEF BusySlots, PoolSlot, Slot
    <3> QED
      BY <3>1, <3>2, FS_EmptySet DEF Room
  <2> QED
    BY <2>1, <2>2, <2>4, <2>5, <2>6, <2>7, <2>8 DEF DelayInv
<1>2. DelayInv /\ [Next]_vars => DelayInv'
  <2> SUFFICES ASSUME DelayInv, [Next]_vars PROVE DelayInv'
    OBVIOUS
  <2>1. /\ RowsOK /\ RestOK /\ RunsOK /\ HandInv /\ FreshInv /\ AttemptLeft
        /\ HeldInv /\ HeardInv /\ RoomInv /\ TrackInv /\ MarkInv
    BY DEF DelayInv
  <2>2. RowsOK' /\ RestOK' /\ RunsOK' /\ HandInv' /\ FreshInv' /\ AttemptLeft'
    BY <2>1, RowsStep, RestStep, RunsStep, HandStep, FreshStep, AttemptStep
  <2>3. HeldInv' /\ HeardInv' /\ RoomInv' /\ TrackInv' /\ MarkInv'
    BY <2>1, HeldStep, HeardStep, RoomStep, MarkStep
  <2> QED
    BY <2>2, <2>3 DEF DelayInv
<1> QED
  BY <1>1, <1>2, PTL DEF Spec

\* Rows, runs, batches and counters have their types; the attempts column
\* in particular never exceeds delay.max_attempts.
THEOREM TypeCorrect == Spec => []TypeOK
<1>1. DelayInv => TypeOK
  BY DEF DelayInv, TypeOK, RowsOK, RestOK, RunsOK, MarkInv
<1> QED
  BY <1>1, DelayInvariance, PTL

\* Every row that may be claimed and every run under way has an attempt
\* left, late runs of replicas that lost the row included.
THEOREM AttemptsLeft == Spec => []AttemptLeft
<1>1. DelayInv => AttemptLeft
  BY DEF DelayInv
<1> QED
  BY <1>1, DelayInvariance, PTL

\* The poller never blocks on the pool: it claims no more long rows than the
\* pool has room for, for any size of the pool.
THEOREM RoomInPool == Spec => []PoolHasRoom
<1>1. DelayInv => PoolHasRoom
  BY DEF DelayInv, RoomInv, Room, PoolHasRoom, LongQueued, BusySlots
<1> QED
  BY <1>1, DelayInvariance, PTL

\* A replica that stopped in order left no row running, unless the database
\* refused one of its writes or the run was older than its bookkeeping.
THEOREM WorkHandedBack == Spec => []StopHandsWorkBack
<1>1. DelayInv => StopHandsWorkBack
  <2> SUFFICES ASSUME DelayInv, errors = 0, NEW t \in Task, NEW r \in Replica,
                      status[t] = "running", claimer[t] = r, mode[r] = "stopped"
               PROVE  FALSE
    BY DEF StopHandsWorkBack
  <2>1. Holds(r, t)
    BY DEF DelayInv, HeldInv
  <2>2. queue[r] = {} /\ \A s \in Slot : RunInHand(r, s)
    BY DEF DelayInv, HandInv
  <2> QED
    BY <2>1, <2>2 DEF Holds, RunInHand
<1> QED
  BY <1>1, DelayInvariance, PTL

\* No task is cancelled that nobody asked to cancel, the two ways that marked
\* names excepted.
THEOREM CancelsAreAskedFor == Spec => []CancelledWhenAsked
<1>1. DelayInv => CancelledWhenAsked
  BY DEF DelayInv, MarkInv, Sole, CancelledWhenAsked
<1> QED
  BY <1>1, DelayInvariance, PTL

\* While the database answers in time, a run's ctx is over one heartbeat
\* after the abort of its row, on whichever replica it runs.
THEOREM AbortHeard == Spec => []AbortReachesTheRun
<1>1. DelayInv => AbortReachesTheRun
  <2> SUFFICES ASSUME DelayInv, Timely, errors = 0, NEW r \in Replica, NEW s \in Slot,
                      Live(r, s), status[run[r][s].task] = "cancelled"
               PROVE  age[run[r][s].task] <= Heartbeat \/ run[r][s].ran <= Heartbeat
    BY DEF AbortReachesTheRun
  <2>1. Heard(r, s) /\ RunInHand(r, s)
    BY DEF DelayInv, HeardInv, HandInv
  <2>2. run[r][s].beat \in 0..Heartbeat /\ run[r][s].ran \in 0..Longest
    BY RunFields DEF DelayInv
  <2>3. age[run[r][s].task] \in 0..Stale + 1
    BY <2>1 DEF DelayInv, RowsOK, RunInHand, Live
  <2> QED
    BY <2>1, <2>2, <2>3 DEF Heard, Live, Stale
<1> QED
  BY <1>1, DelayInvariance, PTL

Stays == \A t \in Task : status[t] \in {"done", "failed", "cancelled", "deleted"}
                         => status'[t] \in {status[t], "deleted"}

\* No step takes a settled row up again.
LEMMA SettledStep ==
    ASSUME RunsOK, RowsOK, RestOK, HandInv, AttemptLeft, [Next]_vars
    PROVE  Stays
<1>1. ASSUME Tick PROVE Stays
  <2>1. TickDoes
    BY <1>1, TickRun
  <2> QED
    BY <2>1 DEF TickDoes, used, Stays, RowsOK, Open
<1>2. ASSUME NEW t \in Task, Schedule(t) PROVE Stays
  BY <1>2 DEF Schedule, used, Stays, RowsOK, Open
<1>3. ASSUME NEW t \in Task, Cleanup(t) PROVE Stays
  BY <1>3 DEF Cleanup, used, Stays, RowsOK, Open
<1>4. ASSUME NEW k \in Key, Cancel(k) PROVE Stays
  BY <1>4 DEF Cancel, used, Stays, RowsOK, Open
<1>5. ASSUME NEW k \in Key, NEW r \in Replica, Abort(r, k) PROVE Stays
  <2>1. AbortDoes(r)
    BY <1>5, AbortRun
  <2> QED
    BY <2>1 DEF AbortDoes, RunsEnded, Live, used, Stays, RowsOK, Open
<1>6. ASSUME NEW r \in Replica, NEW ts \in SUBSET Task, ClaimRows(r, ts) PROVE Stays
  BY <1>6 DEF ClaimRows, used, Claimable, Stays, RowsOK, Open
<1>7. ASSUME NEW r \in Replica, NEW s \in Slot, Beat(r, s) PROVE Stays
  <2>1. BeatDoes(r, s)
    BY <1>7, BeatRun
  <2> QED
    BY <2>1 DEF BeatDoes, Others, used, Stays, RowsOK, Open
<1>8. ASSUME NEW r \in Replica, NEW s \in Slot, BeatError(r, s) PROVE Stays
  <2>1. BeatErrorDoes(r, s)
    BY <1>8, BeatErrorRun
  <2> QED
    BY <2>1 DEF BeatErrorDoes, Others, row, Stays, RowsOK, Open
<1>9. ASSUME NEW r \in Replica, NEW s \in Slot, TimesOut(r, s) PROVE Stays
  <2>1. TimesOutDoes(r, s)
    BY <1>9, TimesOutRun
  <2> QED
    BY <2>1 DEF TimesOutDoes, Others, row, used, Stays, RowsOK, Open
<1>10. ASSUME NEW r \in Replica, NEW s \in Slot, Return(r, s) PROVE Stays
  <2>1. ReturnDoes(r, s)
    BY <1>10, ReturnRun
  <2> QED
    BY <2>1 DEF ReturnDoes, Others, row, used, Stays, RowsOK, Open
<1>11. ASSUME NEW r \in Replica, NEW s \in Slot, WriteOutcome(r, s) PROVE Stays
  <2>1. WriteOutcomeDoes(r, s)
    BY <1>11, WriteOutcomeRun
  <2>2. \A t \in Task : status[t] # "running" => status'[t] = status[t]
    BY <2>1 DEF WriteOutcomeDoes, RowsOK, row
  <2> QED
    BY <2>2 DEF Stays
<1>12. ASSUME NEW r \in Replica, NEW s \in Slot, Unwritten(r, s) PROVE Stays
  <2>1. UnwrittenDoes(r, s)
    BY <1>12, UnwrittenRun
  <2> QED
    BY <2>1 DEF UnwrittenDoes, Others, row, Stays, RowsOK, Open
<1>13. ASSUME NEW r \in Replica, NEW s \in Slot, NEW c \in queue[r], Begin(r, c, s) PROVE Stays
  <2>1. BeginDoes(r, c, s)
    BY <1>13, BeginRun
  <2> QED
    BY <2>1 DEF BeginDoes, Others, row, used, Stays, RowsOK, Open
<1>14. ASSUME NEW r \in Replica, StopRuns(r) PROVE Stays
  <2>1. StopRunsDoes(r)
    BY <1>14, StopRunsRun
  <2> QED
    BY <2>1 DEF StopRunsDoes, RunsEnded, Live, row, Stays, RowsOK, Open
<1>15. ASSUME NEW r \in Replica, StopPoller(r) PROVE Stays
  <2>1. StopPollerDoes(r)
    BY <1>15, StopPollerRun
  <2> QED
    BY <2>1 DEF StopPollerDoes, RunsEnded, Live, row, used, Stays, RowsOK, Open
<1>16. ASSUME NEW r \in Replica, Stopped(r) PROVE Stays
  BY <1>16 DEF Stopped, row, used, Stays, RowsOK, Open
<1>17. ASSUME NEW r \in Replica, Crash(r) PROVE Stays
  <2>1. CrashDoes(r)
    BY <1>17, CrashRun
  <2> QED
    BY <2>1 DEF CrashDoes, row, Stays, RowsOK, Open
<1>18. ASSUME NEW r \in Replica, Start(r) PROVE Stays
  BY <1>18 DEF Start, row, used, Stays, RowsOK, Open
<1>19. CASE UNCHANGED vars
  BY <1>19 DEF vars, row, used, Stays, RowsOK, Open
<1> QED
  BY <1>1, <1>2, <1>3, <1>4, <1>5, <1>6, <1>7, <1>8, <1>9, <1>10, <1>11, <1>12, <1>13, <1>14,
     <1>15, <1>16, <1>17, <1>18, <1>19 DEF Next, RunStep, Unwritten

\* A settled task stays settled, whatever claims, heartbeats and outcomes of
\* whichever replicas are still under way.
THEOREM SettledForGood == Spec => SettledStays
<1>1. DelayInv /\ [Next]_vars => Stays
  BY SettledStep DEF DelayInv
<1> QED
  BY <1>1, DelayInvariance, PTL DEF Spec, SettledStays, Stays

NoCost == \A r \in Replica, s \in Slot :
            LET x == run[r][s] IN
            x.phase = "returned" /\ run'[r][s].phase = "idle" /\ x.err
            /\ (mode[r] = "stopping" \/ x.cause \in {"shutdown", "parent"})
            => attempts' = attempts

\* A run that a stop interrupted costs its row no attempt, wherever Stop
\* caught it between claim, track and outcome.
THEOREM StopIsFree == Spec => StopCostsNoAttempt
<1>1. DelayInv /\ [Next]_vars => NoCost
  <2> SUFFICES ASSUME DelayInv, [Next]_vars, NEW q \in Replica, NEW z \in Slot,
                      run[q][z].phase = "returned", run'[q][z].phase = "idle", run[q][z].err,
                      mode[q] = "stopping" \/ run[q][z].cause \in {"shutdown", "parent"}
               PROVE  attempts' = attempts
    BY DEF NoCost
  <2>1. RunsOK /\ RowsOK /\ RestOK /\ HandInv /\ AttemptLeft
    BY DEF DelayInv
  <2>2. Interrupted(q, run[q][z])
    BY <2>1 DEF HandInv, RunInHand, Interrupted
  <2>3. CASE Steady
    BY <2>3 DEF Steady
  <2>4. ASSUME NEW r \in Replica, NEW ts \in SUBSET Task, ClaimRows(r, ts)
        PROVE  attempts' = attempts
    BY <2>4 DEF ClaimRows
  <2>5. ASSUME NEW r \in Replica, NEW s \in Slot, NEW c \in queue[r], Begin(r, c, s)
        PROVE  attempts' = attempts
    BY <2>5 DEF Begin, row
  <2>6. ASSUME NEW r \in Replica, NEW s \in Slot, WriteOutcome(r, s) PROVE attempts' = attempts
    <3>1. WriteOutcomeDoes(r, s)
      BY <2>1, <2>6, WriteOutcomeRun
    <3>2. r = q /\ s = z
      BY <3>1 DEF WriteOutcomeDoes, Others
    <3>3. CASE UNCHANGED row
      BY <3>3 DEF row
    <3>4. CASE ~UNCHANGED row
      <4>1. PICK n \in 0..MaxAttempts : /\ attempts' = [attempts EXCEPT ![run[r][s].task] = n]
                                        /\ n = attempts[run[r][s].task]
        BY <2>2, <3>1, <3>2, <3>4 DEF WriteOutcomeDoes
      <4> QED
        BY <2>1, <4>1 DEF RowsOK
    <3> QED
      BY <3>3, <3>4
  <2>7. ASSUME NEW r \in Replica, NEW s \in Slot, Unwritten(r, s) PROVE attempts' = attempts
    BY <2>7 DEF Unwritten, OutcomeError, OutcomeLate, row
  <2>8. ASSUME NEW r \in Replica, Crash(r) PROVE attempts' = attempts
    BY <2>8 DEF Crash, row
  <2> QED
    BY <2>1, <2>3, <2>4, <2>5, <2>6, <2>7, <2>8, SteadyStep DEF Moves
<1> QED
  BY <1>1, DelayInvariance, PTL DEF Spec, StopCostsNoAttempt, NoCost
=============================================================================
