----------------------------- MODULE DelayTask ------------------------------
(***************************************************************************)
(* delayx (delayx/delay.go): rows of delayed_task and the replicas'        *)
(* schedulers that claim and run them.  Each replica has a poller that     *)
(* claims due rows in one transaction, runs the short ones itself, one     *)
(* after the other, and hands the long ones to a pool; every run refreshes *)
(* locked_at, and a running row that is not refreshed for stale() is       *)
(* claimed again.                                                          *)
(*                                                                         *)
(* Time is relative: age[t] is the time since a running row's locked_at    *)
(* (since the abort, for an aborted one) and due[t] the time until its     *)
(* run_at; Tick moves all of it on.                                        *)
(***************************************************************************)
EXTENDS Integers, FiniteSets

CONSTANTS
    Task,          \* rows
    Long,          \* the rows whose kind is registered with Long()
    Key, KeyOf,    \* each row's kind+key, what Cancel and Abort select by
    Replica,
    NoTask, NoReplica,
    Batch,         \* delay.batch
    LongWorkers,   \* delay.long_workers
    MaxAttempts,   \* delay.max_attempts
    Heartbeat,     \* delay.heartbeat
    Timeout,       \* delay.timeout, or the kind's own
    Bookkeeping,   \* the time limit of the ctx a run writes its outcome on
    Minute, Hour,  \* the two ends of backoff
    Timely,        \* see Tick
    MaxRows,       \* bound: rows scheduled
    MaxErrors,     \* bound: statements of a run that fail in the database
    MaxStops,      \* bound: orderly stops
    MaxCrashes     \* bound: processes that die

ASSUME TaskAssumption ==
    /\ IsFiniteSet(Task) /\ Long \subseteq Task /\ NoTask \notin Task /\ NoReplica \notin Replica
    /\ KeyOf \in [Task -> Key]
ASSUME ConfigAssumption ==
    /\ Batch \in Nat \ {0} /\ LongWorkers \in Nat \ {0} /\ MaxAttempts \in Nat \ {0}
    /\ Heartbeat \in Nat \ {0} /\ Timeout \in Nat \ {0} /\ Bookkeeping \in Nat \ {0}
    /\ Minute \in Nat /\ Hour \in Nat /\ Timely \in BOOLEAN
    /\ MaxRows \in Nat /\ MaxErrors \in Nat /\ MaxStops \in Nat /\ MaxCrashes \in Nat

VARIABLES
    status, attempts, age, due,   \* the columns of each row
    mode,      \* each replica's life: see Mode
    queue,     \* rows a replica claimed and has not begun to run
    run,       \* run[r][0] is the poller's run, the others the pool's
    tracked,   \* Scheduler.running: the run Abort and Stop find for a task
    errors, stops, crashes,       \* how much of each bound is used
    claimer,   \* history: the process that claimed the row last, if it lives and
               \* the outcome has not come too late
    marked     \* history: rows somebody asked to cancel or abort, or that were
               \* claimed again while a run of theirs was still under way

row == <<status, attempts, age, due>>
used == <<errors, stops, crashes>>
vars == <<row, mode, queue, run, tracked, used, claimer, marked>>

-----------------------------------------------------------------------------
Short == Task \ Long
Stale == 3 * Heartbeat
Slot == 0..LongWorkers
PoolSlot == 1..LongWorkers

Status == {"absent", "pending", "running", "done", "failed", "cancelled", "deleted"}
Open == {"pending", "running"}

Mode == {"up",
         "cancelling",   \* Stop has ended the runs in progress
         "stopping",     \* Stop has ended the poller's ctx and waits
         "stopped", "crashed"}

\* The age of a run is counted up to the later of its two limits.
Longest == IF Timeout > Bookkeeping THEN Timeout ELSE Bookkeeping

\* context.Cause of a run's ctx; "parent" is the end of the poller's ctx.
Cause == {"none", "aborted", "shutdown", "timeout", "parent"}

Claim == [task : Task, read : Nat]   \* read: the attempts column when claimed

Run == [phase : {"idle", "running", "returned"}, task : Task \cup {NoTask}, read : Nat,
        cause : Cause, err : BOOLEAN, beat : 0..Heartbeat, ran : 0..Longest]

IdleRun == [phase |-> "idle", task |-> NoTask, read |-> 0, cause |-> "none",
            err |-> FALSE, beat |-> 0, ran |-> 0]

Untracked == LongWorkers + 1

TypeOK ==
    /\ status \in [Task -> Status] /\ attempts \in [Task -> 0..MaxAttempts]
    /\ age \in [Task -> 0..Stale + 1] /\ due \in [Task -> Nat]
    /\ mode \in [Replica -> Mode]
    /\ queue \in [Replica -> SUBSET Claim]
    /\ run \in [Replica -> [Slot -> Run]]
    /\ tracked \in [Replica -> [Task -> Slot \cup {Untracked}]]
    /\ errors \in 0..MaxErrors /\ stops \in 0..MaxStops /\ crashes \in 0..MaxCrashes
    /\ claimer \in [Task -> Replica \cup {NoReplica}] /\ marked \subseteq Task

Init ==
    /\ status = [t \in Task |-> "absent"] /\ attempts = [t \in Task |-> 0]
    /\ age = [t \in Task |-> 0] /\ due = [t \in Task |-> 0]
    /\ mode = [r \in Replica |-> "up"]
    /\ queue = [r \in Replica |-> {}]
    /\ run = [r \in Replica |-> [s \in Slot |-> IdleRun]]
    /\ tracked = [r \in Replica |-> [t \in Task |-> Untracked]]
    /\ errors = 0 /\ stops = 0 /\ crashes = 0
    /\ claimer = [t \in Task |-> NoReplica] /\ marked = {}

-----------------------------------------------------------------------------
(* The callers of the scheduler. *)

\* Schedule in a transaction that commits; one that does not leaves no row.
Schedule(t) ==
    /\ status[t] = "absent"
    /\ Cardinality({u \in Task : status[u] # "absent"}) < MaxRows
    /\ status' = [status EXCEPT ![t] = "pending"]
    /\ \E d \in {0, Minute} : due' = [due EXCEPT ![t] = d]
    /\ UNCHANGED <<attempts, age, mode, queue, run, tracked, used, claimer, marked>>

\* Cancel in a transaction that commits.
Cancel(k) ==
    /\ \E t \in Task : KeyOf[t] = k /\ status[t] = "pending"
    /\ status' = [t \in Task |-> IF KeyOf[t] = k /\ status[t] = "pending"
                                 THEN "cancelled" ELSE status[t]]
    /\ marked' = marked \cup {t \in Task : KeyOf[t] = k /\ status[t] = "pending"}
    /\ UNCHANGED <<attempts, age, due, mode, queue, run, tracked, used, claimer>>

\* cancelLocal: a ctx keeps the cause of its first cancellation.
EndedRuns(r, tasks, cause) ==
    [s \in Slot |->
        IF run[r][s].phase = "running" /\ run[r][s].cause = "none"
           /\ \E t \in tasks : tracked[r][t] = s
        THEN [run[r][s] EXCEPT !.cause = cause] ELSE run[r][s]]

\* Abort called on replica r.  The runs it finds here end now, whether the
\* transaction it was given commits afterwards or not.
Abort(r, k) ==
    LET ids == {t \in Task : KeyOf[t] = k /\ status[t] \in Open} IN
    /\ mode[r] \in {"up", "cancelling", "stopping"}
    /\ ids # {}
    /\ \/ /\ status' = [t \in Task |-> IF t \in ids THEN "cancelled" ELSE status[t]]
          /\ age' = [t \in Task |-> IF t \in ids THEN 0 ELSE age[t]]
       \/ UNCHANGED <<status, age>>
    /\ run' = [run EXCEPT ![r] = EndedRuns(r, ids, "aborted")]
    /\ marked' = marked \cup ids
    /\ UNCHANGED <<attempts, due, mode, queue, tracked, used, claimer>>

-----------------------------------------------------------------------------
(* RunOnce: claiming, and handing out what was claimed. *)

PollerFree(r) == queue[r] = {} /\ run[r][0].phase = "idle"

FreeAsIfEmpty(r) == LongWorkers

\* cap(longSem) - len(longSem)
Free(r) == LongWorkers - Cardinality({s \in PoolSlot : run[r][s].phase # "idle"})

ClaimablePendingOnly(t) == status[t] = "pending" /\ due[t] = 0

Claimable(t) ==
    \/ status[t] = "pending" /\ due[t] = 0
    \/ status[t] = "running" /\ age[t] > Stale

\* A replica has claimed the row and its run has not come to an end.
UnderWay(t) ==
    \E r \in Replica : \/ \E c \in queue[r] : c.task = t
                       \/ \E s \in Slot : run[r][s].phase # "idle" /\ run[r][s].task = t

\* One claiming transaction of replica r that takes the rows of ts.  Rows
\* another transaction has locked are skipped, so ts may be any part of what
\* is due, up to the two limits.
ClaimRows(r, ts) ==
    /\ mode[r] \in {"up", "cancelling"}
    /\ PollerFree(r)
    /\ ts # {} /\ \A t \in ts : Claimable(t)
    /\ Cardinality(ts \cap Short) <= Batch
    /\ Cardinality(ts \cap Long) <= Free(r)
    /\ status' = [t \in Task |-> IF t \in ts THEN "running" ELSE status[t]]
    /\ age' = [t \in Task |-> IF t \in ts THEN 0 ELSE age[t]]
    /\ queue' = [queue EXCEPT ![r] = {[task |-> t, read |-> attempts[t]] : t \in ts}]
    /\ claimer' = [t \in Task |-> IF t \in ts THEN r ELSE claimer[t]]
    /\ marked' = marked \cup {t \in ts : UnderWay(t)}
    /\ UNCHANGED <<attempts, due, mode, run, tracked, used>>

\* The poller begins the next claimed row: a short one in its own goroutine
\* once the one before is over, a long one, after them, in the pool.  The
\* row is not looked at again.  Only registered kinds are claimed and none is
\* ever taken back, so that the run always finds its handler.
Begin(r, c, s) ==
    /\ mode[r] \in {"up", "cancelling", "stopping"}
    /\ c \in queue[r]
    /\ run[r][0].phase = "idle" /\ run[r][s].phase = "idle"
    /\ IF c.task \in Short THEN s = 0
       ELSE s # 0 /\ \A d \in queue[r] : d.task \in Long
    /\ queue' = [queue EXCEPT ![r] = @ \ {c}]
    /\ run' = [run EXCEPT ![r][s] =
                 [phase |-> "running", task |-> c.task, read |-> c.read,
                  cause |-> IF mode[r] = "stopping" THEN "parent" ELSE "none",
                  err |-> FALSE, beat |-> Heartbeat, ran |-> 0]]
    /\ tracked' = [tracked EXCEPT ![r][c.task] = s]
    /\ UNCHANGED <<row, mode, used, claimer, marked>>

-----------------------------------------------------------------------------
(* run: the handler, its heartbeat, its time limit and its outcome. *)

Live(r, s) == run[r][s].phase = "running" /\ run[r][s].cause = "none"

OneMoreError == errors < MaxErrors /\ errors' = errors + 1

BeatIgnored(r, s) ==
    LET t == run[r][s].task IN
    /\ Live(r, s) /\ run[r][s].beat = 0
    /\ run' = [run EXCEPT ![r][s].beat = Heartbeat]
    /\ age' = IF status[t] = "running" THEN [age EXCEPT ![t] = 0] ELSE age
    /\ UNCHANGED <<status, attempts, due, mode, queue, tracked, used, claimer, marked>>

\* The heartbeat refreshes the row, or finds it no longer running.
Beat(r, s) ==
    LET t == run[r][s].task IN
    /\ Live(r, s) /\ run[r][s].beat = 0
    /\ \/ /\ status[t] = "running"
          /\ age' = [age EXCEPT ![t] = 0]
          /\ run' = [run EXCEPT ![r][s].beat = Heartbeat]
       \/ /\ status[t] # "running"
          /\ run' = [run EXCEPT ![r][s].cause = "aborted"]
          /\ UNCHANGED age
    /\ UNCHANGED <<status, attempts, due, mode, queue, tracked, used, claimer, marked>>

BeatError(r, s) ==
    /\ Live(r, s) /\ run[r][s].beat = 0 /\ OneMoreError
    /\ run' = [run EXCEPT ![r][s].beat = Heartbeat]
    /\ UNCHANGED <<row, mode, queue, tracked, stops, crashes, claimer, marked>>

TimesOut(r, s) ==
    /\ Live(r, s) /\ run[r][s].ran >= Timeout
    /\ run' = [run EXCEPT ![r][s].cause = "timeout"]
    /\ UNCHANGED <<row, mode, queue, tracked, used, claimer, marked>>

\* The handler returns, with or without an error, whatever its ctx says (a
\* panic is an error); the cause is read and the run untracked.
Return(r, s) ==
    LET t == run[r][s].task IN
    /\ run[r][s].phase = "running"
    /\ \E e \in BOOLEAN : run' = [run EXCEPT ![r][s].phase = "returned", ![r][s].err = e]
    /\ tracked' = [tracked EXCEPT ![r][t] = Untracked]
    /\ UNCHANGED <<row, mode, queue, used, claimer, marked>>

InterruptedByCauseOnly(r, x) == x.err /\ x.cause = "shutdown"

\* The service is stopping and the handler gave up because of it.
Interrupted(r, x) == x.err /\ (x.cause = "shutdown" \/ mode[r] = "stopping")

BackoffOf(n) ==
    LET d == Minute * 2 ^ (IF n - 1 < 10 THEN n - 1 ELSE 10)
    IN  IF d > Hour THEN Hour ELSE d

OutcomeOneTooMany(r, x) ==
    LET n == x.read + 1
        keep == [status |-> "pending", attempts |-> attempts[x.task], due |-> due[x.task]] IN
    IF x.cause = "aborted" THEN [keep EXCEPT !.status = "cancelled"]
    ELSE IF Interrupted(r, x) THEN [keep EXCEPT !.due = 0]
    ELSE IF ~x.err THEN [keep EXCEPT !.status = "done", !.attempts = n]
    ELSE IF n > MaxAttempts THEN [keep EXCEPT !.status = "failed", !.attempts = n]
    ELSE [status |-> "pending", attempts |-> n, due |-> BackoffOf(n)]

\* What a run that is over writes: status, attempts and the new delay.
Outcome(r, x) ==
    LET n == x.read + 1
        t == x.task
        keep == [status |-> "pending", attempts |-> attempts[t], due |-> due[t]] IN
    IF x.cause = "aborted" THEN [keep EXCEPT !.status = "cancelled"]
    ELSE IF Interrupted(r, x) THEN [keep EXCEPT !.due = 0]
    ELSE IF ~x.err THEN [keep EXCEPT !.status = "done", !.attempts = n]
    ELSE IF n >= MaxAttempts THEN [keep EXCEPT !.status = "failed", !.attempts = n]
    ELSE [status |-> "pending", attempts |-> n, due |-> BackoffOf(n)]

MayWriteUnguarded(t) == TRUE

\* UPDATE ... WHERE id = ? AND status = 'running'
MayWrite(t) == status[t] = "running"

\* The ctx of the outcome is made before the handler runs.
Overdue(x) == x.ran >= Bookkeeping

WriteOutcome(r, s) ==
    LET x == run[r][s]
        t == x.task
        o == Outcome(r, x) IN
    /\ x.phase = "returned" /\ ~Overdue(x)
    /\ IF MayWrite(t)
       THEN /\ status' = [status EXCEPT ![t] = o.status]
            /\ attempts' = [attempts EXCEPT ![t] = o.attempts]
            /\ due' = [due EXCEPT ![t] = o.due]
            /\ age' = [age EXCEPT ![t] = 0]
       ELSE UNCHANGED row
    /\ run' = [run EXCEPT ![r][s] = IdleRun]
    /\ UNCHANGED <<mode, queue, tracked, used, claimer, marked>>

\* The write fails and is only logged; the row stays running.
OutcomeError(r, s) ==
    /\ run[r][s].phase = "returned" /\ OneMoreError
    /\ run' = [run EXCEPT ![r][s] = IdleRun]
    /\ UNCHANGED <<row, mode, queue, tracked, stops, crashes, claimer, marked>>

\* The ctx is over before the write: it fails whatever the database does.
OutcomeLate(r, s) ==
    LET x == run[r][s] IN
    /\ x.phase = "returned" /\ Overdue(x)
    /\ run' = [run EXCEPT ![r][s] = IdleRun]
    /\ claimer' = [claimer EXCEPT ![x.task] = IF @ = r THEN NoReplica ELSE @]
    /\ UNCHANGED <<row, mode, queue, tracked, used, marked>>

-----------------------------------------------------------------------------
(* The life of a replica, and time. *)

StopRunsAborting(r) ==
    /\ mode[r] = "up" /\ stops < MaxStops /\ stops' = stops + 1
    /\ mode' = [mode EXCEPT ![r] = "cancelling"]
    /\ run' = [run EXCEPT ![r] = EndedRuns(r, Task, "aborted")]
    /\ UNCHANGED <<row, queue, tracked, errors, crashes, claimer, marked>>

\* Stop, first half: the runs in progress end, cause ErrShutdown.
StopRuns(r) ==
    /\ mode[r] = "up" /\ stops < MaxStops /\ stops' = stops + 1
    /\ mode' = [mode EXCEPT ![r] = "cancelling"]
    /\ run' = [run EXCEPT ![r] = EndedRuns(r, Task, "shutdown")]
    /\ UNCHANGED <<row, queue, tracked, errors, crashes, claimer, marked>>

\* Second half: the poller's ctx ends, and with it that of every other run.
StopPoller(r) ==
    /\ mode[r] = "cancelling"
    /\ mode' = [mode EXCEPT ![r] = "stopping"]
    /\ run' = [run EXCEPT ![r] = [s \in Slot |->
                 IF Live(r, s) THEN [run[r][s] EXCEPT !.cause = "parent"] ELSE run[r][s]]]
    /\ UNCHANGED <<row, queue, tracked, used, claimer, marked>>

StoppedWithoutQueue(r) ==
    /\ mode[r] = "stopping"
    /\ \A s \in Slot : run[r][s].phase = "idle"
    /\ mode' = [mode EXCEPT ![r] = "stopped"]
    /\ queue' = [queue EXCEPT ![r] = {}]
    /\ UNCHANGED <<row, run, tracked, used, claimer, marked>>

\* wg.Wait returns: the poller went through its batch, the pool is empty.
Stopped(r) ==
    /\ mode[r] = "stopping"
    /\ queue[r] = {} /\ \A s \in Slot : run[r][s].phase = "idle"
    /\ mode' = [mode EXCEPT ![r] = "stopped"]
    /\ UNCHANGED <<row, queue, run, tracked, used, claimer, marked>>

Crash(r) ==
    /\ mode[r] # "crashed" /\ crashes < MaxCrashes /\ crashes' = crashes + 1
    /\ mode' = [mode EXCEPT ![r] = "crashed"]
    /\ queue' = [queue EXCEPT ![r] = {}]
    /\ run' = [run EXCEPT ![r] = [s \in Slot |-> IdleRun]]
    /\ tracked' = [tracked EXCEPT ![r] = [t \in Task |-> Untracked]]
    /\ claimer' = [t \in Task |-> IF claimer[t] = r THEN NoReplica ELSE claimer[t]]
    /\ UNCHANGED <<row, errors, stops, marked>>

\* A new process: New and Start.
Start(r) ==
    /\ mode[r] \in {"stopped", "crashed"}
    /\ mode' = [mode EXCEPT ![r] = "up"]
    /\ UNCHANGED <<row, queue, run, tracked, used, claimer, marked>>

\* The hourly cleanup: done and cancelled rows past retention.
Cleanup(t) ==
    /\ status[t] \in {"done", "cancelled"}
    /\ status' = [status EXCEPT ![t] = "deleted"]
    /\ UNCHANGED <<attempts, age, due, mode, queue, run, tracked, used, claimer, marked>>

\* Replica r has something to do before a unit of time is over.
Busy(r) ==
    \/ mode[r] = "cancelling"
    \/ queue[r] # {} /\ run[r][0].phase = "idle"
    \/ \E s \in Slot :
         \/ run[r][s].phase = "returned"
         \/ run[r][s].phase = "running" /\ run[r][s].cause # "none"
         \/ Live(r, s) /\ (run[r][s].beat = 0 \/ run[r][s].ran >= Timeout)

\* A unit of time passes.  When Timely, goroutines run and the database
\* answers within a unit and handlers return once their ctx ends; otherwise
\* any of them may be slower than any timer.
Tick ==
    /\ Timely => \A r \in Replica : ~Busy(r)
    /\ age' = [t \in Task |-> IF \/ status[t] = "running" /\ age[t] <= Stale
                                 \/ status[t] = "cancelled" /\ age[t] <= Heartbeat
                              THEN age[t] + 1 ELSE age[t]]
    /\ due' = [t \in Task |-> IF due[t] > 0 THEN due[t] - 1 ELSE 0]
    /\ run' = [r \in Replica |-> [s \in Slot |->
                 LET x == run[r][s] IN
                 IF x.phase = "idle" THEN x
                 ELSE [x EXCEPT !.beat = IF @ > 0 /\ Live(r, s) THEN @ - 1 ELSE @,
                                !.ran = IF @ < Longest THEN @ + 1 ELSE @]]]
    /\ UNCHANGED <<status, attempts, mode, queue, tracked, used, claimer, marked>>

-----------------------------------------------------------------------------
RunStep(r, s) ==
    \/ Beat(r, s) \/ BeatError(r, s) \/ TimesOut(r, s) \/ Return(r, s)
    \/ WriteOutcome(r, s) \/ OutcomeError(r, s) \/ OutcomeLate(r, s)
    \/ \E c \in queue[r] : Begin(r, c, s)

Next ==
    \/ Tick
    \/ \E t \in Task : Schedule(t) \/ Cleanup(t)
    \/ \E k \in Key : Cancel(k) \/ \E r \in Replica : Abort(r, k)
    \/ \E r \in Replica :
         \/ \E ts \in SUBSET Task : ClaimRows(r, ts)
         \/ \E s \in Slot : RunStep(r, s)
         \/ StopRuns(r) \/ StopPoller(r) \/ Stopped(r) \/ Crash(r) \/ Start(r)

Spec == Init /\ [][Next]_vars

\* Time passes; the goroutines of a live replica run; a process that is down
\* is started again; handlers return; a row that is due is not skipped by
\* every claiming transaction for ever.
Fairness ==
    /\ WF_vars(Tick)
    /\ \A r \in Replica :
         /\ WF_vars(StopPoller(r)) /\ WF_vars(Stopped(r)) /\ WF_vars(Start(r))
         /\ \A s \in Slot :
              /\ WF_vars(Beat(r, s)) /\ WF_vars(TimesOut(r, s)) /\ WF_vars(Return(r, s))
              /\ WF_vars(WriteOutcome(r, s) \/ OutcomeLate(r, s))
              /\ WF_vars(\E c \in queue[r] : Begin(r, c, s))
    /\ \A t \in Task : SF_vars(\E r \in Replica, ts \in SUBSET Task : t \in ts /\ ClaimRows(r, ts))

FairSpec == Spec /\ Fairness

-----------------------------------------------------------------------------
(* Properties. *)

\* A task that was settled is settled for good: a cancelled (aborted), done
\* or failed row never becomes pending or running again, whichever claims,
\* heartbeats and late outcomes of whichever replicas are still under way.
SettledStays ==
    [][\A t \in Task : status[t] \in {"done", "failed", "cancelled", "deleted"}
                       => status'[t] \in {status[t], "deleted"}]_vars

\* max_attempts: a row that may still be claimed has an attempt left, and so
\* has every run of it under way, a late run of a replica that lost the row
\* included (its outcome would otherwise push attempts past the limit).
AttemptLeft ==
    /\ \A t \in Task : status[t] \in Open => attempts[t] < MaxAttempts
    /\ \A r \in Replica : /\ \A c \in queue[r] : c.read < MaxAttempts
                          /\ \A s \in Slot : run[r][s].read < MaxAttempts

\* "A run interrupted by the service stopping goes back to pending at once,
\* without counting as an attempt": when a handler gives up on a replica
\* that is stopping, the row's attempts stay as they are, wherever Stop
\* caught the run between claim, track and outcome.
StopCostsNoAttempt ==
    [][\A r \in Replica, s \in Slot :
         LET x == run[r][s] IN
         x.phase = "returned" /\ run'[r][s].phase = "idle" /\ x.err
         /\ (mode[r] = "stopping" \/ x.cause \in {"shutdown", "parent"})
         => attempts' = attempts]_vars

\* A replica that stopped in order leaves no row running behind it (where it
\* would wait for stale()), provided the database took its writes and the run
\* was not older than its bookkeeping when it ended: such a row is left.
StopHandsWorkBack ==
    errors = 0 => \A t \in Task, r \in Replica :
        status[t] = "running" /\ claimer[t] = r => mode[r] # "stopped"

\* "room was checked above; the poller is the only sender": the long rows a
\* poller still has to hand out fit into the pool, so it never blocks there.
PoolHasRoom ==
    \A r \in Replica :
        Cardinality({c \in queue[r] : c.task \in Long})
          + Cardinality({s \in PoolSlot : run[r][s].phase # "idle"}) <= LongWorkers

\* A task that was scheduled is run until it is done or out of attempts, or it
\* is cancelled: "A failing handler is retried with backoff up to max_attempts,
\* then the task is marked failed", "the run's own ctx may be over (timeout,
\* abort, shutdown) and the row still has to be updated".  Violated when a
\* handler may outlive Bookkeeping: no outcome of such a run is ever written,
\* and the row is claimed and run again for ever.
SettledInTheEnd ==
    \A t \in Task : status[t] = "pending" ~> status[t] \notin Open

\* At least once, and not for ever: with handlers that are over within the
\* time their bookkeeping has, every task is settled, whoever stops or
\* crashes on the way and whichever write fails.
EveryTaskIsSettled == Timely /\ Timeout < Bookkeeping => SettledInTheEnd

\* A task is cancelled only because somebody asked for it: a heartbeat that
\* fails, a timeout, a stop or a crash never cancels one.  Two ways in which
\* the code does are named in marked: an Abort whose transaction rolled back
\* has ended the run on its own replica, whose outcome cancels the row; and a
\* run that lost its row to another replica takes the row's going back to
\* pending for an abort, and cancels what the other one runs.
CancelledWhenAsked == \A t \in Task : status[t] = "cancelled" => t \in marked

\* "one on another replica at its next heartbeat": while the database
\* answers in time, the ctx of a run is over one heartbeat after its row was
\* aborted or, if the row was still waiting in a batch then, one heartbeat
\* after the run began.
AbortReachesTheRun ==
    Timely /\ errors = 0 => \A r \in Replica, s \in Slot :
        Live(r, s) /\ status[run[r][s].task] = "cancelled"
        => age[run[r][s].task] <= Heartbeat \/ run[r][s].ran <= Heartbeat
=============================================================================
