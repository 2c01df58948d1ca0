-------------------------------- MODULE Job ---------------------------------
(***************************************************************************)
(* Execute (jobx/jobx.go) of one job by several runs: the CronJob's pods,  *)
(* or a run by hand.  The key is set for the timeout and a slack, and is   *)
(* deleted at the end without a look at whose it is.                       *)
(***************************************************************************)
EXTENDS Integers, FiniteSets

CONSTANTS
    Run, NoRun,
    Timeout, Slack,      \* in ticks: the job's timeout and lockTTLSlack
    MaxJobTime,          \* bound: ticks
    MaxJobFaults         \* bound: failed calls of Redis, deaths

ASSUME JobAssumption ==
    /\ NoRun \notin Run /\ Timeout \in Nat /\ Slack \in Nat \ {0}
    /\ MaxJobTime \in Nat /\ MaxJobFaults \in Nat

VARIABLES
    jobLocked,           \* Execute was given a Locker
    jobKey, jobLeft,     \* the run whose id the key holds, and its ttl
    runAt,               \* each run's place
    ran,                 \* ticks since the run started
    jobTime, jobFaults,
    strayDel             \* history: a run deleted a key that was not its own

jobVars == <<jobLocked, jobKey, jobLeft, runAt, ran, jobTime, jobFaults, strayDel>>

LockTTLBare == Timeout
LockTTL == Timeout + Slack

JobInit ==
    /\ jobLocked \in BOOLEAN /\ jobKey = NoRun /\ jobLeft = 0
    /\ runAt = [r \in Run |-> "start"] /\ ran = [r \in Run |-> 0]
    /\ jobTime = 0 /\ jobFaults = 0 /\ strayDel = FALSE

JobFault == jobFaults < MaxJobFaults /\ jobFaults' = jobFaults + 1
RunAt(r, place) == runAt' = [runAt EXCEPT ![r] = place]

-----------------------------------------------------------------------------
\* SetNX of the key; without a Locker the job runs all the same.
LockJob(r) ==
    /\ runAt[r] = "start"
    /\ IF jobLocked /\ jobKey # NoRun
       THEN RunAt(r, "skipped") /\ UNCHANGED <<jobKey, jobLeft>>
       ELSE /\ RunAt(r, "run")
            /\ jobKey' = (IF jobLocked THEN r ELSE NoRun)
            /\ jobLeft' = (IF jobLocked THEN LockTTL ELSE 0)
    /\ UNCHANGED <<jobLocked, ran, jobTime, jobFaults, strayDel>>

\* The lock is not to be had: not run, though the key may be set.
LockJobError(r) ==
    /\ runAt[r] = "start" /\ jobLocked /\ JobFault /\ RunAt(r, "skipped")
    /\ \/ UNCHANGED <<jobKey, jobLeft>>
       \/ jobKey = NoRun /\ jobKey' = r /\ jobLeft' = LockTTL
    /\ UNCHANGED <<jobLocked, ran, jobTime, strayDel>>

\* runSafely returns: the job's result, its error, its panic, or its reaction
\* to the end of ctx.  It may take its time over the last.
JobReturns(r) ==
    /\ runAt[r] = "run" /\ RunAt(r, IF jobLocked THEN "unlock" ELSE "over")
    /\ UNCHANGED <<jobLocked, jobKey, jobLeft, ran, jobTime, jobFaults, strayDel>>

\* The deferred Del.
UnlockJob(r) ==
    /\ runAt[r] = "unlock" /\ RunAt(r, "over")
    /\ jobKey' = NoRun /\ jobLeft' = 0
    /\ strayDel' = (strayDel \/ jobKey \notin {NoRun, r})
    /\ UNCHANGED <<jobLocked, ran, jobTime, jobFaults>>

UnlockJobError(r) ==
    /\ runAt[r] = "unlock" /\ JobFault /\ RunAt(r, "over")
    /\ UNCHANGED <<jobLocked, jobKey, jobLeft, ran, jobTime, strayDel>>

JobDies(r) ==
    /\ runAt[r] \in {"run", "unlock"} /\ JobFault /\ RunAt(r, "over")
    /\ UNCHANGED <<jobLocked, jobKey, jobLeft, ran, jobTime, strayDel>>

UnderLock(r) == runAt[r] \in {"run", "unlock"}

\* A key that has run out is gone.
JobTick ==
    /\ jobTime < MaxJobTime /\ jobTime' = jobTime + 1
    /\ jobLeft' = IF jobLeft > 0 THEN jobLeft - 1 ELSE 0
    /\ jobKey' = IF jobLeft <= 1 THEN NoRun ELSE jobKey
    /\ ran' = [r \in Run |-> IF UnderLock(r) THEN ran[r] + 1 ELSE ran[r]]
    /\ UNCHANGED <<jobLocked, runAt, jobFaults, strayDel>>

JobsOver == /\ jobTime = MaxJobTime /\ \A r \in Run : runAt[r] \in {"skipped", "over"}
            /\ UNCHANGED jobVars

JobNext ==
    \/ JobTick \/ JobsOver
    \/ \E r \in Run : \/ LockJob(r) \/ LockJobError(r) \/ JobReturns(r)
                      \/ UnlockJob(r) \/ UnlockJobError(r) \/ JobDies(r)

JobSpec == JobInit /\ [][JobNext]_jobVars

-----------------------------------------------------------------------------
(* Properties. *)

\* ErrLocked, "another run of this job is in progress", and the slack, "so a
\* run that hits its timeout still owns the lock while it winds down": two
\* runs are at work at once only if one of them has outlived timeout and
\* slack, or a run that had deleted the key of another one.
JobRunsAlone ==
    /\ jobLocked =>
         \A r, s \in Run :
            runAt[r] = "run" /\ runAt[s] = "run" /\ r # s
            => strayDel \/ \E t \in {r, s} : ran[t] >= Timeout + Slack
    /\ strayDel => \E r \in Run : ran[r] >= Timeout + Slack
=============================================================================
