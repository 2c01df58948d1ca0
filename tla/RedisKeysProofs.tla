--------------------------- MODULE RedisKeysProofs --------------------------
(***************************************************************************)
(* Proofs about the parts that keep a key in Redis: the idempotency        *)
(* middleware, the callbacks' dedupe key, the lock of a job, the id        *)
(* generator's lease and the cache, for any number of calls, deliveries,   *)
(* runs, replicas, readers and writers and any bounds.                     *)
(***************************************************************************)
EXTENDS Idempotency, Cache, IdLease, Callback, Job, TLAPS

(* The idempotency middleware. *)

\* The inductive strengthening of RunsAtMostOnce: a call under way holds the
\* key as "pending"; a success is still about to be kept, is kept, or left
\* the key pending for good, so that nobody can claim it again; and a kept
\* key is the trace of a success.
PendingInv ==
    /\ \A c \in Call : UnderWay(c) => key = "pending"
    /\ wins = 0 => key # "kept" /\ \A c \in Call : pc[c] # "keep"
    /\ wins = 1 => key # "none"

IdempotencyInv == TypeOK /\ RunsAtMostOnce /\ PendingInv

\* Before the first call nothing is claimed or kept.
LEMMA IdempotencyInitInv == Init => IdempotencyInv
BY BoundAssumption DEF Init, IdempotencyInv, RunsAtMostOnce, PendingInv, UnderWay, TypeOK,
                       Place, Answer

\* Every round trip, failure and crash of the middleware preserves it.
LEMMA IdempotencyStepInv == IdempotencyInv /\ [Next]_vars => IdempotencyInv'
<1> SUFFICES ASSUME IdempotencyInv, [Next]_vars PROVE IdempotencyInv'
  OBVIOUS
<1> USE BoundAssumption DEF IdempotencyInv, RunsAtMostOnce, PendingInv, UnderWay, Return, Goto,
                            OneMoreError, TypeOK, Place, Answer, used
<1>1. ASSUME NEW c \in Call, Claim(c) PROVE IdempotencyInv'
  BY <1>1 DEF Claim
<1>2. ASSUME NEW c \in Call, ClaimError(c) PROVE IdempotencyInv'
  BY <1>2 DEF ClaimError
<1>3. ASSUME NEW c \in Call, Read(c) \/ ReadError(c) PROVE IdempotencyInv'
  BY <1>3 DEF Read, ReadError
<1>4. ASSUME NEW c \in Call, HandlerSucceeds(c) PROVE IdempotencyInv'
  BY <1>4 DEF HandlerSucceeds
<1>5. ASSUME NEW c \in Call, HandlerFails(c) PROVE IdempotencyInv'
  BY <1>5 DEF HandlerFails
<1>6. ASSUME NEW c \in Call, Drop(c) \/ DropError(c) PROVE IdempotencyInv'
  BY <1>6 DEF Drop, DropError
<1>7. ASSUME NEW c \in Call, Keep(c) \/ KeepError(c) PROVE IdempotencyInv'
  BY <1>7 DEF Keep, KeepError
<1>8. ASSUME NEW c \in Call, Crash(c) PROVE IdempotencyInv'
  BY <1>8 DEF Crash
<1>9. CASE Expire
  BY <1>9 DEF Expire
<1>10. CASE UNCHANGED vars
  BY <1>10 DEF vars
<1> QED
  BY <1>1, <1>2, <1>3, <1>4, <1>5, <1>6, <1>7, <1>8, <1>9, <1>10 DEF Next, AllReturned

\* The strengthening holds in every reachable state of the middleware.
THEOREM IdempotencyInvariance == Spec => []IdempotencyInv
BY IdempotencyInitInv, IdempotencyStepInv, PTL DEF Spec

\* Every variable of the middleware's model keeps its type.
THEOREM IdempotencyTypeCorrect == Spec => []TypeOK
<1>1. IdempotencyInv => TypeOK
  BY DEF IdempotencyInv
<1> QED
  BY IdempotencyInvariance, <1>1, PTL

\* For any number of retries and any failures: one success per request_id,
\* and never two calls in the handler.
THEOREM AtMostOnce == Spec => []RunsAtMostOnce
<1>1. IdempotencyInv => RunsAtMostOnce
  BY DEF IdempotencyInv
<1> QED
  BY IdempotencyInvariance, <1>1, PTL

\* A retry is answered with a kept result only after a run that succeeded.
THEOREM ReplaysAreReal == Spec => ReplayNeedsASuccess
<1> DEFINE A == \A c \in Call : ret[c] # "replayed" /\ ret'[c] = "replayed"
                                => wins = 1 /\ key = "kept"
<1>1. ASSUME IdempotencyInv, Next PROVE A
  <2> SUFFICES ASSUME NEW c \in Call, ret[c] # "replayed", ret'[c] = "replayed"
               PROVE wins = 1 /\ key = "kept"
    OBVIOUS
  <2>1. Read(c) /\ key = "kept"
    BY <1>1 DEF IdempotencyInv, TypeOK, Next, Expire, AllReturned, vars, Claim, ClaimError,
                Read, ReadError,
                HandlerSucceeds, HandlerFails, Drop, DropError, Keep, KeepError, Crash,
                Return, Goto
  <2> QED
    BY <1>1, <2>1 DEF IdempotencyInv, TypeOK, PendingInv, RunsAtMostOnce
<1>2. IdempotencyInv /\ [Next]_vars => [A]_vars
  BY <1>1
<1> QED
  BY IdempotencyInvariance, <1>2, PTL DEF Spec, ReplayNeedsASuccess

-----------------------------------------------------------------------------
(* The callbacks. *)

CallbackTypeOK ==
    /\ serveAt \in [Delivery -> {"check", "claim", "handle", "forget", "served"}]
    /\ status \in [Delivery -> Status]
    /\ archived \subseteq Delivery /\ successes \in Nat

\* What is past the archive is in it, so that no answer 2xx can come before.
PastTheArchive ==
    \A d \in Delivery :
        archiving /\ (serveAt[d] \in {"claim", "handle", "forget"} \/ status[d] = "ok")
        => d \in archived

\* What the key stands for: while a delivery is worked on it is set, without
\* it nothing was handled, and it is set by someone who handled the event, is
\* at it, or will never delete it.
MarkInv ==
    /\ deduped /\ mark => everHandled \/ orphan \/ \E e \in Delivery : Working(e)
    /\ deduped /\ ~mark => successes = 0 /\ \A d \in Delivery : ~Working(d)
    /\ ~deduped => \A d \in Delivery : status[d] = "ok" => everHandled

CallbackInv == CallbackTypeOK /\ PastTheArchive /\ MarkInv /\ CallbackOkMeansHandled

\* Before the first delivery nothing is marked, answered or handled.
LEMMA CallbackInitInv == CallbackInit => CallbackInv
BY DEF CallbackInit, CallbackInv, CallbackTypeOK, PastTheArchive, MarkInv,
       CallbackOkMeansHandled, Working, Status

\* A delivery's step, a death and the end of the key preserve it.
LEMMA CallbackStepInv == CallbackInv /\ [CallbackNext]_callbackVars => CallbackInv'
<1> SUFFICES ASSUME CallbackInv, [CallbackNext]_callbackVars PROVE CallbackInv'
  OBVIOUS
<1> USE DEF CallbackInv, CallbackTypeOK, PastTheArchive, MarkInv, CallbackOkMeansHandled,
            Working, Status, Replies, ServeAt, CallbackFault, setting
<1>1. CASE MarkExpires
  BY <1>1 DEF MarkExpires
<1>2. CASE AllServed \/ UNCHANGED callbackVars
  BY <1>2 DEF AllServed, callbackVars
<1>3. ASSUME NEW d \in Delivery, Refuse(d) PROVE CallbackInv'
  BY <1>3 DEF Refuse
<1>4. ASSUME NEW d \in Delivery, Archive(d) PROVE CallbackInv'
  BY <1>4 DEF Archive
<1>5. ASSUME NEW d \in Delivery, ArchiveError(d) PROVE CallbackInv'
  BY <1>5 DEF ArchiveError
<1>6. ASSUME NEW d \in Delivery, ClaimEvent(d) PROVE CallbackInv'
  BY <1>6 DEF ClaimEvent
<1>7. ASSUME NEW d \in Delivery, ClaimEventError(d) PROVE CallbackInv'
  <2>1. (orphan => orphan') /\ (mark' /\ ~mark => orphan')
    BY <1>7, Zenon DEF ClaimEventError
  <2>2. mark => mark'
    BY <1>7, Zenon DEF ClaimEventError
  <2> QED
    BY <1>7, <2>1, <2>2 DEF ClaimEventError
<1>8. ASSUME NEW d \in Delivery, Handled(d) PROVE CallbackInv'
  BY <1>8 DEF Handled
<1>9. ASSUME NEW d \in Delivery, NotHandled(d) PROVE CallbackInv'
  <2>1. overtaken => overtaken'
    BY <1>9, Zenon DEF NotHandled
  <2> QED
    BY <1>9, <2>1 DEF NotHandled
<1>10. ASSUME NEW d \in Delivery, Forget(d) PROVE CallbackInv'
  <2>1. (overtaken => overtaken') /\ ((\E e \in Delivery : status[e] = "ok") => overtaken')
    BY <1>10, Zenon DEF Forget
  <2> QED
    BY <1>10, <2>1 DEF Forget
<1>11. ASSUME NEW d \in Delivery, ForgetError(d) PROVE CallbackInv'
  BY <1>11 DEF ForgetError
<1>12. ASSUME NEW d \in Delivery, ServerDies(d) PROVE CallbackInv'
  BY <1>12 DEF ServerDies
<1> QED
  BY <1>1, <1>2, <1>3, <1>4, <1>5, <1>6, <1>7, <1>8, <1>9, <1>10, <1>11, <1>12
     DEF CallbackNext

\* For any number of deliveries and any failures of the stores, the handler
\* and the process: what is answered 2xx is archived and was or is being
\* handled but for the two races, and with the key one run succeeds.
THEOREM OkMeansHandled == CallbackSpec => []CallbackOkMeansHandled
<1>1. CallbackInv => CallbackOkMeansHandled
  BY DEF CallbackInv
<1> QED
  BY CallbackInitInv, CallbackStepInv, <1>1, PTL DEF CallbackSpec

-----------------------------------------------------------------------------
(* The lock of a job. *)

JobTypeOK ==
    /\ jobKey \in Run \cup {NoRun} /\ jobLeft \in 0..LockTTL
    /\ runAt \in [Run -> {"start", "run", "unlock", "skipped", "over"}]
    /\ ran \in [Run -> Nat]

\* While no key of another run was deleted, a run younger than the key's ttl
\* holds the key, which has exactly the rest of the ttl to live.
KeyIsHeld ==
    /\ \A r \in Run : runAt[r] = "start" => ran[r] = 0
    /\ \A r \in Run : runAt[r] = "unlock" => jobLocked
    /\ jobLocked /\ ~strayDel =>
         \A r \in Run : UnderLock(r) /\ ran[r] < LockTTL
                        => jobKey = r /\ jobLeft = LockTTL - ran[r]

JobInv == JobTypeOK /\ KeyIsHeld /\ JobRunsAlone

\* No run has started, no key is set.
LEMMA JobInitInv == JobInit => JobInv
BY JobAssumption DEF JobInit, JobInv, JobTypeOK, KeyIsHeld, JobRunsAlone, UnderLock, LockTTL

\* The runs' steps and the passing of time preserve it.
LEMMA JobStepInv == JobInv /\ [JobNext]_jobVars => JobInv'
<1> SUFFICES ASSUME JobInv, [JobNext]_jobVars PROVE JobInv'
  OBVIOUS
<1> USE JobAssumption DEF JobInv, JobTypeOK, KeyIsHeld, JobRunsAlone, UnderLock, LockTTL,
                          RunAt, JobFault
<1>1. CASE JobTick
  BY <1>1 DEF JobTick
<1>2. CASE JobsOver \/ UNCHANGED jobVars
  BY <1>2 DEF JobsOver, jobVars
<1>3. ASSUME NEW r \in Run, LockJob(r) PROVE JobInv'
  BY <1>3 DEF LockJob
<1>4. ASSUME NEW r \in Run, LockJobError(r) PROVE JobInv'
  BY <1>4 DEF LockJobError
<1>5. ASSUME NEW r \in Run, JobReturns(r) PROVE JobInv'
  BY <1>5 DEF JobReturns
<1>6. ASSUME NEW r \in Run, UnlockJob(r) PROVE JobInv'
  <2>1. (strayDel => strayDel') /\ (strayDel' => strayDel \/ jobKey \notin {NoRun, r})
    BY <1>6, Zenon DEF UnlockJob
  <2>2. jobKey \notin {NoRun, r} => strayDel'
    BY <1>6, Zenon DEF UnlockJob
  <2> QED
    BY <1>6, <2>1, <2>2 DEF UnlockJob
<1>7. ASSUME NEW r \in Run, UnlockJobError(r) \/ JobDies(r) PROVE JobInv'
  BY <1>7 DEF UnlockJobError, JobDies
<1> QED
  BY <1>1, <1>2, <1>3, <1>4, <1>5, <1>6, <1>7 DEF JobNext

\* For any number of runs, any timeout and any slack: two runs are at work at
\* once only when one outlived the key, or a run that did deleted a key.
THEOREM RunsAlone == JobSpec => []JobRunsAlone
<1>1. JobInv => JobRunsAlone
  BY DEF JobInv
<1> QED
  BY JobInitInv, JobStepInv, <1>1, PTL DEF JobSpec

-----------------------------------------------------------------------------
(* The id generator. *)

\* A larger leading digit makes the larger number.
LEMMA LeadingDigit ==
    ASSUME NEW M \in Nat, NEW a \in Nat, NEW b \in Nat, NEW x \in 0..M, NEW y \in 0..M, a < b
    PROVE  a * (M + 1) + x < b * (M + 1) + y
<1> DEFINE d == b - a - 1
<1>1. d \in Nat /\ b = a + 1 + d
  OBVIOUS
<1> HIDE DEF d
<1>2. d * (M + 1) \in Nat /\ a * (M + 1) \in Nat
  BY <1>1
<1>3. b * (M + 1) = a * (M + 1) + (M + 1) + d * (M + 1)
  BY <1>1
<1> QED
  BY <1>2, <1>3

\* Ids are ordered by time, then instance, then sequence number.
LEMMA IdOrder ==
    ASSUME NEW t \in Nat, NEW n \in Number, NEW s \in 0..MaxSeq,
           NEW u \in Nat, NEW k \in Number, NEW r \in 0..MaxSeq,
           t < u \/ (t = u /\ n < k) \/ (t = u /\ n = k /\ s < r)
    PROVE  Id(t, n, s) < Id(u, k, r)
<1> DEFINE high(i, j) == i * (MaxInstance + 1) + j
<1>1. MaxInstance \in Nat /\ MaxSeq \in Nat /\ n \in Nat /\ k \in Nat
  BY IdAssumption DEF Number
<1>2. t < u => high(t, n) < high(u, k)
  BY <1>1, LeadingDigit DEF Number
<1>3. t = u /\ n < k => high(t, n) < high(u, k)
  BY <1>1
<1>4. high(t, n) \in Nat /\ high(u, k) \in Nat
  BY <1>1
<1>5. Id(t, n, s) = high(t, n) * (MaxSeq + 1) + s /\ Id(u, k, r) = high(u, k) * (MaxSeq + 1) + r
  BY DEF Id
<1> HIDE DEF high
<1>6. CASE high(t, n) < high(u, k)
  BY <1>1, <1>4, <1>5, <1>6, LeadingDigit
<1>7. CASE t = u /\ n = k /\ s < r
  <2>1. high(t, n) = high(u, k)
    BY <1>7
  <2> QED
    BY <1>1, <1>4, <1>5, <1>7, <2>1
<1> QED
  BY <1>2, <1>3, <1>6, <1>7

\* An id determines its three fields.
LEMMA IdInjective ==
    ASSUME NEW t \in Nat, NEW n \in Number, NEW s \in 0..MaxSeq,
           NEW u \in Nat, NEW k \in Number, NEW r \in 0..MaxSeq,
           Id(t, n, s) = Id(u, k, r)
    PROVE  t = u /\ n = k /\ s = r
<1>1. MaxInstance \in Nat /\ MaxSeq \in Nat /\ n \in Nat /\ k \in Nat
  BY IdAssumption DEF Number
<1>2. Id(t, n, s) \in Int /\ Id(u, k, r) \in Int
  BY <1>1 DEF Id
<1>3. ~(t < u \/ (t = u /\ n < k) \/ (t = u /\ n = k /\ s < r))
  BY <1>2, IdOrder
<1>4. ~(u < t \/ (u = t /\ k < n) \/ (u = t /\ k = n /\ r < s))
  BY <1>2, IdOrder
<1> QED
  BY <1>1, <1>3, <1>4

IdTypeOK ==
    /\ lessee \in [Number -> Replica \cup {NoReplica}]
    /\ genAt \in [Replica -> GenPlace]
    /\ trying \in [Replica -> Number] /\ instance \in [Replica -> Number]
    /\ lastMs \in [Replica -> Nat] /\ seq \in [Replica -> 0..MaxSeq]
    /\ ms \in Nat \ {0} /\ behind \in [Replica -> {0, 1}]
    /\ lastUse \in [Number -> Nat] /\ taken \in [Replica -> Nat]
    /\ count \in Nat
    /\ \A j \in made : /\ j.ms \in Nat /\ j.instance \in Number /\ j.seq \in 0..MaxSeq
                       /\ j.by \in Replica /\ j.nth \in 1..count

\* A replica that did not lose its key has it in Redis.
HoldsItsKey == \A g \in Replica : HasNumber(g) /\ g \notin keyLost => lessee[instance[g]] = g

\* What others made soundly with the number of a replica that has its key is
\* from before it took the number.
OthersAreOlder ==
    /\ \A j \in made : j.ms <= lastUse[j.instance]
    /\ \A g \in Replica : HasNumber(g) /\ g \notin keyLost =>
         \A j \in made : j.sound /\ j.instance = instance[g] /\ j.by # g => j.ms <= taken[g]

\* lastMs and seq are past every id the replica made.
GeneratorIsAhead ==
    \A j \in made : /\ j.ms <= lastMs[j.by]
                    /\ j.ms = lastMs[j.by] => j.seq <= seq[j.by]

IdInv == /\ IdTypeOK /\ HoldsItsKey /\ OthersAreOlder /\ GeneratorIsAhead
         /\ IdsAreUnique /\ IdsGrow

\* At first there is neither a lease nor an id.
LEMMA IdInitInv == IdInit => IdInv
BY IdAssumption DEF IdInit, IdInv, IdTypeOK, HoldsItsKey, OthersAreOlder, GeneratorIsAhead,
                    IdsAreUnique, IdsGrow, HasNumber, Number, GenPlace

\* The steps of the keeper, of the clock and of Redis make no id.
LEMMA KeeperStepInv ==
    ASSUME IdInv,
           \/ TimePasses \/ IdQuiet \/ UNCHANGED idVars
           \/ \E n \in Number : KeyRunsOut(n)
           \/ \E g \in Replica :
                \/ LeaseNumber(g) \/ LeaseNumberError(g) \/ RenewFails(g) \/ Retake(g)
                \/ RetakeError(g) \/ Close(g) \/ Release(g) \/ ReleaseError(g)
                \/ ClockGoesBack(g)
    PROVE  IdInv'
<1>n. 0 \in Number /\ \A n \in Number : n < MaxInstance => n + 1 \in Number
  BY IdAssumption DEF Number
<1> USE IdAssumption DEF IdInv, IdTypeOK, HoldsItsKey, OthersAreOlder, GeneratorIsAhead,
            HasNumber, GenPlace, genVars, KeeperAt, IdFault
<1>0. /\ made' = made /\ count' = count
      /\ lastMs' = lastMs /\ seq' = seq /\ lastUse' = lastUse
  BY DEF TimePasses, IdQuiet, idVars, KeyRunsOut, LeaseNumber, LeaseNumberError, RenewFails,
         Retake, RetakeError, Close, Release, ReleaseError, ClockGoesBack
<1>1. IdsAreUnique' /\ IdsGrow'
  BY <1>0 DEF IdsAreUnique, IdsGrow
<1>2. CASE TimePasses
  BY <1>0, <1>1, <1>2 DEF TimePasses
<1>3. CASE IdQuiet \/ UNCHANGED idVars
  BY <1>1, <1>3 DEF IdQuiet, idVars
<1>4. ASSUME NEW n \in Number, KeyRunsOut(n) PROVE IdInv'
  BY <1>1, <1>4 DEF KeyRunsOut
<1>5. ASSUME NEW g \in Replica, LeaseNumber(g) PROVE IdInv'
  <2>1. CASE lessee[trying[g]] = NoReplica
    <3>1. /\ Takes(g, trying[g]) /\ KeeperAt(g, "kept")
          /\ instance' = [instance EXCEPT ![g] = trying[g]]
          /\ trying' = [trying EXCEPT ![g] = 0]
          /\ ms' = ms /\ behind' = behind
      BY <1>5, <2>1 DEF LeaseNumber
    <3>2. IdTypeOK'
      BY <1>0, <1>n, <3>1 DEF Takes
    <3>3. HoldsItsKey'
      BY <2>1, <3>1 DEF Takes
    <3>4. OthersAreOlder'
      BY <1>0, <3>1 DEF Takes
    <3>5. GeneratorIsAhead'
      BY <1>0
    <3> QED
      BY <1>1, <3>2, <3>3, <3>4, <3>5
  <2>2. CASE lessee[trying[g]] # NoReplica
    <3>1. /\ UNCHANGED <<lessee, keyLost, taken, instance, ms, behind>>
          /\ trying' \in [Replica -> Number]
      <4>1. trying' \in {[trying EXCEPT ![g] = @ + 1], [trying EXCEPT ![g] = 0]}
        BY <1>5, <2>2 DEF LeaseNumber
      <4>2. trying[g] < MaxInstance \/ trying' = [trying EXCEPT ![g] = 0]
        BY <1>5, <2>2 DEF LeaseNumber
      <4>3. trying' \in [Replica -> Number]
        BY <1>n, <4>1, <4>2
      <4> QED
        BY <1>5, <2>2, <4>3 DEF LeaseNumber
    <3>2. genAt' \in [Replica -> GenPlace] /\ \A h \in Replica : HasNumber(h)' => HasNumber(h)
      BY <1>5, <2>2 DEF LeaseNumber, Leasing
    <3> QED
      BY <1>0, <1>1, <3>1, <3>2
  <2> QED
    BY <2>1, <2>2
<1>6. ASSUME NEW g \in Replica, LeaseNumberError(g) \/ RetakeError(g) PROVE IdInv'
  <2>1. /\ UNCHANGED <<keyLost, taken, instance, ms, behind>>
        /\ trying' \in [Replica -> Number]
    <3>1. CASE LeaseNumberError(g)
      BY <1>n, <3>1 DEF LeaseNumberError
    <3>2. CASE RetakeError(g)
      BY <3>2 DEF RetakeError
    <3> QED
      BY <1>6, <3>1, <3>2
  <2>2. genAt' \in [Replica -> GenPlace] /\ \A h \in Replica : HasNumber(h)' => HasNumber(h)
    BY <1>6 DEF LeaseNumberError, RetakeError, Leasing
  <2>3. /\ lessee' \in [Number -> Replica \cup {NoReplica}]
        /\ \A n \in Number : lessee[n] # NoReplica => lessee'[n] = lessee[n]
    <3>1. CASE LeaseNumberError(g)
      BY <3>1 DEF LeaseNumberError
    <3>2. CASE RetakeError(g)
      BY <3>2 DEF RetakeError
    <3> QED
      BY <1>6, <3>1, <3>2
  <2>4. IdTypeOK' /\ GeneratorIsAhead'
    BY <1>0, <2>1, <2>2, <2>3
  <2>5. HoldsItsKey'
    BY <2>1, <2>2, <2>3
  <2>6. OthersAreOlder'
    BY <1>0, <2>1, <2>2
  <2> QED
    BY <1>1, <2>4, <2>5, <2>6
<1>7. ASSUME NEW g \in Replica, RenewFails(g) \/ Close(g) \/ ReleaseError(g) PROVE IdInv'
  BY <1>1, <1>7 DEF RenewFails, Close, ReleaseError
<1>8. ASSUME NEW g \in Replica, Retake(g) PROVE IdInv'
  <2>1. CASE lessee[instance[g]] = NoReplica
    <3>1. IdTypeOK' /\ GeneratorIsAhead'
      BY <1>0, <1>8, <2>1 DEF Retake, Takes
    <3>2. HoldsItsKey'
      BY <1>8, <2>1 DEF Retake, Takes
    <3>3. OthersAreOlder'
      BY <1>0, <1>8, <2>1 DEF Retake, Takes
    <3> QED
      BY <1>1, <3>1, <3>2, <3>3
  <2>2. CASE lessee[instance[g]] # NoReplica
    BY <1>0, <1>1, <1>8, <2>2 DEF Retake
  <2> QED
    BY <2>1, <2>2
<1>9. ASSUME NEW g \in Replica, Release(g) PROVE IdInv'
  BY <1>1, <1>9 DEF Release
<1>10. ASSUME NEW g \in Replica, ClockGoesBack(g) PROVE IdInv'
  BY <1>1, <1>10 DEF ClockGoesBack
<1> QED
  BY <1>2, <1>3, <1>4, <1>5, <1>6, <1>7, <1>8, <1>9, <1>10

\* Next: the id made is the largest the replica made, but for a smaller
\* instance in the same millisecond, it is none of its earlier ones, and no
\* sound id of another replica has its fields.
LEMMA NextIdInv ==
    ASSUME IdInv, NEW g \in Replica, NextId(g)
    PROVE  IdInv'
<1>0. IdTypeOK /\ HoldsItsKey /\ OthersAreOlder /\ GeneratorIsAhead /\ IdsAreUnique /\ IdsGrow
  BY DEF IdInv
<1>1. PICK t \in Nat, s \in 0..MaxSeq :
        /\ Makes(g, t, s)
        /\ t > lastMs[g] \/ (t = lastMs[g] /\ s = seq[g] + 1)
  <2> DEFINE now == ms - behind[g]
  <2>1. now \in Nat /\ lastMs[g] \in Nat /\ seq[g] \in 0..MaxSeq
    BY <1>0 DEF IdTypeOK
  <2>2. CASE now > lastMs[g] /\ Makes(g, now, 0)
    BY <2>1, <2>2, IdAssumption
  <2>3. CASE now <= lastMs[g] /\ seq[g] < MaxSeq /\ Makes(g, lastMs[g], seq[g] + 1)
    BY <2>1, <2>3, IdAssumption
  <2> QED
    BY <2>2, <2>3 DEF NextId
<1> DEFINE new == [ms |-> t, instance |-> instance[g], seq |-> s, by |-> g, nth |-> count + 1,
                   sound |-> g \notin keyLost /\ t > taken[g]]
<1>2. made' = made \cup {new} /\ count' = count + 1
  BY <1>1 DEF Makes
<1>3. /\ new.ms = t /\ new.instance = instance[g] /\ new.seq = s /\ new.by = g
      /\ new.nth = count + 1
      /\ instance[g] \in Number
  BY <1>0 DEF IdTypeOK
<1>4. new.sound => g \notin keyLost /\ t > taken[g]
  OBVIOUS
<1> HIDE DEF new
<1>5. UNCHANGED <<lessee, genAt, trying, instance, ms, behind, keyLost, taken>> /\ HasNumber(g)
  BY <1>1 DEF Makes, NextId
<1>6. /\ lastMs' = [lastMs EXCEPT ![g] = t] /\ seq' = [seq EXCEPT ![g] = s]
      /\ lastUse' = [lastUse EXCEPT ![instance[g]] = IF t > @ THEN t ELSE @]
  BY <1>1 DEF Makes
<1>7. IdTypeOK'
  <2>1. lastMs' \in [Replica -> Nat] /\ seq' \in [Replica -> 0..MaxSeq]
    BY <1>0, <1>6 DEF IdTypeOK
  <2>2. lastUse' \in [Number -> Nat]
    BY <1>0, <1>3, <1>6 DEF IdTypeOK
  <2>3. count \in Nat /\ \A j \in made' : j.nth \in 1..count'
    BY <1>0, <1>2, <1>3 DEF IdTypeOK
  <2> QED
    BY <1>0, <1>2, <1>3, <1>5, <2>1, <2>2, <2>3 DEF IdTypeOK
<1>8. HoldsItsKey'
  BY <1>0, <1>5 DEF HoldsItsKey, HasNumber
<1>9. OthersAreOlder'
  <2>1. \A j \in made' : j.ms <= lastUse'[j.instance]
    BY <1>0, <1>2, <1>3, <1>6 DEF OthersAreOlder, IdTypeOK
  <2>2. ASSUME NEW h \in Replica, HasNumber(h), h \notin keyLost, new.sound,
               new.instance = instance[h]
        PROVE  h = g
    BY <1>0, <1>3, <1>4, <1>5, <2>2 DEF HoldsItsKey
  <2> QED
    BY <1>0, <1>2, <1>3, <1>5, <2>1, <2>2 DEF OthersAreOlder, HasNumber
<1>10. GeneratorIsAhead'
  <2> SUFFICES ASSUME NEW j \in made'
               PROVE  j.ms <= lastMs'[j.by] /\ (j.ms = lastMs'[j.by] => j.seq <= seq'[j.by])
    BY DEF GeneratorIsAhead
  <2>1. CASE j = new
    BY <1>0, <1>3, <1>6, <2>1 DEF IdTypeOK
  <2>2. CASE j \in made
    BY <1>0, <1>1, <1>6, <2>2 DEF IdTypeOK, GeneratorIsAhead
  <2> QED
    BY <1>2, <2>1, <2>2
<1>11. ASSUME NEW j \in made, j.by = g
       PROVE  \/ Id(t, instance[g], s) > Id(j.ms, j.instance, j.seq)
              \/ t = j.ms /\ instance[g] < j.instance
  <2>1. /\ j.ms \in Nat /\ j.instance \in Number /\ j.seq \in 0..MaxSeq
        /\ lastMs[g] \in Nat /\ seq[g] \in 0..MaxSeq
    BY <1>0, <1>11 DEF IdTypeOK
  <2>2. j.ms <= lastMs[g] /\ (j.ms = lastMs[g] => j.seq <= seq[g])
    BY <1>0, <1>11 DEF GeneratorIsAhead
  <2>3. \/ j.ms < t
        \/ j.ms = t /\ j.instance < instance[g]
        \/ j.ms = t /\ j.instance = instance[g] /\ j.seq < s
        \/ t = j.ms /\ instance[g] < j.instance
    BY <1>1, <1>3, <2>1, <2>2 DEF Number
  <2>4. Id(t, instance[g], s) \in Int /\ Id(j.ms, j.instance, j.seq) \in Int
    BY <1>3, <2>1, IdAssumption DEF Id, Number
  <2>5. (\/ j.ms < t
         \/ j.ms = t /\ j.instance < instance[g]
         \/ j.ms = t /\ j.instance = instance[g] /\ j.seq < s)
        => Id(j.ms, j.instance, j.seq) < Id(t, instance[g], s)
    BY <1>3, <2>1, IdOrder
  <2> QED
    BY <2>3, <2>4, <2>5
<1>12. Value(new) = Id(t, instance[g], s) /\ \A j \in made : Value(j) = Id(j.ms, j.instance, j.seq)
  BY <1>3 DEF Value
<1>13. IdsGrow'
  <2>1. \A j \in made : j.nth < new.nth /\ ~(new.nth < j.nth)
    BY <1>0, <1>3 DEF IdTypeOK
  <2>2. ~(new.nth < new.nth)
    BY <1>0, <1>3 DEF IdTypeOK
  <2>3. \A j \in made : new.by = j.by =>
          Value(new) > Value(j) \/ (new.ms = j.ms /\ new.instance < j.instance)
    BY <1>3, <1>11, <1>12
  <2> QED
    BY <1>0, <1>2, <2>1, <2>2, <2>3 DEF IdsGrow
<1>14. IdsAreUnique'
  <2>1. ASSUME NEW j \in made, Value(new) = Value(j)
        PROVE  j.ms = t /\ j.instance = instance[g]
    <3>1. j.ms \in Nat /\ j.instance \in Number /\ j.seq \in 0..MaxSeq /\ instance[g] \in Number
      BY <1>0, <1>3 DEF IdTypeOK
    <3>2. Id(t, instance[g], s) = Id(j.ms, j.instance, j.seq)
      BY <1>12, <2>1
    <3> QED
      BY <3>1, <3>2, IdInjective
  <2>2. ASSUME NEW j \in made, Value(new) = Value(j), j.by = g PROVE FALSE
    <3>1. Id(t, instance[g], s) \in Int /\ instance[g] \in Int
      BY <1>3, IdAssumption DEF Id, Number
    <3> QED
      BY <1>11, <1>12, <2>1, <2>2, <3>1
  <2>3. ASSUME NEW j \in made, Value(new) = Value(j), j.sound, new.sound PROVE j.by = g
    BY <1>0, <1>4, <1>5, <2>1, <2>3 DEF OthersAreOlder, IdTypeOK
  <2>4. \A j \in made : new.by = j.by \/ (new.sound /\ j.sound) => Value(new) # Value(j)
    BY <1>3, <2>2, <2>3
  <2> QED
    BY <1>0, <1>2, <2>4 DEF IdsAreUnique
<1> QED
  BY <1>7, <1>8, <1>9, <1>10, <1>13, <1>14 DEF IdInv

\* Every step of the generators, of Redis and of the clocks.
LEMMA IdStepInv == IdInv /\ [IdNext]_idVars => IdInv'
BY KeeperStepInv, NextIdInv DEF IdNext

\* For any number of replicas and numbers, any clocks and any failures: no
\* replica makes an id twice, and two sound ids of different replicas differ.
THEOREM UniqueIds == IdSpec => []IdsAreUnique
<1>1. IdInv => IdsAreUnique
  BY DEF IdInv
<1> QED
  BY IdInitInv, IdStepInv, <1>1, PTL DEF IdSpec

\* Each id is greater than every earlier one of its replica, but for a move
\* to a smaller number within the millisecond.
THEOREM GrowingIds == IdSpec => []IdsGrow
<1>1. IdInv => IdsGrow
  BY DEF IdInv
<1> QED
  BY IdInitInv, IdStepInv, <1>1, PTL DEF IdSpec

-----------------------------------------------------------------------------
(* The cache. *)

CacheTypeOK ==
    /\ row \in Nat /\ settled \in Nat /\ entry \in Int /\ put \in [Writer -> Nat]
    /\ flight \in [Process -> Reader \cup {NoReader}]
    /\ getAt \in [Reader -> GetPlace]
    /\ val \in [Reader -> Int] /\ answer \in [Reader -> Int] /\ floor \in [Reader -> Nat]
    /\ leader \in [Reader -> Reader \cup {NoReader}]
    /\ landed \in [Reader -> Reader \cup {NoReader}]

Flying(r) == getAt[r] \in {"load", "loaded", "done", "panicked"}

\* The map of a process holds its one load under way, or the one that
\* panicked, and nothing else.
FlightInv ==
    /\ \A r \in Reader : Flying(r) => flight[Home[r]] = r
    /\ \A p \in Process : flight[p] # NoReader => Home[flight[p]] = p /\ Flying(flight[p])
    /\ \A r \in Reader : getAt[r] = "done" => r \in released
    /\ \A r \in Reader : getAt[r] = "wait" =>
         /\ leader[r] \in Reader
         /\ leader[r] \in released \/ getAt[leader[r]] \in {"load", "loaded", "panicked"}

\* No version is ahead of the row, and an entry that was not put back late
\* is not behind a Del or a Set that succeeded.
RowInv ==
    /\ settled <= row /\ \A w \in Writer : put[w] <= row
    /\ entry >= 0 /\ ~stale => entry >= settled
    /\ \A r \in Reader : floor[r] <= settled

\* What l loaded, if it did, is not older than the Get of r may see.
FreshFor(l, r) == val[l] = Failed \/ val[l] >= floor[r]

\* Before it loads a reader has no value; what it loads itself is fresh, and
\* so is the load it is about to join or waits for, unless that one had read
\* the row when the reader came.
LoadInv ==
    /\ \A r \in Reader :
         getAt[r] \in {"start", "plain", "fly", "wait", "load", "panicked"} => val[r] = Failed
    /\ \A r \in Reader : FreshFor(r, r)
    /\ \A r \in Reader :
         getAt[r] = "fly" /\ flight[Home[r]] \notin {NoReader, landed[r]} => FreshFor(flight[Home[r]], r)
    /\ \A r \in Reader : getAt[r] = "wait" /\ leader[r] # landed[r] => FreshFor(leader[r], r)

CacheInv == CacheTypeOK /\ FlightInv /\ RowInv /\ LoadInv /\ CacheReadsAreFresh

\* Nothing is read, loaded or written yet.
LEMMA CacheInitInv == CacheInit => CacheInv
<1> SUFFICES ASSUME CacheInit PROVE CacheInv
  OBVIOUS
<1>1. entry \in Int /\ entry < 0
  BY DEF CacheInit, NoEntry, Garbled
<1> QED
  BY <1>1, CacheAssumption
     DEF CacheInit, CacheInv, CacheTypeOK, FlightInv, RowInv, LoadInv, CacheReadsAreFresh,
         Flying, FreshFor, GetPlace, Failed

\* The types, step by step.
LEMMA CacheTypeStep == CacheTypeOK /\ FlightInv /\ [CacheNext]_cacheVars => CacheTypeOK'
<1> SUFFICES ASSUME CacheTypeOK, FlightInv, [CacheNext]_cacheVars PROVE CacheTypeOK'
  OBVIOUS
<1> USE CacheAssumption DEF CacheTypeOK, GetPlace, Failed, NoEntry, Version
<1>1. CASE EntryExpires
  BY <1>1 DEF EntryExpires, readerVars, writerVars
<1>2. CASE CacheQuiet \/ UNCHANGED cacheVars
  BY <1>2 DEF CacheQuiet, cacheVars, readerVars, writerVars
<1>3. ASSUME NEW r \in Reader, CacheHit(r) PROVE CacheTypeOK'
  BY <1>3 DEF CacheHit, writerVars, Begin, Answered
<1>4. ASSUME NEW r \in Reader, CacheMiss(r) PROVE CacheTypeOK'
  BY <1>4 DEF CacheMiss, writerVars, Begin
<1>5. ASSUME NEW r \in Reader, CacheGetError(r) PROVE CacheTypeOK'
  BY <1>5 DEF CacheGetError, writerVars, Begin, CacheFault
<1>6. ASSUME NEW r \in Reader, PlainLoad(r) PROVE CacheTypeOK'
  BY <1>6 DEF PlainLoad, writerVars, Answered
<1>7. ASSUME NEW r \in Reader, Fly(r) PROVE CacheTypeOK'
  BY <1>7 DEF Fly, writerVars
<1>8. ASSUME NEW r \in Reader, Load(r) PROVE CacheTypeOK'
  BY <1>8 DEF Load, writerVars
<1>9. ASSUME NEW r \in Reader, LoadError(r) PROVE CacheTypeOK'
  BY <1>9 DEF LoadError, writerVars, CacheFault
<1>10. ASSUME NEW r \in Reader, LoadPanic(r) PROVE CacheTypeOK'
  BY <1>10 DEF LoadPanic, writerVars, CacheFault
<1>11. ASSUME NEW r \in Reader, Done(r) PROVE CacheTypeOK'
  BY <1>11 DEF Done, writerVars
<1>12. ASSUME NEW r \in Reader, Land(r) PROVE CacheTypeOK'
  BY <1>12 DEF Land, writerVars, Answered
<1>13. ASSUME NEW r \in Reader, Store(r) PROVE CacheTypeOK'
  BY <1>13 DEF Store, writerVars, Answered
<1>14. ASSUME NEW r \in Reader, StoreError(r) PROVE CacheTypeOK'
  BY <1>14 DEF StoreError, writerVars, Answered, CacheFault
<1>15. ASSUME NEW r \in Reader, Waited(r) PROVE CacheTypeOK'
  BY <1>15 DEF Waited, writerVars, Answered, FlightInv
<1>16. ASSUME NEW w \in Writer, Commit(w) PROVE CacheTypeOK'
  BY <1>16 DEF Commit, readerVars
<1>17. ASSUME NEW w \in Writer, Del(w) PROVE CacheTypeOK'
  BY <1>17 DEF Del, Invalidated, readerVars
<1>18. ASSUME NEW w \in Writer, Set(w) PROVE CacheTypeOK'
  BY <1>18 DEF Set, Invalidated, readerVars
<1>19. ASSUME NEW w \in Writer, InvalidateError(w) PROVE CacheTypeOK'
  BY <1>19 DEF InvalidateError, readerVars, CacheFault
<1> QED
  BY <1>1, <1>2, <1>3, <1>4, <1>5, <1>6, <1>7, <1>8, <1>9, <1>10, <1>11, <1>12, <1>13, <1>14,
     <1>15, <1>16, <1>17, <1>18, <1>19 DEF CacheNext

\* The single flight: who loads, who waits and for whom.
LEMMA FlightStep == CacheTypeOK /\ FlightInv /\ [CacheNext]_cacheVars => FlightInv'
<1> SUFFICES ASSUME CacheTypeOK, FlightInv, [CacheNext]_cacheVars PROVE FlightInv'
  OBVIOUS
<1> USE CacheAssumption DEF CacheTypeOK, GetPlace, FlightInv, Flying
<1>1. CASE EntryExpires
  BY <1>1 DEF EntryExpires, readerVars, writerVars
<1>2. CASE CacheQuiet \/ UNCHANGED cacheVars
  BY <1>2 DEF CacheQuiet, cacheVars, readerVars, writerVars
<1>3. ASSUME NEW r \in Reader, CacheHit(r) PROVE FlightInv'
  BY <1>3 DEF CacheHit, writerVars, Begin, Answered
<1>4. ASSUME NEW r \in Reader, CacheMiss(r) PROVE FlightInv'
  BY <1>4 DEF CacheMiss, writerVars, Begin
<1>5. ASSUME NEW r \in Reader, CacheGetError(r) PROVE FlightInv'
  BY <1>5 DEF CacheGetError, writerVars, Begin, CacheFault
<1>6. ASSUME NEW r \in Reader, PlainLoad(r) PROVE FlightInv'
  BY <1>6 DEF PlainLoad, writerVars, Answered
<1>7. ASSUME NEW r \in Reader, Fly(r) PROVE FlightInv'
  BY <1>7 DEF Fly, writerVars
<1>8. ASSUME NEW r \in Reader, Load(r) PROVE FlightInv'
  BY <1>8 DEF Load, writerVars
<1>9. ASSUME NEW r \in Reader, LoadError(r) PROVE FlightInv'
  BY <1>9 DEF LoadError, writerVars, CacheFault
<1>10. ASSUME NEW r \in Reader, LoadPanic(r) PROVE FlightInv'
  BY <1>10 DEF LoadPanic, writerVars, CacheFault
<1>11. ASSUME NEW r \in Reader, Done(r) PROVE FlightInv'
  BY <1>11 DEF Done, writerVars
<1>12. ASSUME NEW r \in Reader, Land(r) PROVE FlightInv'
  BY <1>12 DEF Land, writerVars, Answered
<1>13. ASSUME NEW r \in Reader, Store(r) PROVE FlightInv'
  BY <1>13 DEF Store, writerVars, Answered
<1>14. ASSUME NEW r \in Reader, StoreError(r) PROVE FlightInv'
  BY <1>14 DEF StoreError, writerVars, Answered, CacheFault
<1>15. ASSUME NEW r \in Reader, Waited(r) PROVE FlightInv'
  BY <1>15 DEF Waited, writerVars, Answered
<1>16. ASSUME NEW w \in Writer, Commit(w) PROVE FlightInv'
  BY <1>16 DEF Commit, readerVars
<1>17. ASSUME NEW w \in Writer, Del(w) PROVE FlightInv'
  BY <1>17 DEF Del, Invalidated, readerVars
<1>18. ASSUME NEW w \in Writer, Set(w) PROVE FlightInv'
  BY <1>18 DEF Set, Invalidated, readerVars
<1>19. ASSUME NEW w \in Writer, InvalidateError(w) PROVE FlightInv'
  BY <1>19 DEF InvalidateError, readerVars, CacheFault
<1> QED
  BY <1>1, <1>2, <1>3, <1>4, <1>5, <1>6, <1>7, <1>8, <1>9, <1>10, <1>11, <1>12, <1>13, <1>14,
     <1>15, <1>16, <1>17, <1>18, <1>19 DEF CacheNext

\* The row, the versions settled and the entry.
LEMMA RowStep == CacheTypeOK /\ RowInv /\ [CacheNext]_cacheVars => RowInv'
<1> SUFFICES ASSUME CacheTypeOK, RowInv, [CacheNext]_cacheVars PROVE RowInv'
  OBVIOUS
<1> USE CacheAssumption DEF CacheTypeOK, RowInv, NoEntry
<1>1. CASE EntryExpires
  BY <1>1 DEF EntryExpires, readerVars, writerVars
<1>2. CASE CacheQuiet \/ UNCHANGED cacheVars
  BY <1>2 DEF CacheQuiet, cacheVars, readerVars, writerVars
<1>3. ASSUME NEW r \in Reader, CacheHit(r) PROVE RowInv'
  BY <1>3 DEF CacheHit, writerVars, Begin, Answered
<1>4. ASSUME NEW r \in Reader, CacheMiss(r) PROVE RowInv'
  BY <1>4 DEF CacheMiss, writerVars, Begin
<1>5. ASSUME NEW r \in Reader, CacheGetError(r) PROVE RowInv'
  BY <1>5 DEF CacheGetError, writerVars, Begin, CacheFault
<1>6. ASSUME NEW r \in Reader, PlainLoad(r) PROVE RowInv'
  BY <1>6 DEF PlainLoad, writerVars, Answered
<1>7. ASSUME NEW r \in Reader, Fly(r) PROVE RowInv'
  BY <1>7 DEF Fly, writerVars
<1>8. ASSUME NEW r \in Reader, Load(r) PROVE RowInv'
  BY <1>8 DEF Load, writerVars
<1>9. ASSUME NEW r \in Reader, LoadError(r) PROVE RowInv'
  BY <1>9 DEF LoadError, writerVars, CacheFault
<1>10. ASSUME NEW r \in Reader, LoadPanic(r) PROVE RowInv'
  BY <1>10 DEF LoadPanic, writerVars, CacheFault
<1>11. ASSUME NEW r \in Reader, Done(r) PROVE RowInv'
  BY <1>11 DEF Done, writerVars
<1>12. ASSUME NEW r \in Reader, Land(r) PROVE RowInv'
  BY <1>12 DEF Land, writerVars, Answered
<1>13. ASSUME NEW r \in Reader, Store(r) PROVE RowInv'
  <2>1. entry' = val[r] /\ (~stale' => ~(val[r] < row))
    BY <1>13, Zenon DEF Store
  <2> QED
    BY <1>13, <2>1 DEF Store, writerVars
<1>14. ASSUME NEW r \in Reader, StoreError(r) PROVE RowInv'
  BY <1>14 DEF StoreError, writerVars, Answered, CacheFault
<1>15. ASSUME NEW r \in Reader, Waited(r) PROVE RowInv'
  BY <1>15 DEF Waited, writerVars, Answered
<1>16. ASSUME NEW w \in Writer, Commit(w) PROVE RowInv'
  BY <1>16 DEF Commit, readerVars
<1>17. ASSUME NEW w \in Writer, Del(w) PROVE RowInv'
  BY <1>17 DEF Del, Invalidated, readerVars
<1>18. ASSUME NEW w \in Writer, Set(w) PROVE RowInv'
  <2>1. entry' = put[w] /\ (~stale' => ~(put[w] < row))
    BY <1>18, Zenon DEF Set
  <2> QED
    BY <1>18, <2>1 DEF Set, Invalidated, readerVars
<1>19. ASSUME NEW w \in Writer, InvalidateError(w) PROVE RowInv'
  BY <1>19 DEF InvalidateError, readerVars, CacheFault
<1> QED
  BY <1>1, <1>2, <1>3, <1>4, <1>5, <1>6, <1>7, <1>8, <1>9, <1>10, <1>11, <1>12, <1>13, <1>14,
     <1>15, <1>16, <1>17, <1>18, <1>19 DEF CacheNext

\* The loads and what they are worth to those who share them.
LEMMA LoadStep ==
    CacheTypeOK /\ FlightInv /\ RowInv /\ LoadInv /\ [CacheNext]_cacheVars => LoadInv'
<1> SUFFICES ASSUME CacheTypeOK, FlightInv, RowInv, LoadInv, [CacheNext]_cacheVars
             PROVE  LoadInv'
  OBVIOUS
<1> USE CacheAssumption DEF CacheTypeOK, GetPlace, FlightInv, Flying, RowInv, LoadInv, FreshFor
<1>1. CASE EntryExpires
  BY <1>1 DEF EntryExpires, readerVars, writerVars
<1>2. CASE CacheQuiet \/ UNCHANGED cacheVars
  BY <1>2 DEF CacheQuiet, cacheVars, readerVars, writerVars
<1>3. ASSUME NEW r \in Reader, CacheHit(r) PROVE LoadInv'
  BY <1>3 DEF CacheHit, writerVars, Begin, Answered
<1>4. ASSUME NEW r \in Reader, CacheMiss(r) PROVE LoadInv'
  BY <1>4 DEF CacheMiss, writerVars, Begin
<1>5. ASSUME NEW r \in Reader, CacheGetError(r) PROVE LoadInv'
  BY <1>5 DEF CacheGetError, writerVars, Begin, CacheFault
<1>6. ASSUME NEW r \in Reader, PlainLoad(r) PROVE LoadInv'
  BY <1>6 DEF PlainLoad, writerVars, Answered
<1>7. ASSUME NEW r \in Reader, Fly(r) PROVE LoadInv'
  BY <1>7 DEF Fly, writerVars
<1>8. ASSUME NEW r \in Reader, Load(r) PROVE LoadInv'
  BY <1>8 DEF Load, writerVars
<1>9. ASSUME NEW r \in Reader, LoadError(r) PROVE LoadInv'
  BY <1>9 DEF LoadError, writerVars, CacheFault
<1>10. ASSUME NEW r \in Reader, LoadPanic(r) PROVE LoadInv'
  BY <1>10 DEF LoadPanic, writerVars, CacheFault
<1>11. ASSUME NEW r \in Reader, Done(r) PROVE LoadInv'
  BY <1>11 DEF Done, writerVars
<1>12. ASSUME NEW r \in Reader, Land(r) PROVE LoadInv'
  BY <1>12 DEF Land, writerVars, Answered
<1>13. ASSUME NEW r \in Reader, Store(r) PROVE LoadInv'
  BY <1>13 DEF Store, writerVars, Answered
<1>14. ASSUME NEW r \in Reader, StoreError(r) PROVE LoadInv'
  BY <1>14 DEF StoreError, writerVars, Answered, CacheFault
<1>15. ASSUME NEW r \in Reader, Waited(r) PROVE LoadInv'
  BY <1>15 DEF Waited, writerVars, Answered
<1>16. ASSUME NEW w \in Writer, Commit(w) PROVE LoadInv'
  BY <1>16 DEF Commit, readerVars
<1>17. ASSUME NEW w \in Writer, Del(w) PROVE LoadInv'
  BY <1>17 DEF Del, Invalidated, readerVars
<1>18. ASSUME NEW w \in Writer, Set(w) PROVE LoadInv'
  BY <1>18 DEF Set, Invalidated, readerVars
<1>19. ASSUME NEW w \in Writer, InvalidateError(w) PROVE LoadInv'
  BY <1>19 DEF InvalidateError, readerVars, CacheFault
<1> QED
  BY <1>1, <1>2, <1>3, <1>4, <1>5, <1>6, <1>7, <1>8, <1>9, <1>10, <1>11, <1>12, <1>13, <1>14,
     <1>15, <1>16, <1>17, <1>18, <1>19 DEF CacheNext

\* The answers.
LEMMA FreshStep == CacheInv /\ [CacheNext]_cacheVars => CacheReadsAreFresh'
<1> SUFFICES ASSUME CacheInv, [CacheNext]_cacheVars PROVE CacheReadsAreFresh'
  OBVIOUS
<1> USE CacheAssumption
        DEF CacheInv, CacheTypeOK, GetPlace, FlightInv, RowInv, LoadInv, FreshFor,
            CacheReadsAreFresh, Version
<1>1. CASE EntryExpires
  BY <1>1 DEF EntryExpires, readerVars, writerVars
<1>2. CASE CacheQuiet \/ UNCHANGED cacheVars
  BY <1>2 DEF CacheQuiet, cacheVars, readerVars, writerVars
<1>3. ASSUME NEW r \in Reader, CacheHit(r) PROVE CacheReadsAreFresh'
  BY <1>3 DEF CacheHit, writerVars, Begin, Answered
<1>4. ASSUME NEW r \in Reader, CacheMiss(r) PROVE CacheReadsAreFresh'
  BY <1>4 DEF CacheMiss, writerVars, Begin
<1>5. ASSUME NEW r \in Reader, CacheGetError(r) PROVE CacheReadsAreFresh'
  BY <1>5 DEF CacheGetError, writerVars, Begin, CacheFault
<1>6. ASSUME NEW r \in Reader, PlainLoad(r) PROVE CacheReadsAreFresh'
  BY <1>6 DEF PlainLoad, writerVars, Answered
<1>7. ASSUME NEW r \in Reader, Fly(r) PROVE CacheReadsAreFresh'
  BY <1>7 DEF Fly, writerVars
<1>8. ASSUME NEW r \in Reader, Load(r) PROVE CacheReadsAreFresh'
  BY <1>8 DEF Load, writerVars
<1>9. ASSUME NEW r \in Reader, LoadError(r) PROVE CacheReadsAreFresh'
  BY <1>9 DEF LoadError, writerVars, CacheFault
<1>10. ASSUME NEW r \in Reader, LoadPanic(r) PROVE CacheReadsAreFresh'
  BY <1>10 DEF LoadPanic, writerVars, CacheFault
<1>11. ASSUME NEW r \in Reader, Done(r) PROVE CacheReadsAreFresh'
  BY <1>11 DEF Done, writerVars
<1>12. ASSUME NEW r \in Reader, Land(r) PROVE CacheReadsAreFresh'
  BY <1>12 DEF Land, writerVars, Answered
<1>13. ASSUME NEW r \in Reader, Store(r) PROVE CacheReadsAreFresh'
  BY <1>13 DEF Store, writerVars, Answered
<1>14. ASSUME NEW r \in Reader, StoreError(r) PROVE CacheReadsAreFresh'
  BY <1>14 DEF StoreError, writerVars, Answered, CacheFault
<1>15. ASSUME NEW r \in Reader, Waited(r) PROVE CacheReadsAreFresh'
  BY <1>15 DEF Waited, writerVars, Answered
<1>16. ASSUME NEW w \in Writer, Commit(w) PROVE CacheReadsAreFresh'
  BY <1>16 DEF Commit, readerVars
<1>17. ASSUME NEW w \in Writer, Del(w) PROVE CacheReadsAreFresh'
  BY <1>17 DEF Del, Invalidated, readerVars
<1>18. ASSUME NEW w \in Writer, Set(w) PROVE CacheReadsAreFresh'
  BY <1>18 DEF Set, Invalidated, readerVars
<1>19. ASSUME NEW w \in Writer, InvalidateError(w) PROVE CacheReadsAreFresh'
  BY <1>19 DEF InvalidateError, readerVars, CacheFault
<1> QED
  BY <1>1, <1>2, <1>3, <1>4, <1>5, <1>6, <1>7, <1>8, <1>9, <1>10, <1>11, <1>12, <1>13, <1>14,
     <1>15, <1>16, <1>17, <1>18, <1>19 DEF CacheNext

\* Every step of the readers, the writers and Redis.
LEMMA CacheStepInv == CacheInv /\ [CacheNext]_cacheVars => CacheInv'
BY CacheTypeStep, FlightStep, RowStep, LoadStep, FreshStep DEF CacheInv

\* For any number of readers, processes and writers: a Get is not answered
\* with less than was settled when it began, but for the three races.
THEOREM FreshReads == CacheSpec => []CacheReadsAreFresh
<1>1. CacheInv => CacheReadsAreFresh
  BY DEF CacheInv
<1> QED
  BY CacheInitInv, CacheStepInv, <1>1, PTL DEF CacheSpec

\* One load of a process at a time, and no reader waits for a load that is
\* over without having been released.
THEOREM WaitersServed == CacheSpec => []CacheWaitersAreServed
<1>1. CacheInv => CacheWaitersAreServed
  BY DEF CacheInv, FlightInv, CacheWaitersAreServed, Loading, Flying
<1> QED
  BY CacheInitInv, CacheStepInv, <1>1, PTL DEF CacheSpec
=============================================================================
