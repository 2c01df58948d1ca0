# TLA+ verification of devkit-common

devkit-common is a Go library that gives a service its framework: RPC (`kitexx`), HTTP gateway (`hertzx`), events (`kafkax`), delayed tasks (`delayx`), sessions (`authx`), Redis helpers (`redisx`), configuration and discovery (`nacosx`) and a dozen smaller packages. Most of what can go wrong in it goes wrong *between* processes: replicas of a service share a Redis, a MySQL and a Kafka, and the library's guarantees ("only one holder", "at least once", "one live session") are kept by sequences of single round trips to them, any of which may fail, be late, or be the last thing a process did. That is what is modelled here. Paths below are relative to the repository.

## 1. Inventory

| Part | State it keeps | Operations | What is hard |
|---|---|---|---|
| `redisx/lock.go` | a key with a random token and a ttl; a keeper goroutine per holder | SetNX loop, extend, release, wait, cancel | extensions that fail or hang, a crash, a panic, a late release |
| `redisx/cache.go` | cache keys, a map of loads in flight per process | Get, Set, Del | Del racing a load, writers overtaking each other, joining a load that began earlier, a load that panics |
| `delayx/delay.go` | table `delayed_task`, the runs of this process, the pool for long kinds | Schedule, Cancel, Abort, claim, heartbeat, outcome, Stop | a slow or dead replica, an abort from elsewhere, stop between claim and track, a handler that outlives the ctx of its outcome |
| `authx/authx.go` | session, refresh, used, current and blacklist keys of a principal | Login, Refresh, Logout, RevokeAll, Verify | every operation is several round trips without a transaction |
| `kitexx/idempotency.go` | one key per request id: pending, or the kept result | claim, read, drop, keep | a retry while the first call runs, lost answers, results that cannot be kept |
| `kafkax/outbox.go` | table `outbox`, a relay per replica | PublishTx, relay round, backoff, cleanup, start, stop | rollback after produce, replicas side by side |
| `kafkax/kafkax.go`, `dlq.go` | group offset, dedupe keys, `<topic>.dlq`, the tool group's position | poll, process, park, commit, Close; replay, drop | redelivery, eviction, death in the handler, stop during a failure, a key that runs out |
| `nacosx/config.go`, `value.go` | a watch per data id (last content, subscribers, lock), a Value per Watch (version, lock) | follow, unfollow, push, file poll, Watch, load | overtaking pushes, two locks held across calls |
| `nacosx/naming.go` | per service: the last list, the subscribers, the subscription | Instances, Lookup, Subscribe, observe | a look-up overtaken by a push, which of the two is first |
| `nacosx/services.go` | the services subscribed to, their instances, whether the first overview is out | rounds, update, records | records out of order, a subscription that fails in a round |
| `idx` | leased instance number, last millisecond, sequence | Next, lease, keep, Close | a lease lost while ids are made, the clock going back |
| `jobx`, `webhookx` | a lock key; a dedupe key | Execute; serve | a lock without a token, a duplicate during the first delivery |
| `kitexx/runtime.go`, `kitexx.go`, `shutdown.go`, `hertzx/hertzx.go`, `migrate.go` | open resources, hooks, tables | open, run, drain, hooks; migrations | order of opening and closing, several replicas migrating |
| `hertzx` guard, permissions, client address, audit; `kitexx` identity, callers, limits; `devroute`; `moneyx`, `pagex`, `config/takeover.go`, `zlog/sampling.go`, `httpx` | counters, or none | decisions and arithmetic | boundaries |
| everything else (`zlog`, `otelx`, `metricsx`, drivers, `cmd`, `testx`, examples) | none that a property is about | I/O, formatting, code generation | |

How they interact: the runtime opens MySQL, Redis, Kafka, Nacos, the scheduler and the relay, and closes them by hooks in reverse order. The relay feeds the topics the consumers read (`EventStream` is the interface of the two models). Consumers, the webhook server and the idempotency middleware claim their keys in the same way: SetNX before the work, Del if it failed. `authx` sessions are read by every gateway. A `Value` is called back by the goroutine that holds its watch's lock.

The parts of a process that keep keys in Redis use different prefixes, the followers of Nacos have locks of their own, and none of them calls another: apart from the outbox and the consumers, they meet only in the order in which the runtime opens and closes them (`Lifecycle`).

`PROJECT.json` lists every component with its status, and the hazards at their lines.

## 2. Modules

| Module | Models | State and actions |
|---|---|---|
| `Lease` | what a lock promises: granted only while nobody holds it, and to each call at most once | abstract |
| `RedisLock` | `redisx/lock.go` WithLock | the key (`owner`, `left`), each call's place (`pc`), its keeper and timer. One action per Redis operation and its failure; an operation that failed may have reached Redis. `Tick` is time; it waits for nothing, since no operation of the lock has a deadline (`lock.go:94`): the answer to a SetNX and an extension may come any time late. `timer` then goes below zero, and the ticker keeps one tick and drops the next, as Go's does. `missed` is a history variable: the extensions in a row that failed or came more than `MaxLag` late |
| `RedisLockProofs` | | proofs |
| `DelayTask`, `DelayTaskProofs` | `delayx/delay.go` | the rows (`status`, `attempts`, `age` of locked_at, `due`), per replica the claimed batch, the runs in the poller's own slot 0 and in the pool, the map of tracked runs, and how far Stop has got. A run's age counts against two limits: `Timeout` of the handler's ctx, and `Bookkeeping` of the ctx its outcome is written on, which is made before the handler starts (`delay.go:499`); past it the write fails (`OutcomeLate`). `marked` is a history variable of `CancelledWhenAsked` |
| `AuthSession`, `AuthSessionProofs` | `authx/authx.go` | the keys of one principal as sets, workers that run Login, Refresh, Logout and RevokeAll one round trip at a time and may stop anywhere (`Abandon`). `doubled` is a history variable: the tokens two Refreshes had read before either retired them |
| `Idempotency` | `kitexx/idempotency.go` middleware | one key and the calls that carry its request id |
| `EventStream` | what publishing promises | abstract: an event is on the topic only if it was queued, and gets there |
| `Outbox`, `OutboxProofs` | `kafkax/outbox.go` | rows, the topic, and per relay the rows of its open transaction (`todo`, `sent`, `failed`); commit and rollback are actions of their own. `delayed` is a history variable: the rows that gave way to a later one, for one of the four reasons the code has |
| `EventConsumer` (extends `EventStream`), `EventConsumerProofs` | `kafkax/kafkax.go` consume, handle, process, park, Close and `kafkax/dlq.go` | one partition: the group's offset and owner, the dedupe keys, the dlq and the tool group's position, a job per consumer and tool. A dedupe key may run out at any time (`Expire`). History variables: `forsaken`, the records a failing replay gives up after another tool took them for done; `slips`, how often an event's dedupe check failed or its key ran out; `lost`, what was given up |
| `NacosConfig` | `nacosx/config.go`, `nacosx/value.go` | the server's versions, the pushes under way, the watch with its lock, each call of Watch with its Value and lock; without Nacos, pollFile's first look at the file (`PollBegins`) is a step of its own goroutine |
| `Cache` | `redisx/cache.go` | the entry, the committed row, a flight per process, readers and writers step by step; a value is the version of the row it was read from. History variables mark the three races the code has. |
| `IdLease` | `idx/idx.go` | the keys of the instance numbers, each replica's keeper, clock, last millisecond and sequence, the ids made, each with its place among them so that a repeat shows |
| `Callback` | `webhookx/webhookx.go` serve | the dedupe key, the deliveries of one event, the archive, where the route has one |
| `Job` | `jobx/jobx.go` Execute | the lock key with its ttl, the runs, time |
| `Discovery` | `nacosx/naming.go` on the calling path | Nacos's list, the SDK's, what the client knows, look-ups and subscribers |
| `Services` | `nacosx/services.go` WatchServices | the names and states in Nacos, the round, what was last shown, the last record |
| `Lifecycle` | `kitexx/runtime.go`, `kitexx.go`, `shutdown.go`, `hertzx/hertzx.go` | features that are on, what is open, hooks, workers that are started and busy, phase; an RPC service or a gateway |
| `Parts` | a process's parts that share no state | extends `Idempotency`, the seven above and `NacosConfig`; a behaviour is one of one of them |
| `RedisKeysProofs` | `Idempotency`, `Callback`, `Job`, `IdLease`, `Cache` | proofs |
| `NacosProofs` | `NacosConfig`, `Discovery`, `Services` | proofs |
| `LifecycleProofs` | `Lifecycle` | proofs |
| `MC...` | | instances for TLC |

Operators whose name is a mapped operator's with a suffix (`MineUnchecked`, `ParkForgets`, ...) and that stand right before it are its mutants: plausible slips of that code that the named property must catch. They are used nowhere else.

Data is abstract: tokens, events, sessions are model values; a record's content matters only as "an envelope or not", a configuration's as good, bad or blank. Logging, metrics and tracing are left out.

External, modelled from how the code uses it: expiry and time, process deaths, the consumer group's decisions, other services' dead letters, the Nacos server and its SDK, Kitex's reaction to a signal. Of the SDK it is assumed that it calls the callback of one service one list at a time and in order, that Subscribe calls it at once if there is a list, and (as `services.go:210-216` says) that the calling client keeps its list when an empty one is pushed while the watching client does not.

`Parts` composes what does not interact: any interleaving of two of its parts projects to a behaviour of each, and each of its properties is about one part, so that checking the parts one by one (the variable `part` says which moves) checks every interleaving of them. It is one run instead of nine. That none of them writes another's state is read off the code (section 1), and is built into `Parts`: the run does not show it.

## 3. Runs

All bounds are CONSTANTS named `Max...`.

| Run | Instance | Shows |
|---|---|---|
| `RedisLock` | 2 calls (one waits), ttl 3, period 1, lag 0, 2 faults of any kind (error, deletion, panic, crash), operations that take any time | at most one call works while no two extensions in a row fail or come late (`HiccupSurvived`); only the holder's own steps, expiry or an outside deletion touch its key; `Lease` is implemented; a dead holder's key goes away; a call that lost the key is told |
| `RedisLock_panic` | 1 fault | **violated**: after a panic in fn the keeper extends the key for ever |
| `DelayTask_safety` | 2 replicas, a short and a long row, 2 attempts, 1 stop, 1 crash, handlers within and beyond the time of their bookkeeping, arbitrarily slow goroutines | settled rows stay settled; nothing is cancelled that nobody asked to cancel, but for what section 5 says; attempts never pass the limit, late runs included; a stop costs no attempt and leaves no row running; the poller never blocks on the pool |
| `DelayTask_liveness` | 1 row, 2 replicas, 1 error, 1 stop, 1 crash, timely goroutines, `Timeout` < `Bookkeeping` | every task is settled (`EveryTaskIsSettled`); an abort reaches a run on another replica within one heartbeat |
| `DelayTask_long` | 1 row, no fault, `Timeout` > `Bookkeeping` | **violated**: the outcome of a handler that takes longer than its bookkeeping's ctx is never written, and the task is run again for ever |
| `AuthSession` | 3 sessions, 3 token pairs, 2 workers, 5 calls, 1 ignored error, single_session on and off | a session that ended stays ended with its reason; a refresh token buys one pair (`ExchangedOnce`), but for the race of section 5; one live session, and RevokeAll ends what it says, each under the condition stated in its comment |
| `Parts` | see the next table | each part's own properties |
| `Outbox` | 3 rows, 2 relays, batch 2, 1 failed produce, 2 rollbacks or stops | no event is marked sent without being on the topic; copies come only from retries; a row overtakes an earlier one only if that one was delayed (`RelayedInIdOrder`); `EventStream` with its fairness is implemented |
| `EventConsumer` | 2 consumers, 2 tools, a good and a garbled event, 2 records, 2 commands, 1 fault | what was committed past is handled, parked or one of the named exceptions; the dlq position is earned, but for what two tools do to each other; an event is handled once, and once more for each time its dedupe check failed or its key ran out (`HandledOnce`) |
| `EventConsumer_liveness` | same without commands of the tools, 2 faults | every event is settled |
| `EventConsumer_death` | 1 fault | **violated**: a death between SetNX and the outcome loses the event |
| `NacosConfig_lock` | 3 versions | **violated**: Watch and a push wait for each other's lock |

`Parts`:

| Part | Instance | Shows |
|---|---|---|
| idempotency | 4 calls of one request id, 2 errors, 1 death, 1 expiry | `RunsAtMostOnce`: the handler succeeds at most once and never runs twice at a time |
| cache | 3 readers in 2 processes, 2 writers, 1 fault, with and without Redis, an unreadable entry | `CacheReadsAreFresh`: a Get that begins after a Del or Set is not answered with an older version, but for the three races of section 5; `CacheWaitersAreServed`: one load per process, and a waiter's loader is going to finish unless it panicked |
| id lease | 3 replicas for 2 numbers, 2 sequence values, 2 ms, 3 ids (one more than a millisecond holds), 1 fault | `IdsAreUnique`: no replica repeats an id, and no two make the same one with a held number and a clock past its last use; `IdsGrow` |
| callbacks | 4 deliveries, 3 faults, with and without dedupe and archive | `CallbackOkMeansHandled`: a 2xx means archived (where there is an archive) and handled or in hand, but for the cases of section 5; never handled twice |
| job | 3 runs, timeout 1, slack 1, 4 ticks, 2 faults | `JobRunsAlone` as long as no run outlives timeout and slack |
| configuration | 2 Watches, 3 versions, 1 failing read, with and without Nacos | `OnlyForward`, `Current` (but for what pollFile overlooks, section 5), and `OnlyTheEmbraceBlocks`: nobody is stuck but in the embrace of `NacosConfig_lock` |
| discovery | 2 look-ups (repeated), 2 subscribers, 2 changes, 1 fault | `SubscribersHearTheList`: they were last called with the list look-ups get, whichever came first |
| services | 2 services, 3 changes, 2 faults | `LastRecordSaysHowThingsAre`, whatever failed before |
| life | both kinds, every set of features | `NothingClosedUnderneath`, `OrderlyStop` |

Every exception in these properties is needed: without it TLC finds the behaviour that section 5 describes.

Why the bounds are enough: each protocol's interesting cases need two parties and one or two faults; the instances have those, and a third row, token or version where a third one matters (a batch with something left over, a login after a login, a version between two, a third replica that takes the number a second one lost). Two records of the topic hold an event twice, or two events. The lock's ttl and period are the smallest numbers with the code's ratio (ttl/3); since every step may be late by any time, a tolerance (`MaxLag`) of 0 has every case of lateness, and the theorem covers any. `Timeout` and `Bookkeeping` are on either side of each other in the three runs of `DelayTask` (in the safety run a slow goroutine gets a run past both), as 10 s and the default of 60 s are in the code. The safety run has no failing statement: with arbitrarily slow goroutines a heartbeat that fails is one that does not come, and an outcome whose write fails is one that comes too late; `DelayTask_liveness`, where goroutines are timely, has one, and the theorems any number. Two commands of the dead-letter tool are more than their sum, one after the other (a redelivery that fails after a replay parks a second copy, which a later drop marks done) and, with two tools, at once (one takes the other's key for a duplicate): `EventConsumer` has both, and the theorem covers any number of each.

Fairness. Time passes; a goroutine that can run does; an operation that succeeds again and again is eventually taken (no error is ever owed); tickers tick; a process that is down is started again (a deployment restarts its pods); a handler returns. Not assumed: that the fn of WithLock returns, that any commit or produce succeeds a given time, that a replica lives. In `DelayTask` a due row is claimed under strong fairness, because SKIP LOCKED lets any single transaction skip it. Deadlock is checked in every run; a system that has used up its bounds stutters by an explicit action (`CaughtUp`, `AllTold`, `AllSent`, ...).

Symmetry is used in safety runs only; in `Parts`, of the writers and of two of the replicas that lease numbers.

The type invariants (`TypeOK`, `ConfigTypeOK`) are no run's property: all of them are proved, the one of `NacosConfig` as the first conjunct of `ConfigInv`.

## 4. Proofs

TLAPS proves, for any constants that satisfy the modules' ASSUMEs:

* `RedisLockProofs`. `TypeCorrect`; `MutualExclusion` (`HiccupSurvived`); `TokenDiscipline` (`OnlyTheHolderTouchesTheKey`); `LeaseRefinement` (`ImplementsLease`). The assumption that carries the argument is 2·Period + 2·MaxLag < TTL. Exclusion is not inductive: nothing in it says why the key is still there when a keeper acts. `PhaseInv` ties the keeper to the phase of its call, and `HoldInv` bounds from below what is left of the key: the TTL less the time its answer has taken for a call that has just won, TTL − MaxLag − Period plus the (possibly negative) time to the next tick for a keeper that missed nothing, one Period less after one missed extension. It says nothing of a call that is later than that, which is why `HiccupSurvived` counts an extension under way for more than `MaxLag` as missed. Two working calls would both own the key.
* `OutboxProofs`. `TypeCorrect`, `NoEventIsLost` (`SentIsPublished`), `CopiesBounded` (`CopiesAreRetries`), `InOrder` (`RelayedInIdOrder`), `StreamRefinement` (the safety part of `EventStream`). The invariant adds what lives inside open transactions: rows a round will mark sent are on the topic already, rows it holds were committed, and what is on the topic was queued. For the copies, `LockInv` says that a row is in one list of one round, and `CopyInv` counts the last copy of a row as its only one once nobody will send it again. For the order, `OrderInv` says of rows still to be sent what `RelayedInIdOrder` says of those on the topic: whoever is earlier and was not delayed is on the topic or in front in the same round.

* `DelayTaskProofs`. `TypeCorrect`, `AttemptsLeft` (`AttemptLeft`), `RoomInPool` (`PoolHasRoom`), `WorkHandedBack` (`StopHandsWorkBack`), `AbortHeard` (`AbortReachesTheRun`), `CancelsAreAskedFor` (`CancelledWhenAsked`), and the action properties `SettledForGood` (`SettledStays`) and `StopIsFree` (`StopCostsNoAttempt`), for any finite set of rows, any replicas, batch and pool. `DelayInv` says why a run may still write: `HandInv` ties runs and batches to live processes, `HeldInv` says that while the database takes every write the last claimer of a running row still has it in its batch or in a run (so that a Stop can hand it back), unless its outcome came after `Bookkeeping`, `MarkInv` that a row nobody asked to cancel is in one run at most, which was not told to abort, `HeardInv` that the time to a run's next heartbeat is within what it has left to hear of an abort, and `RoomInv` counts: long rows of the batch plus busy places never exceed the pool. That count is why the set of rows is assumed finite.
* `AuthSessionProofs`. `TypeCorrect`, `RaceOnly` (`OnlyTheRaceUnlists`), `OnePairPerToken` (`ExchangedOnce`), `OneAlive` (`OneLiveSession`), and the action properties `EndsAreFinal` (`EndIsFinal`), `RevokedForGood` (`RevokedUnlessUnlisted`) and `LogoutEnds` (`LogoutEndsTheSession`: when a Logout returns, the session of its token is over, for operations that follow one another; proved and in no run), for any number of operations in flight. None of them is inductive, because an operation's later round trips act on what earlier ones read. `FreshInv` keeps a login's session its own until it starts; `UnlistInv` and `RevokeInv` say what an operation may take off the set, and that without the race a revocation has everything alive before it; `SpentInv` and `OnceInv` say that an exchanged token has left the store, and that whoever is still about to exchange it read it together with the first; `AloneInv`, `SingleInv` and `LogoutInv` carry the promises made for operations that follow one another.
* `EventConsumerProofs`. `TypeCorrect`, `SucceedsOnce` (`HandledOnce`), `CommitsAreDone` (`CommittedIsDone`), `PositionEarned` (`PositionIsEarned`), for any finite sets of consumers and of tools (finite because runs are counted), any number of commands and of faults. `PositionIsEarned` names an exception by the history variable `forsaken`: a replay that fails after a second tool found its key and took the record for a duplicate; a second one, as in `CommittedIsDone`, are the events in `lost`. `AloneForsakesNothing` says that this is the price of two tools at once: under `OneTool` (no two tools) nothing is ever forsaken. `TopicIsFed`: consumers and tools never write the topic, which changes only by `EventStream`'s `Deliver`. The arguments:
  * *Once.* A worker that holds the dedupe key is the only one (`KeyInv`), and every run without the key has a slip of its event to show for it, a check that failed or a key that ran out: successes + runs under way ≤ slips, plus one when the key is there (`CountInv`).
  * *At least once.* `DoneInv` holds of the commit, and of the place of an owner that is not stopping: what lies behind was handled, parked or lost, or its key vouches for it. The key vouches unless the owner itself holds it: that is the one case in which the key can go and leave nothing. A failed record vouches only in the hands of a consumer that is no longer the owner: the owner's own is still in front of its place.
  * *Position.* `EarnInv` holds of the records behind the position and of those each replay under way has dealt with: somebody answers for them. With several tools the answer may be a key that another tool's replay holds; when that replay fails the key goes, and the record is exactly one of those `Forsakes` puts on record. The second half, about the records between the commit and the owner's place, is what lets the commit pass a redelivered record on which the first half relied.
* `RedisKeysProofs`. `AtMostOnce` (`RunsAtMostOnce`), `ReplaysAreReal` (`ReplayNeedsASuccess`: a call is answered from the store only with the result of a run that succeeded; proved and in no run), `IdempotencyTypeCorrect`, `OkMeansHandled` (`CallbackOkMeansHandled`), `RunsAlone` (`JobRunsAlone`), `UniqueIds` (`IdsAreUnique`), `GrowingIds` (`IdsGrow`), `FreshReads` (`CacheReadsAreFresh`), `WaitersServed` (`CacheWaitersAreServed`), for any numbers of calls, deliveries, runs, replicas, readers, processes and writers. `IdempotencyInv` says that a call under way holds the key as pending, that a success leaves a key nobody can claim, and that a kept key is the trace of a success; `CallbackInv` says who stands behind a key that is there and that nobody works without one; `JobInv` that a run within timeout and slack still has its key; `IdInv` that other replicas' ids of a number one holds are older than where its own begin, and that the generator is ahead of its own, all of which are different; `CacheInv` who leads each flight and which version its load can return to whom.
* `NacosProofs`. `LastRecord` (`LastRecordSaysHowThingsAre`), `SubscribersHear` (`SubscribersHearTheList`), `EmbraceOnly` (`OnlyTheEmbraceBlocks`), `EveryValueIsCurrent` (`Current`) and the action property `ForwardOnly` (`OnlyForward`), for any numbers of services, subscribers, Watches and versions. `ConfigInv` has who holds which lock, that a version the SDK or pollFile noticed is seen, still to be pushed, or the one pollFile overlooked (`ToldInv`), and that a follower has the content seen last or is among those still to be called (`DeliveredInv`).
* `LifecycleProofs`. `NothingClosed` (`NothingClosedUnderneath`) and `StopsInOrder` (`OrderlyStop`). Neither property is inductive: a hook that closes a resource must know that whoever uses it was stopped before, and that depends on the order in which the hooks came to be there. `LifeInv` says that the hooks left are in the order of their features (`HookOrder`: the list is sorted by `Rank`, and none belongs to a feature still to be opened), that what is closed had its hook run, and every hook registered later ran before it (`ClosedInOrder`), that a worker which is started or busy still has its stop hook to come, unless it was left behind as overdue (`WorkersHaveHooks`), and which phases can have a listener, a registration and requests (`ServerPhases`). The exceptions in `NothingClosedUnderneath` are then the pairs of a worker and a resource whose hooks rank the wrong way round.

In the large modules the steps are first reduced to what they do to the fields of one operation, run or job (`...Eff`, `...Does`, and the lemmas that begin each file); the invariants are then proved from these effects, so that no leaf has to expand nested EXCEPTs together with a quantified invariant.

The proofs found one error of the models: `PositionIsEarned` used to name only the dropped offset itself. With two commands it is false: a replay passes the record as a duplicate of a run that then fails, the redelivered event is parked a second time, and `drop` marks that copy done. The property now accepts a dropped copy of the record, and the run `EventConsumer`, which then had one command, has two. And they made the hypothesis of a single tool explicit, from which the exception `forsaken` and the second tool of the run came.

Only model-checked: liveness under fairness (`DeadHolderGivesWay`, `OvertakenIsTold`, `EveryTaskIsSettled`, `EveryEventIsSettled`, and the fairness of `ImplementsStream`, whose safety part is proved), which is out of the prover's reach; and the violations, which are behaviours.

## 5. Findings and known divergences

Checked by a run (details in `PROJECT.json`): the keeper that outlives a panic (`redisx/lock.go:109`), the outcome that is written on a ctx older than the handler (`delayx/delay.go:499`), the dedupe key that outlives its process (`kafkax/kafkax.go:207`), and the embrace of Watch and push (`nacosx/value.go:71`).

Met while modelling; the models follow the code, and the properties state the condition under which the documented behaviour holds:

* `redisx/lock.go:20-25` "Only one holder at a time": the keeper only logs a failed extension (95-98), and one that hangs has no deadline (94); after two in a row that fail or are late the key runs out under a working holder. A SetNX whose answer is late enough does the same.
* `delayx/delay.go`: rows waiting in a batch have no heartbeat and may be reclaimed from a live replica (20-21, 471-484); Abort ends the local run before its transaction commits (294), and the run then writes cancelled even if that transaction rolls back; a run whose row was reclaimed by another replica sees it pending again at a heartbeat, takes that for an abort (605), and its outcome cancels the row when the other one is running it again (531-535): `CancelledWhenAsked` names both by `marked`; the branch for a kind without a handler (501-507) is never taken, as only registered kinds are claimed and none is unregistered; a late outcome writes attempts as it had read them (524, 547); Retention's comment (62) names more rows than cleanup deletes (661).
* `authx/authx.go`: two logins at once leave two live sessions (85-86, 326, 333); two refreshes that have both read one token's record both succeed (383, 407), against "exchanges a refresh token for a new pair and retires the old one" (378): `ExchangedOnce` names these tokens (`doubled`); a Logout that races a Refresh finds no session (419); a Login between RevokeAll's SMembers and Del leaves an unlisted session (450, 456); the errors of SMembers (450) and of Exists in Refresh (402) are dropped.
* `kitexx/idempotency.go`: the Del after a failed handler uses the request's ctx and ignores its error (101, 110): the id stays pending for 24 h; "a retry will run again" (116) is not so either, for the same reason.
* `kafkax/outbox.go:32-33` "rows are relayed in id order": a row whose produce fails is put off by its backoff (252) and the round goes on with the next, of whatever key (256); a rolled back round's rows come again after later ones; SKIP LOCKED (239) lets a second replica relay rows behind those the first one holds; and ids are given before the transactions commit, in whatever order. `RelayedInIdOrder` names the four by `delayed`. The first backoff is 2 s, the comments (55, 75) say 1 s.
* `kafkax/kafkax.go`: the dedupe key lives dedupe.ttl, 24 h by default, "longer than any redelivery (a rebalance, a replay from the outbox) takes" (68-69): a copy the dead-letter tool replays later is handled again if it had been handled, and a key that runs out while the handler is at it lets a second one in; `HandledOnce` counts these (`slips`). The ctx looked at in the retry loop (430) is the record's, which no shutdown ends, so its branch is never taken; a consumer that was put out of the group and is stopping neither parks a failed record nor has it redelivered (387).
* `kafkax/dlq.go`: `replay <topic> <offset>` takes the first record with that offset of any partition (224-229); with two tools at once, one takes the other's key for a duplicate and marks the record done (250), and if the other's handler then fails nobody replays it: `PositionIsEarned` names these records (`forsaken`).
* `nacosx/config.go:209`: when the read fails the pushed content is used, so the older of two pushes may win; `pollFile` (281) skips a change whose read failed. Without Nacos a change of the file between follow's read (146) and pollFile's first look (261), which comes later and on a goroutine of its own, is overlooked until the next change: `Current` names it (`overlooked`).
* `redisx/cache.go`: three ways to the old value after Del or Set: a load that had read the row before stores it afterwards (132), for a whole ttl; a writer that was overtaken between its commit and its Set puts its older version over the newer one (139-149), for a whole ttl as well; and a Get that begins after the Del joins a flight whose load had read it before (107-113). A loader that panics skips Done and Delete (117-118): who waits for it, and every later Get of that id in the process, waits for ever.
* `idx/idx.go`: "unique across every replica" holds while the lease does. Next goes on with a number whose key has run out (294), with the old number when none is free (291) and after Close; a successor whose clock is behind repeats its predecessor's milliseconds; a keeper that moves to a smaller number within the millisecond of the last id makes a smaller id ("greater than every id this instance made before", 174).
* `jobx/jobx.go:184`: the deferred Del does not look at the value: a run that outlives timeout and slack deletes the key of the run after it, and a third one starts beside that.
* `webhookx/webhookx.go`: "already handled" (219) is answered 2xx while the first delivery is still at work; if that one fails, a provider that trusts the 2xx does not come again. The key of a process that died, of a SetNX whose answer was lost, or whose Del failed (229, error not looked at) stays for dedupe_ttl and does the same.
* `kitexx/shutdown.go:44-47` "a handler never sees its database closed underneath it": the hooks run in reverse order of registration, and Kafka is registered after its relay (`runtime.go:419-421`), so the producer is closed under the relay; delayed tasks are stopped last but MySQL, so that they outlive Redis, the id lease, Kafka and the report database; consumers outlive the report database. `Runtime.Run` returns from an early error (`kitexx.go:423-442`) without running the hooks, `hertzx` runs them. A gateway registers starters (relay, delayed tasks) that nobody runs.
* `nacosx/services.go:232` "the last record always says how things are": the first overview is taken under the lock and logged after it (265-271); an update in between has its record before it.
* `nacosx/naming.go`: a look-up that got its list before a push and comes to observe after it (238-239) tells the subscribers the old list, until the next look-up or push.

## 6. Not modelled, and the plan

Not modelled by choice: logging, metrics and tracing; wrappers of drivers (`mysqlx`, `starrocksx`, `s3x`, `centrifugox`); code generators, examples, test support; signatures and key handling of `authx` and `webhookx`; finding a request id and encoding results by reflection in `kitexx/idempotency.go`; the tables and colours of `services.go`; `nacosx/outage.go`, which decides how often a connection failure is logged; the choice of an address and of an instance (`instanceAddr`, `Pick`); takeover mode in `Lifecycle`. `hertzx/docs/scalar.js` is the minified bundle of the Scalar API reference, a third party's program that the gateway serves as a file: none of its code is this repository's.

Next, in this order:

1. `Migration` (`kitexx/migrate.go`): replicas that start at once.
2. `httpx`: the retries and the token cache of the client; `hertzx/guard.go`: the counters of the rate guard.
3. Algorithms against reference definitions: `moneyx` (arithmetic, Split, Allocate), `pagex`, `config/takeover.go`, `zlog/sampling.go`, `hertzx/clientip.go`, callers and permissions. They keep no state and have unit tests at their boundaries, and come last for that reason.
