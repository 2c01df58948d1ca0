----------------------------- MODULE RedisLock ------------------------------
(***************************************************************************)
(* redisx.WithLock (redisx/lock.go): several calls, each on a replica of   *)
(* its own and with a random token of its own, compete for one Redis key.  *)
(* A winner runs fn while a keeper goroutine extends the key every ttl/3;  *)
(* the key is given back by a script that compares the token.              *)
(*                                                                         *)
(* Time is relative: left is what remains of the key's expiry and timer[c] *)
(* what remains until call c's next due step (the answer to its SetNX, or  *)
(* its keeper's next tick), below 0 when it is overdue.  Tick lets one     *)
(* unit of time pass for everybody, whatever is due: no operation has a    *)
(* deadline, so that each may take any time until it reaches Redis.        *)
(***************************************************************************)
EXTENDS Integers, FiniteSets

CONSTANTS
    Call,        \* the calls of WithLock for one name; a call is its token
    Waiter,      \* the calls made with the Wait option
    NoCall,      \* the value of a key that does not exist
    TTL,         \* ttl, in units of time
    Period,      \* ttl / 3, the keeper's ticker
    MaxLag,      \* how late a step that is due may be and still be in time
    MaxFaults    \* bound: Redis operations that end in an error, times somebody
                 \* else deletes the key, panics of fn and processes that die

ASSUME CallAssumption == NoCall \notin Call /\ Waiter \subseteq Call
ASSUME TimeAssumption ==
    /\ TTL \in Nat /\ Period \in Nat \ {0} /\ MaxLag \in Nat
    /\ MaxLag < Period /\ 2 * Period + 2 * MaxLag < TTL
ASSUME BoundAssumption == MaxFaults \in Nat

VARIABLES
    owner,       \* the token stored in the key, NoCall when there is no key
    left,        \* time until the key expires; 0 when there is no key
    pc,          \* where each call is, see Phase
    keeper,      \* each call's keeper goroutine: "off", "on" or "lost"
    timer,       \* time until the call's next due step, negative when overdue
    cancelled,   \* fn's ctx is over (by the caller or by the keeper)
    ret,         \* what WithLock returned, see Result
    missed,      \* history: extensions in a row that did not reach the key in time
    errors, deletes, panics, crashes   \* the faults so far

vars == <<owner, left, pc, keeper, timer, cancelled, ret, missed,
          errors, deletes, panics, crashes>>

Phase == {"trying",     \* in the SetNX loop
          "won",        \* SetNX set the key, the answer is on its way
          "fn",         \* fn runs
          "ending",     \* fn returned, the keeper is being stopped
          "release",    \* about to run the release script
          "panicked",   \* fn panicked and the panic left WithLock
          "done", "crashed"}

Result == {"none", "fn", "ErrLocked", "ErrLockLost", "redis", "ctx"}   \* "fn": as fn

TypeOK ==
    /\ owner \in Call \cup {NoCall}
    /\ left \in 0..TTL
    /\ pc \in [Call -> Phase]
    /\ keeper \in [Call -> {"off", "on", "lost"}]
    /\ timer \in [Call -> Int]
    /\ cancelled \in [Call -> BOOLEAN]
    /\ ret \in [Call -> Result]
    /\ missed \in [Call -> Nat]
    /\ errors \in Nat /\ deletes \in Nat /\ panics \in Nat /\ crashes \in Nat
    /\ errors + deletes + panics + crashes <= MaxFaults

Init ==
    /\ owner = NoCall /\ left = 0
    /\ pc = [c \in Call |-> "trying"]
    /\ keeper = [c \in Call |-> "off"]
    /\ timer = [c \in Call |-> 0]
    /\ cancelled = [c \in Call |-> FALSE]
    /\ ret = [c \in Call |-> "none"]
    /\ missed = [c \in Call |-> 0]
    /\ errors = 0 /\ deletes = 0 /\ panics = 0 /\ crashes = 0

-----------------------------------------------------------------------------
(* The scripts' comparison of the stored value with the caller's token. *)

MineUnchecked(c) == owner # NoCall

Mine(c) == owner = c

\* The key as SetNX and as a successful extension leave it.
Stored(c) == owner' = c /\ left' = TTL

\* Steps of the call that are overdue by more than MaxLag.
Behind(c) ==
    CASE timer[c] < -(Period + MaxLag) -> 2
      [] timer[c] \in -(Period + MaxLag)..-(MaxLag + 1) -> 1
      [] OTHER -> 0

Return(c, r) == pc' = [pc EXCEPT ![c] = "done"] /\ ret' = [ret EXCEPT ![c] = r]

OneMoreFault == errors + deletes + panics + crashes < MaxFaults
OneMoreError == OneMoreFault /\ errors' = errors + 1

-----------------------------------------------------------------------------
(* Taking the lock: the SetNX loop. *)

AcquireOverwriting(c) ==
    /\ pc[c] = "trying" /\ ~cancelled[c]
    /\ Stored(c)
    /\ pc' = [pc EXCEPT ![c] = "won"]
    /\ timer' = [timer EXCEPT ![c] = 0]
    /\ UNCHANGED <<keeper, cancelled, ret, missed, errors, deletes, panics, crashes>>

Acquire(c) ==
    /\ pc[c] = "trying" /\ ~cancelled[c]
    /\ owner = NoCall
    /\ Stored(c)
    /\ pc' = [pc EXCEPT ![c] = "won"]
    /\ timer' = [timer EXCEPT ![c] = 0]
    /\ UNCHANGED <<keeper, cancelled, ret, missed, errors, deletes, panics, crashes>>

\* The key is there.  Without Wait the call gives up at once; with it the
\* call tries again (this state) until its deadline.
Busy(c) ==
    /\ pc[c] = "trying" /\ ~cancelled[c]
    /\ owner # NoCall
    /\ Return(c, "ErrLocked")
    /\ UNCHANGED <<owner, left, keeper, timer, cancelled, missed, errors, deletes, panics, crashes>>

\* A waiting call whose ctx ends returns its error; one whose ctx is over
\* when SetNX is sent gets the same error from the client.
WaitCancelled(c) ==
    /\ pc[c] = "trying" /\ cancelled[c]
    /\ Return(c, "redis") \/ (c \in Waiter /\ Return(c, "ctx"))
    /\ UNCHANGED <<owner, left, keeper, timer, cancelled, missed, errors, deletes, panics, crashes>>

\* SetNX fails; it may have reached Redis all the same (the answer was lost).
AcquireError(c) ==
    /\ pc[c] = "trying" /\ OneMoreError
    /\ \/ UNCHANGED <<owner, left>>
       \/ owner = NoCall /\ Stored(c)
    /\ Return(c, "redis")
    /\ UNCHANGED <<keeper, timer, cancelled, missed, deletes, panics, crashes>>

-----------------------------------------------------------------------------
(* Holding it: fn and the keeper. *)

\* SetNX is answered, however late.
StartFn(c) ==
    /\ pc[c] = "won"
    /\ pc' = [pc EXCEPT ![c] = "fn"]
    /\ keeper' = [keeper EXCEPT ![c] = "on"]
    /\ timer' = [timer EXCEPT ![c] = Period]
    /\ missed' = [missed EXCEPT ![c] = @ + Behind(c)]
    /\ UNCHANGED <<owner, left, cancelled, ret, errors, deletes, panics, crashes>>

\* The ticker has fired; from here on the extension may reach Redis.
KeeperTicks(c) == keeper[c] = "on" /\ timer[c] <= 0

\* The ticker goes on by itself: one that fired late fires again the earlier.
NextTick(c) == timer' = [timer EXCEPT ![c] = @ + Period]

Extend(c) ==
    /\ KeeperTicks(c)
    /\ Mine(c)
    /\ left' = TTL
    /\ NextTick(c)
    /\ missed' = [missed EXCEPT ![c] = 0]
    /\ UNCHANGED <<owner, pc, keeper, cancelled, ret, errors, deletes, panics, crashes>>

LostIgnored(c) ==
    /\ KeeperTicks(c)
    /\ ~Mine(c)
    /\ NextTick(c)
    /\ UNCHANGED <<owner, left, pc, keeper, cancelled, ret, missed, errors, deletes, panics, crashes>>

\* The script answers 0: the key is gone or somebody else's.
Lost(c) ==
    /\ KeeperTicks(c)
    /\ ~Mine(c)
    /\ keeper' = [keeper EXCEPT ![c] = "lost"]
    /\ cancelled' = [cancelled EXCEPT ![c] = TRUE]
    /\ UNCHANGED <<owner, left, pc, timer, ret, missed, errors, deletes, panics, crashes>>

ExtendErrorStops(c) ==
    /\ KeeperTicks(c) /\ OneMoreError
    /\ keeper' = [keeper EXCEPT ![c] = "off"]
    /\ missed' = [missed EXCEPT ![c] = 1]
    /\ UNCHANGED <<owner, left, pc, timer, cancelled, ret, deletes, panics, crashes>>

\* An error is only logged; the next tick tries again.  The script may have
\* run in spite of it.
ExtendError(c) ==
    /\ KeeperTicks(c) /\ OneMoreError
    /\ \/ /\ UNCHANGED left
          /\ missed' = [missed EXCEPT ![c] = @ + 1]
       \/ /\ Mine(c)
          /\ left' = TTL
          /\ missed' = [missed EXCEPT ![c] = 0]
    /\ NextTick(c)
    /\ UNCHANGED <<owner, pc, keeper, cancelled, ret, deletes, panics, crashes>>

FnReturn(c) ==
    /\ pc[c] = "fn"
    /\ pc' = [pc EXCEPT ![c] = "ending"]
    /\ UNCHANGED <<owner, left, keeper, timer, cancelled, ret, missed, errors, deletes, panics, crashes>>

\* A panic unwinds through WithLock: the deferred cancel ends fn's ctx, and
\* the lines that stop the keeper and release the key never run.
FnPanic(c) ==
    /\ pc[c] = "fn" /\ OneMoreFault
    /\ panics' = panics + 1
    /\ pc' = [pc EXCEPT ![c] = "panicked"]
    /\ cancelled' = [cancelled EXCEPT ![c] = TRUE]
    /\ UNCHANGED <<owner, left, keeper, timer, ret, missed, errors, deletes, crashes>>

-----------------------------------------------------------------------------
(* Giving it back. *)

StopKeeper(c) ==
    /\ pc[c] = "ending"
    /\ \/ /\ keeper[c] = "lost"
          /\ Return(c, "ErrLockLost")
          /\ UNCHANGED keeper
       \/ /\ keeper[c] = "on"
          /\ keeper' = [keeper EXCEPT ![c] = "off"]
          /\ pc' = [pc EXCEPT ![c] = "release"]
          /\ UNCHANGED ret
    /\ UNCHANGED <<owner, left, timer, cancelled, missed, errors, deletes, panics, crashes>>

\* What the release script does when it runs.
Released(c) ==
    IF Mine(c) THEN owner' = NoCall /\ left' = 0 ELSE UNCHANGED <<owner, left>>

Release(c) ==
    /\ pc[c] = "release"
    /\ Released(c)
    /\ Return(c, "fn")
    /\ UNCHANGED <<keeper, timer, cancelled, missed, errors, deletes, panics, crashes>>

\* A release that fails is only logged: the key is left to expire.
ReleaseError(c) ==
    /\ pc[c] = "release" /\ OneMoreError
    /\ UNCHANGED <<owner, left>> \/ Released(c)
    /\ Return(c, "fn")
    /\ UNCHANGED <<keeper, timer, cancelled, missed, deletes, panics, crashes>>

-----------------------------------------------------------------------------
(* The surroundings. *)

\* The caller's ctx ends.  Extending and releasing use WithoutCancel.
CallerCancels(c) ==
    /\ pc[c] \in {"trying", "won", "fn"}
    /\ ~cancelled[c]
    /\ cancelled' = [cancelled EXCEPT ![c] = TRUE]
    /\ UNCHANGED <<owner, left, pc, keeper, timer, ret, missed, errors, deletes, panics, crashes>>

\* The process of call c dies, its keeper with it.
Crash(c) ==
    /\ OneMoreFault /\ crashes' = crashes + 1
    /\ pc[c] \notin {"done", "crashed"}
    /\ pc' = [pc EXCEPT ![c] = "crashed"]
    /\ keeper' = [keeper EXCEPT ![c] = "off"]
    /\ UNCHANGED <<owner, left, timer, cancelled, ret, missed, errors, deletes, panics>>

\* Somebody deletes the key.
DeleteKey ==
    /\ owner # NoCall /\ OneMoreFault
    /\ deletes' = deletes + 1
    /\ owner' = NoCall /\ left' = 0
    /\ UNCHANGED <<pc, keeper, timer, cancelled, ret, missed, errors, panics, crashes>>

\* Call c has a step due at a known time.
Timed(c) == pc[c] = "won" \/ keeper[c] = "on"

\* The ticker keeps one tick that nobody takes, and drops the next.  (For an
\* answer to SetNX this only caps how late it is counted to be.)
Drops(c) == Timed(c) /\ timer[c] = 1 - 2 * Period

Passes(c) == IF Drops(c) THEN timer[c] - 1 + Period ELSE timer[c] - 1

TickWithoutExpiry ==
    /\ timer' = [c \in Call |-> IF Timed(c) THEN Passes(c) ELSE 0]
    /\ missed' = [c \in Call |-> IF Drops(c) THEN 2 ELSE missed[c]]
    /\ UNCHANGED <<owner, left, pc, keeper, cancelled, ret, errors, deletes, panics, crashes>>

Tick ==
    /\ left' = IF left > 0 THEN left - 1 ELSE 0
    /\ owner' = IF left > 1 THEN owner ELSE NoCall
    /\ timer' = [c \in Call |-> IF Timed(c) THEN Passes(c) ELSE 0]
    /\ missed' = [c \in Call |-> IF Drops(c) THEN 2 ELSE missed[c]]
    /\ UNCHANGED <<pc, keeper, cancelled, ret, errors, deletes, panics, crashes>>

-----------------------------------------------------------------------------
CallStep(c) ==
    \/ Acquire(c) \/ Busy(c) \/ WaitCancelled(c) \/ AcquireError(c)
    \/ StartFn(c) \/ FnReturn(c) \/ FnPanic(c)
    \/ StopKeeper(c) \/ Release(c) \/ ReleaseError(c)

KeeperStep(c) == Extend(c) \/ Lost(c) \/ ExtendError(c)

Next ==
    \/ Tick \/ DeleteKey
    \/ \E c \in Call : CallStep(c) \/ KeeperStep(c) \/ CallerCancels(c) \/ Crash(c)

Spec == Init /\ [][Next]_vars

\* Time passes; a goroutine that can run does, fn's own return excepted:
\* nothing in WithLock makes fn return.  An error is never owed to anybody,
\* so only the steps that succeed carry fairness.
Fairness ==
    /\ WF_vars(Tick)
    /\ \A c \in Call : WF_vars(Extend(c) \/ Lost(c))
    /\ \A c \in Call : WF_vars(StartFn(c) \/ StopKeeper(c) \/ Release(c))

FairSpec == Spec /\ Fairness

-----------------------------------------------------------------------------
(* Properties. *)

\* fn runs and has not been told to stop.
Working(c) == pc[c] = "fn" /\ ~cancelled[c]

\* A failed extension does no harm by itself (the comment in the keeper:
\* "Redis hiccup: the key still has time; try again next tick"), nor does one
\* that hangs: as long as nobody deletes the key and no working call has had
\* two extensions in a row fail or come more than MaxLag late (the answer to
\* its SetNX counts as the first), at most one call works under the lock.
HiccupSurvived ==
    (deletes = 0 /\ \A c \in Call : Working(c) => missed[c] + Behind(c) <= 1)
        => \A c, d \in Call : Working(c) /\ Working(d) => c = d

\* "a slow holder cannot release a lock that moved on to someone else": the
\* key leaves its owner only by running out, by the owner's own release or
\* by the hand of somebody outside, and only the owner's keeper prolongs it.
HolderStep ==
    \A c \in Call : owner = c =>
         /\ owner' # c => /\ owner' = NoCall
                          /\ \/ left = 1
                             \/ pc[c] = "release" /\ pc'[c] = "done"
                             \/ deletes' = deletes + 1
         /\ owner' = c /\ left' > left => KeeperTicks(c)

OnlyTheHolderTouchesTheKey == [][HolderStep]_vars

\* WithLock implements the lease: see Lease.
L == INSTANCE Lease WITH
        holder <- owner,
        spent <- {c \in Call : pc[c] # "trying" /\ owner # c}

ImplementsLease == L!Spec

\* "ttl is how long the process may be dead before another one takes over":
\* the key of a call whose process died does not stay.
DeadHolderGivesWay ==
    \A c \in Call : pc[c] = "crashed" ~> owner # c

\* A call that works although the key is no longer its own is told: its ctx
\* ends (or fn is over before that).
OvertakenIsTold ==
    \A c \in Call : (pc[c] = "fn" /\ owner # c) ~> ~Working(c)

\* "The lock is held for ttl and extended in the background while fn runs":
\* once fn is over the key goes away.  Violated by a panic in fn: nothing
\* stops the keeper, which extends the key for as long as the process lives.
ExtendedOnlyWhileFnRuns ==
    \A c \in Call : pc[c] = "panicked" ~> owner # c
=============================================================================
