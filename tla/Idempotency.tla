---------------------------- MODULE Idempotency -----------------------------
(***************************************************************************)
(* The Idempotency middleware (kitexx/idempotency.go) for one key, that is *)
(* one service, method, request_id and login: the first call and the       *)
(* retries that come while it runs or after it.                            *)
(***************************************************************************)
EXTENDS Integers, FiniteSets

CONSTANTS
    Call,          \* the calls that carry this request_id
    MaxErrors,     \* bound: Redis operations and encodings that fail
    MaxCrashes,    \* bound: calls whose process dies
    MaxExpiries    \* bound: times the key's 24 hours run out

ASSUME BoundAssumption ==
    MaxErrors \in Nat /\ MaxCrashes \in Nat /\ MaxExpiries \in Nat

VARIABLES
    key,           \* the stored value: "none", "pending" or "kept"
    pc, ret,       \* each call's place and answer
    wins,          \* history: successful runs since the id was last forgotten
    errors, crashes, expiries

used == <<errors, crashes, expiries>>
vars == <<key, pc, ret, wins, used>>

Place == {"claim", "read", "handler", "drop", "keep", "returned", "dead"}
Answer == {"none", "ok", "replayed", "error", "inProgress", "unavailable"}

TypeOK ==
    /\ key \in {"none", "pending", "kept"}
    /\ pc \in [Call -> Place] /\ ret \in [Call -> Answer]
    /\ wins \in Nat
    /\ errors \in 0..MaxErrors /\ crashes \in 0..MaxCrashes /\ expiries \in 0..MaxExpiries

Init ==
    /\ key = "none"
    /\ pc = [c \in Call |-> "claim"] /\ ret = [c \in Call |-> "none"]
    /\ wins = 0
    /\ errors = 0 /\ crashes = 0 /\ expiries = 0

Return(c, answer) ==
    /\ pc' = [pc EXCEPT ![c] = "returned"]
    /\ ret' = [ret EXCEPT ![c] = answer]

Goto(c, place) == pc' = [pc EXCEPT ![c] = place] /\ UNCHANGED ret

OneMoreError == errors < MaxErrors /\ errors' = errors + 1 /\ UNCHANGED <<crashes, expiries>>

-----------------------------------------------------------------------------
ClaimUnlessKept(c) ==
    /\ pc[c] = "claim"
    /\ IF key # "kept"
       THEN key' = "pending" /\ Goto(c, "handler")
       ELSE UNCHANGED key /\ Goto(c, "read")
    /\ UNCHANGED <<wins, used>>

\* SetNX(key, pending).
Claim(c) ==
    /\ pc[c] = "claim"
    /\ IF key = "none"
       THEN key' = "pending" /\ Goto(c, "handler")
       ELSE UNCHANGED key /\ Goto(c, "read")
    /\ UNCHANGED <<wins, used>>

\* SetNX fails, before or after it reached Redis: 5002.
ClaimError(c) ==
    /\ pc[c] = "claim" /\ OneMoreError
    /\ key' \in {key, IF key = "none" THEN "pending" ELSE key}
    /\ Return(c, "unavailable")
    /\ UNCHANGED wins

\* Get: the kept answer, or 1002 while there is none.
Read(c) ==
    /\ pc[c] = "read"
    /\ Return(c, IF key = "kept" THEN "replayed" ELSE "inProgress")
    /\ UNCHANGED <<key, wins, used>>

\* Get fails, or the kept answer does not fit the result type: 5002.
ReadError(c) ==
    /\ pc[c] = "read" /\ OneMoreError
    /\ Return(c, "unavailable")
    /\ UNCHANGED <<key, wins>>

\* next succeeds; a business error (bizFailed) or any other does not count.
HandlerSucceeds(c) ==
    /\ pc[c] = "handler"
    /\ wins' = wins + 1
    /\ Goto(c, "keep")
    /\ UNCHANGED <<key, used>>

HandlerFails(c) ==
    /\ pc[c] = "handler"
    /\ Goto(c, "drop")
    /\ UNCHANGED <<key, wins, used>>

Drop(c) ==
    /\ pc[c] = "drop"
    /\ key' = "none"
    /\ Return(c, "error")
    /\ UNCHANGED <<wins, used>>

\* Del runs on the request's ctx and its error is not looked at: once the
\* caller's deadline has passed the id is not dropped.
DropError(c) ==
    /\ pc[c] = "drop" /\ OneMoreError
    /\ Return(c, "error")
    /\ UNCHANGED <<key, wins>>

Keep(c) ==
    /\ pc[c] = "keep"
    /\ key' = "kept"
    /\ Return(c, "ok")
    /\ UNCHANGED <<wins, used>>

\* The answer cannot be encoded, or Set fails: logged, the call succeeded.
KeepError(c) ==
    /\ pc[c] = "keep" /\ OneMoreError
    /\ Return(c, "ok")
    /\ UNCHANGED <<key, wins>>

Crash(c) ==
    /\ pc[c] \notin {"returned", "dead"}
    /\ crashes < MaxCrashes /\ crashes' = crashes + 1
    /\ Goto(c, "dead")
    /\ UNCHANGED <<key, wins, errors, expiries>>

UnderWay(c) == pc[c] \in {"handler", "drop", "keep"}

\* IdempotencyTTL: "a retry later than this is a new request".  No handler
\* runs for 24 hours, so nobody is between claim and answer.
Expire ==
    /\ key # "none" /\ \A c \in Call : ~UnderWay(c)
    /\ expiries < MaxExpiries /\ expiries' = expiries + 1
    /\ key' = "none" /\ wins' = 0
    /\ UNCHANGED <<pc, ret, errors, crashes>>

AllReturned == /\ \A c \in Call : pc[c] \in {"returned", "dead"}
               /\ UNCHANGED vars

Next ==
    \/ Expire \/ AllReturned
    \/ \E c \in Call :
         \/ Claim(c) \/ ClaimError(c) \/ Read(c) \/ ReadError(c)
         \/ HandlerSucceeds(c) \/ HandlerFails(c)
         \/ Drop(c) \/ DropError(c) \/ Keep(c) \/ KeepError(c) \/ Crash(c)

Spec == Init /\ [][Next]_vars

-----------------------------------------------------------------------------
(* Properties. *)

\* "executing a transfer twice is worse than refusing it": as long as the id
\* is remembered the handler succeeds at most once, and never runs in two
\* calls at the same time, whatever fails, dies or is repeated.
RunsAtMostOnce ==
    /\ wins <= 1
    /\ \A c, d \in Call : UnderWay(c) /\ UnderWay(d) => c = d
    /\ wins = 1 => \A c \in Call : pc[c] \notin {"handler", "drop"}

\* "a second call with the same id gets the kept result back": a call is
\* answered from the store only with the result of a run that succeeded.
ReplayNeedsASuccess ==
    [][\A c \in Call : ret[c] # "replayed" /\ ret'[c] = "replayed"
                       => wins = 1 /\ key = "kept"]_vars
=============================================================================
