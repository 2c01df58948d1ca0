------------------------------ MODULE Callback ------------------------------
(***************************************************************************)
(* A provider's callbacks (webhookx/webhookx.go serve): the deliveries of  *)
(* one event.  The provider sends it again after a 5xx, after no answer in *)
(* its own time, and sometimes for no reason, so a delivery may come while *)
(* another one is being served.                                            *)
(***************************************************************************)
EXTENDS Integers, FiniteSets

CONSTANTS
    Delivery,
    MaxCallbackFaults    \* bound: failed stores, deaths, handler errors, expiries

ASSUME CallbackAssumption == MaxCallbackFaults \in Nat

VARIABLES
    deduped,             \* the event has an id and there is a Redis
    archiving,           \* there is an archive topic and a Kafka client
    mark,                \* the dedupe key is set
    serveAt, status,     \* each delivery's place, and the answer it got
    archived,            \* the deliveries copied to the archive topic
    successes,           \* history: handler runs that succeeded since the id was last forgotten
    everHandled,         \* history: one did
    orphan,              \* history: the key was left behind by a call that did not handle
    overtaken,           \* history: a duplicate was answered 2xx while the run failed
    callbackFaults

setting == <<deduped, archiving>>
callbackVars == <<setting, mark, serveAt, status, archived, successes, everHandled, orphan,
                  overtaken, callbackFaults>>

Status == {"none", "ok", "retry", "refused"}    \* 2xx, 5xx, 4xx

CallbackInit ==
    /\ deduped \in BOOLEAN /\ archiving \in BOOLEAN /\ mark = FALSE
    /\ serveAt = [d \in Delivery |-> "check"] /\ status = [d \in Delivery |-> "none"]
    /\ archived = {} /\ successes = 0 /\ everHandled = FALSE /\ orphan = FALSE /\ overtaken = FALSE
    /\ callbackFaults = 0

CallbackFault == callbackFaults < MaxCallbackFaults /\ callbackFaults' = callbackFaults + 1

Replies(d, s) == /\ serveAt' = [serveAt EXCEPT ![d] = "served"]
                 /\ status' = [status EXCEPT ![d] = s]
ServeAt(d, place) == serveAt' = [serveAt EXCEPT ![d] = place] /\ UNCHANGED status

-----------------------------------------------------------------------------
\* Source address, body limit, signature: not the provider, or not valid.
Refuse(d) ==
    /\ serveAt[d] = "check" /\ CallbackFault /\ Replies(d, "refused")
    /\ UNCHANGED <<setting, mark, archived, successes, everHandled, orphan, overtaken>>

\* The raw copy goes to Kafka first, where the route has an archive.
Archive(d) ==
    /\ serveAt[d] = "check" /\ ServeAt(d, "claim")
    /\ archived' = IF archiving THEN archived \cup {d} ELSE archived
    /\ UNCHANGED <<setting, mark, successes, everHandled, orphan, overtaken, callbackFaults>>

ArchiveError(d) ==
    /\ serveAt[d] = "check" /\ archiving /\ CallbackFault /\ Replies(d, "retry")
    /\ archived' \in {archived, archived \cup {d}}
    /\ UNCHANGED <<setting, mark, successes, everHandled, orphan, overtaken>>

\* SetNX: "already handled" is answered 2xx, though the first may be at work.
ClaimEvent(d) ==
    /\ serveAt[d] = "claim"
    /\ IF deduped /\ mark
       THEN Replies(d, "ok") /\ UNCHANGED mark
       ELSE ServeAt(d, "handle") /\ mark' = deduped
    /\ UNCHANGED <<setting, archived, successes, everHandled, orphan, overtaken, callbackFaults>>

\* SetNX fails, before or after it reached Redis.
ClaimEventError(d) ==
    /\ serveAt[d] = "claim" /\ deduped /\ CallbackFault /\ Replies(d, "retry")
    /\ mark' \in {mark, TRUE} /\ orphan' = (orphan \/ mark' # mark)
    /\ UNCHANGED <<setting, archived, successes, everHandled, overtaken>>

Handled(d) ==
    /\ serveAt[d] = "handle" /\ Replies(d, "ok")
    /\ successes' = successes + 1 /\ everHandled' = TRUE
    /\ UNCHANGED <<setting, mark, archived, orphan, overtaken, callbackFaults>>

\* The handler returns an error or panics (run recovers it).
NotHandled(d) ==
    /\ serveAt[d] = "handle" /\ CallbackFault /\ ServeAt(d, "forget")
    /\ overtaken' = (overtaken \/ \E e \in Delivery : status[e] = "ok")
    /\ UNCHANGED <<setting, mark, archived, successes, everHandled, orphan>>

ForgetSkipped(d) ==
    /\ serveAt[d] = "forget" /\ Replies(d, "retry")
    /\ UNCHANGED <<setting, mark, archived, successes, everHandled, orphan, overtaken, callbackFaults>>

\* Del, so that the redelivery is handled.  Between the failure and the Del
\* a duplicate is still answered as done.
Forget(d) ==
    /\ serveAt[d] = "forget" /\ Replies(d, "retry") /\ mark' = FALSE
    /\ overtaken' = (overtaken \/ \E e \in Delivery : status[e] = "ok")
    /\ UNCHANGED <<setting, archived, successes, everHandled, orphan, callbackFaults>>

\* The error of Del is not looked at.
ForgetError(d) ==
    /\ serveAt[d] = "forget" /\ deduped /\ CallbackFault /\ Replies(d, "retry")
    /\ orphan' = TRUE
    /\ UNCHANGED <<setting, mark, archived, successes, everHandled, overtaken>>

\* The process dies; the provider gets no answer.
ServerDies(d) ==
    /\ serveAt[d] \in {"claim", "handle", "forget"} /\ CallbackFault
    /\ ServeAt(d, "served")
    /\ orphan' = (orphan \/ (deduped /\ serveAt[d] # "claim"))
    /\ UNCHANGED <<setting, mark, archived, successes, everHandled, overtaken>>

Working(d) == serveAt[d] \in {"handle", "forget"}

\* dedupe_ttl, days: nobody is at work that long.
MarkExpires ==
    /\ mark /\ CallbackFault /\ \A d \in Delivery : ~Working(d)
    /\ mark' = FALSE /\ successes' = 0
    /\ UNCHANGED <<setting, serveAt, status, archived, everHandled, orphan, overtaken>>

AllServed == /\ \A d \in Delivery : serveAt[d] = "served"
             /\ UNCHANGED callbackVars

CallbackNext ==
    \/ MarkExpires \/ AllServed
    \/ \E d \in Delivery :
         \/ Refuse(d) \/ Archive(d) \/ ArchiveError(d) \/ ClaimEvent(d)
         \/ ClaimEventError(d) \/ Handled(d) \/ NotHandled(d) \/ Forget(d)
         \/ ForgetError(d) \/ ServerDies(d)

CallbackSpec == CallbackInit /\ [][CallbackNext]_callbackVars

-----------------------------------------------------------------------------
(* Properties. *)

\* "2xx when we have it, 5xx when we do not (so it retries)": what was
\* answered 2xx is in the archive, where there is one, and was handled or is
\* being handled, unless a duplicate was answered while the first delivery
\* failed, or the key of a call that died, lost its answer or could not
\* delete it stayed behind.  With the key, no event is handled twice.
CallbackOkMeansHandled ==
    /\ \A d \in Delivery :
         status[d] = "ok" =>
            /\ archiving => d \in archived
            /\ everHandled \/ orphan \/ overtaken \/ \E e \in Delivery : Working(e)
    /\ deduped => /\ successes <= 1
                  /\ \A d, e \in Delivery : Working(d) /\ Working(e) => d = e
                  /\ successes = 1 => \A d \in Delivery : ~Working(d)
=============================================================================
