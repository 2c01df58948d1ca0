------------------------------ MODULE Services -------------------------------
(***************************************************************************)
(* WatchServices (nacosx/services.go): the records of what is alive.  The  *)
(* rounds that look for new names run in one goroutine; the SDK calls      *)
(* update from others.  A service is told by the state of its instances:  *)
(* an overview is the set of the services with a usable one.               *)
(***************************************************************************)
EXTENDS Integers, FiniteSets

CONSTANTS
    Service,
    MaxComings,      \* bound: changes of instances in Nacos
    MaxWatchFaults   \* bound: lists and subscriptions that fail

ASSUME ServicesAssumption == MaxComings \in Nat /\ MaxWatchFaults \in Nat

VARIABLES
    state,           \* what Nacos has of each service
    names,           \* the names Nacos lists
    watchAt,         \* the place of WatchServices and its goroutine
    toSubscribe,     \* the rest of the list a round goes through
    subscribed, shown, ready,   \* serviceWatch.subscribed, known, ready
    followed,        \* the services the SDK pushes the changes of
    overview,        \* the first overview, between the lock and the log
    record,          \* what the last record says is alive
    lateOverview,    \* history: the last record is older than the one before
    comings, watchFaults

servicesVars == <<state, names, watchAt, toSubscribe, subscribed, shown, ready, followed,
                  overview, record, lateOverview, comings, watchFaults>>

State == {"gone", "unusable", "usable"}

ServicesInit ==
    /\ state \in [Service -> {"gone", "usable"}]
    /\ names = {s \in Service : state[s] # "gone"}
    /\ watchAt = "start" /\ toSubscribe = {}
    /\ subscribed = {} /\ shown = [s \in Service |-> "gone"] /\ ready = FALSE
    /\ followed = {} /\ overview = {} /\ record = {} /\ lateOverview = FALSE
    /\ comings = 0 /\ watchFaults = 0

Alive(known) == {s \in Service : known[s] = "usable"}

WatchGoesTo(place) == watchAt' = place

WatchFault == watchFaults < MaxWatchFaults /\ watchFaults' = watchFaults + 1

-----------------------------------------------------------------------------
\* Instances come, go, and become unusable or usable.
InstanceChanges(s) ==
    /\ comings < MaxComings /\ comings' = comings + 1
    /\ \E x \in State \ {state[s]} : state' = [state EXCEPT ![s] = x]
    /\ names' = names \cup {s}
    /\ UNCHANGED <<watchAt, toSubscribe, subscribed, shown, ready, followed, overview, record,
                   lateOverview, watchFaults>>

\* update, under mu: before the first overview nothing is written.  The
\* record is out before that of the first overview if that one was taken.
Update(s, x) ==
    /\ shown' = [shown EXCEPT ![s] = x]
    /\ IF ready /\ shown[s] # x
       THEN record' = Alive(shown') /\ lateOverview' = (watchAt = "writing")
       ELSE UNCHANGED <<record, lateOverview>>

\* The SDK calls the callback of a service it follows: one list after the
\* other.
Pushed(s) ==
    /\ s \in followed /\ shown[s] # state[s]
    /\ Update(s, state[s])
    /\ UNCHANGED <<state, names, watchAt, toSubscribe, subscribed, ready, followed, overview,
                   comings, watchFaults>>

\* A client of its own, then the first round.
WatchServices ==
    /\ watchAt = "start" /\ WatchGoesTo("listing")
    /\ UNCHANGED <<state, names, toSubscribe, subscribed, shown, ready, followed, overview,
                   record, lateOverview, comings, watchFaults>>

\* There is no client: a warning, and no second try.
WatchServicesError ==
    /\ watchAt = "start" /\ WatchFault /\ WatchGoesTo("none")
    /\ UNCHANGED <<state, names, toSubscribe, subscribed, shown, ready, followed, overview,
                   record, lateOverview, comings>>

\* Where a round ends: the first one is followed by the overview, also if it
\* failed.
RoundOver == WatchGoesTo(IF ready THEN "waiting" ELSE "overview")

ListServices ==
    /\ watchAt = "listing" /\ WatchGoesTo("subscribing") /\ toSubscribe' = names
    /\ UNCHANGED <<state, names, subscribed, shown, ready, followed, overview, record,
                   lateOverview, comings, watchFaults>>

ListServicesError ==
    /\ watchAt = "listing" /\ WatchFault /\ RoundOver
    /\ UNCHANGED <<state, names, toSubscribe, subscribed, shown, ready, followed, overview,
                   record, lateOverview, comings>>

\* The SDK calls the callback from inside Subscribe.
SubscribeTo(s) ==
    /\ watchAt = "subscribing" /\ s \in toSubscribe
    /\ toSubscribe' = toSubscribe \ {s}
    /\ IF s \in subscribed
       THEN UNCHANGED <<subscribed, followed, shown, record, lateOverview>>
       ELSE /\ subscribed' = subscribed \cup {s} /\ followed' = followed \cup {s}
            /\ Update(s, state[s])
    /\ UNCHANGED <<state, names, watchAt, ready, overview, comings, watchFaults>>

SubscribeErrorKeepsTheMark(s) ==
    /\ watchAt = "subscribing" /\ s \in toSubscribe \ subscribed /\ WatchFault
    /\ toSubscribe' = {} /\ RoundOver /\ subscribed' = subscribed \cup {s}
    /\ UNCHANGED <<state, names, shown, ready, followed, overview, record, lateOverview, comings>>

\* "the next round tries again"; this one is over.
SubscribeToError(s) ==
    /\ watchAt = "subscribing" /\ s \in toSubscribe \ subscribed /\ WatchFault
    /\ toSubscribe' = {} /\ RoundOver
    /\ UNCHANGED <<state, names, subscribed, shown, ready, followed, overview, record,
                   lateOverview, comings>>

RoundEnds ==
    /\ watchAt = "subscribing" /\ toSubscribe = {} /\ RoundOver
    /\ UNCHANGED <<state, names, toSubscribe, subscribed, shown, ready, followed, overview,
                   record, lateOverview, comings, watchFaults>>

\* Under mu; the record is written after the unlock.
TakeOverview ==
    /\ watchAt = "overview" /\ WatchGoesTo("writing")
    /\ ready' = TRUE /\ overview' = Alive(shown)
    /\ UNCHANGED <<state, names, toSubscribe, subscribed, shown, followed, record, lateOverview,
                   comings, watchFaults>>

WriteOverview ==
    /\ watchAt = "writing" /\ WatchGoesTo("waiting")
    /\ record' = overview
    /\ UNCHANGED <<state, names, toSubscribe, subscribed, shown, ready, followed, overview,
                   lateOverview, comings, watchFaults>>

\* The ticker.
WatchTick ==
    /\ watchAt = "waiting" /\ WatchGoesTo("listing")
    /\ UNCHANGED <<state, names, toSubscribe, subscribed, shown, ready, followed, overview,
                   record, lateOverview, comings, watchFaults>>

\* The client is closed.
WatchStops ==
    /\ watchAt = "waiting" /\ WatchGoesTo("stopped") /\ followed' = {}
    /\ UNCHANGED <<state, names, toSubscribe, subscribed, shown, ready, overview, record,
                   lateOverview, comings, watchFaults>>

WatchOver == watchAt \in {"none", "stopped"} /\ UNCHANGED servicesVars

ServicesNext ==
    \/ WatchServices \/ WatchServicesError \/ ListServices \/ ListServicesError \/ RoundEnds
    \/ TakeOverview \/ WriteOverview \/ WatchTick \/ WatchStops \/ WatchOver
    \/ \E s \in Service :
         InstanceChanges(s) \/ Pushed(s) \/ SubscribeTo(s) \/ SubscribeToError(s)

ServicesSpec == ServicesInit /\ [][ServicesNext]_servicesVars

-----------------------------------------------------------------------------
(* Properties. *)

\* "the last record always says how things are": when no push is under way
\* and every name of the list is subscribed to, the last record has exactly
\* the services with a usable state, whatever lists and subscriptions
\* failed before; unless update wrote its record between the lock under which
\* the first overview was taken and that overview's own record, which is then
\* the last one.
LastRecordSaysHowThingsAre ==
    /\ watchAt = "waiting" /\ names \subseteq subscribed
    /\ \A s \in followed : shown[s] = state[s]
    => record = Alive(state) \/ lateOverview
=============================================================================
