------------------------------ MODULE Discovery ------------------------------
(***************************************************************************)
(* The instances of one service on the calling path (nacosx/naming.go):    *)
(* look-ups (Instances, Lookup) and calls of Subscribe share what the      *)
(* client knows with the pushes of Nacos.  The SDK keeps a list of its     *)
(* own, which an empty push does not replace.                              *)
(***************************************************************************)
EXTENDS Integers, FiniteSets

CONSTANTS
    Lookup, Subscriber,   \* calls of Instances or Lookup, and of Subscribe
    MaxListChanges,       \* bound: changes of the list in Nacos
    MaxNamingFaults       \* bound: calls of the SDK that fail

ASSUME DiscoveryAssumption ==
    Lookup \cap Subscriber = {} /\ MaxListChanges \in Nat /\ MaxNamingFaults \in Nat

VARIABLES
    instances,       \* the list Nacos has
    sdkList,         \* the list of the SDK's cache
    pushing,         \* a list the SDK is calling the callback with
    param,           \* service.param # nil: the SDK follows the service
    subscribing,     \* the calls that hold subMu: one at most
    known, observed, \* service.known, service.seen
    subscribers, heard,   \* service.subs, and the list each was called with last
    callAt, selected,     \* each call's place, and the list it got
    outdated,        \* history: known is of a look-up the SDK's list has overtaken
    listChanges, namingFaults

discoveryVars == <<instances, sdkList, pushing, param, subscribing, known, observed, subscribers,
                   heard, callAt, selected, outdated, listChanges, namingFaults>>

NamingCall == Lookup \cup Subscriber

\* The lists that matter: none, and two that differ.
List == {"empty", "one", "other"}

DiscoveryInit ==
    /\ instances \in {"empty", "one"} /\ sdkList = "empty" /\ pushing = "no"
    /\ param = FALSE /\ subscribing = {} /\ known = "empty" /\ observed = FALSE
    /\ subscribers = {} /\ heard = [c \in Subscriber |-> "empty"]
    /\ callAt = [c \in NamingCall |-> "start"] /\ selected = [c \in Lookup |-> "empty"]
    /\ outdated = FALSE /\ listChanges = 0 /\ namingFaults = 0

CallGoesTo(c, place) == callAt' = [callAt EXCEPT ![c] = place]

NamingFault == namingFaults < MaxNamingFaults /\ namingFaults' = namingFaults + 1

-----------------------------------------------------------------------------
TellsUnlessFirst(list) == observed /\ known # list

\* observe tells the subscribers of a first list and of one that differs.
Tells(list) == ~observed \/ known # list

Observe(list) ==
    /\ observed' = TRUE /\ known' = list
    /\ heard' = [c \in Subscriber |-> IF c \in subscribers /\ Tells(list) THEN list ELSE heard[c]]

-----------------------------------------------------------------------------
(* The SDK and Nacos. *)

ListChanges ==
    /\ listChanges < MaxListChanges /\ listChanges' = listChanges + 1
    /\ instances' \in List \ {instances}
    /\ UNCHANGED <<sdkList, pushing, param, subscribing, known, observed, subscribers, heard,
                   callAt, selected, outdated, namingFaults>>

\* "the SDK keeps the last list when Nacos pushes an empty one"
SdkHears ==
    /\ param /\ pushing = "no" /\ instances \notin {sdkList, "empty"}
    /\ sdkList' = instances /\ pushing' = instances
    /\ UNCHANGED <<instances, param, subscribing, known, observed, subscribers, heard, callAt,
                   selected, outdated, listChanges, namingFaults>>

SdkCalls ==
    /\ pushing # "no" /\ Observe(pushing) /\ pushing' = "no" /\ outdated' = FALSE
    /\ UNCHANGED <<instances, sdkList, param, subscribing, subscribers, callAt, selected,
                   listChanges, namingFaults>>

-----------------------------------------------------------------------------
(* subscribe, with subMu: the first call for a service subscribes to it. *)

AfterSubscribe(c) == IF c \in Lookup THEN "select" ELSE "add"

Subscribed(c) ==
    /\ callAt[c] = "start" /\ subscribing = {}
    /\ IF param
       THEN CallGoesTo(c, AfterSubscribe(c)) /\ UNCHANGED subscribing
       ELSE CallGoesTo(c, "subscribe") /\ subscribing' = {c}
    /\ UNCHANGED <<instances, sdkList, pushing, param, known, observed, subscribers, heard,
                   selected, outdated, listChanges, namingFaults>>

\* The SDK calls the callback from inside Subscribe, if there is a list.
SubscribeNaming(c) ==
    /\ callAt[c] = "subscribe"
    /\ param' = TRUE /\ subscribing' = {} /\ CallGoesTo(c, AfterSubscribe(c)) /\ sdkList' = instances
    /\ IF instances = "empty" THEN UNCHANGED <<known, observed, heard>> ELSE Observe(instances)
    /\ UNCHANGED <<instances, pushing, subscribers, selected, outdated, listChanges, namingFaults>>

SubscribeNamingError(c) ==
    /\ callAt[c] = "subscribe" /\ NamingFault
    /\ subscribing' = {} /\ CallGoesTo(c, "returned")
    /\ UNCHANGED <<instances, sdkList, pushing, param, known, observed, subscribers, heard,
                   selected, outdated, listChanges>>

-----------------------------------------------------------------------------
(* Instances and Lookup: the list of the SDK, and then observe. *)

SelectAllInstances(c) ==
    /\ callAt[c] = "select" /\ CallGoesTo(c, "observe")
    /\ selected' = [selected EXCEPT ![c] = sdkList]
    /\ UNCHANGED <<instances, sdkList, pushing, param, subscribing, known, observed, subscribers,
                   heard, outdated, listChanges, namingFaults>>

SelectError(c) ==
    /\ callAt[c] = "select" /\ NamingFault /\ CallGoesTo(c, "returned")
    /\ UNCHANGED <<instances, sdkList, pushing, param, subscribing, known, observed, subscribers,
                   heard, selected, outdated, listChanges>>

\* "A look-up that finds nothing is not taken as 'all gone'."
ObserveLookup(c) ==
    /\ callAt[c] = "observe" /\ CallGoesTo(c, "returned")
    /\ IF selected[c] = "empty" /\ observed
       THEN UNCHANGED <<known, observed, heard, outdated>>
       ELSE Observe(selected[c]) /\ outdated' = (selected[c] # sdkList)
    /\ UNCHANGED <<instances, sdkList, pushing, param, subscribing, subscribers, selected,
                   listChanges, namingFaults>>

\* Subscribe: fn is added, and called with the list of now, under mu.
AddSubscriber(c) ==
    /\ callAt[c] = "add" /\ CallGoesTo(c, "returned")
    /\ subscribers' = subscribers \cup {c}
    /\ heard' = [heard EXCEPT ![c] = known]
    /\ UNCHANGED <<instances, sdkList, pushing, param, subscribing, known, observed, selected,
                   outdated, listChanges, namingFaults>>

\* The next call of the same caller.
CallAgain(c) ==
    /\ callAt[c] = "returned" /\ c \in Lookup /\ CallGoesTo(c, "start")
    /\ UNCHANGED <<instances, sdkList, pushing, param, subscribing, known, observed, subscribers,
                   heard, selected, outdated, listChanges, namingFaults>>

DiscoveryNext ==
    \/ ListChanges \/ SdkHears \/ SdkCalls
    \/ \E c \in NamingCall : Subscribed(c) \/ SubscribeNaming(c) \/ SubscribeNamingError(c)
    \/ \E c \in Lookup : SelectAllInstances(c) \/ SelectError(c) \/ ObserveLookup(c) \/ CallAgain(c)
    \/ \E c \in Subscriber : AddSubscriber(c)

DiscoverySpec == DiscoveryInit /\ [][DiscoveryNext]_discoveryVars

-----------------------------------------------------------------------------
(* Properties. *)

\* "whenever the list changes, and once with the list of now": when no push
\* is under way, every subscriber was last called with the list look-ups are
\* answered from, whichever of the first look-up, the first push and the
\* subscriber came first; unless a look-up that got its list before a push
\* came to observe after it, which holds until the next look-up or push.
SubscribersHearTheList ==
    param /\ pushing = "no" => outdated \/ \A c \in subscribers : heard[c] = sdkList
=============================================================================
