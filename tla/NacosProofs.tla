----------------------------- MODULE NacosProofs -----------------------------
(***************************************************************************)
(* Proofs about the parts that follow Nacos, for any number of look-ups,   *)
(* subscribers, services and Watches and any bounds.                       *)
(***************************************************************************)
EXTENDS NacosConfig, Discovery, Services, SequenceTheorems, TLAPS

(* The records of what is alive. *)

ServicesTypeOK ==
    /\ state \in [Service -> State] /\ shown \in [Service -> State]
    /\ watchAt \in {"start", "none", "listing", "subscribing", "overview", "writing", "waiting",
                    "stopped"}

\* What is marked as subscribed to is followed, until the client is closed,
\* and of nothing else is anything known.
MarkedIsFollowed ==
    /\ followed \subseteq subscribed
    /\ watchAt # "stopped" => subscribed = followed
    /\ \A s \in Service : s \notin names => state[s] = "gone"
    /\ \A s \in Service : s \notin subscribed => shown[s] = "gone"

\* The last record, and the overview on its way to become it, say what is
\* known, unless update overtook the overview.
RecordIsShown ==
    /\ watchAt \in {"writing", "waiting"} => ready
    /\ ready /\ watchAt # "writing" => record = Alive(shown) \/ lateOverview
    /\ watchAt = "writing" => overview = Alive(shown) \/ lateOverview

ServicesInv == ServicesTypeOK /\ MarkedIsFollowed /\ RecordIsShown

\* Nothing is subscribed to before WatchServices.
LEMMA ServicesInitInv == ServicesInit => ServicesInv
BY DEF ServicesInit, ServicesInv, ServicesTypeOK, MarkedIsFollowed, RecordIsShown, State

\* update, from a push or from inside Subscribe.
LEMMA UpdateInv ==
    ASSUME ServicesInv, NEW s \in Service, Update(s, state[s]), UNCHANGED <<watchAt, ready, overview>>
    PROVE  shown' \in [Service -> State] /\ RecordIsShown'
<1> USE DEF ServicesInv, ServicesTypeOK
<1>1. shown' = [shown EXCEPT ![s] = state[s]] /\ shown' \in [Service -> State]
  BY DEF Update
<1>2. CASE ready /\ shown[s] # state[s]
  <2>1. record' = Alive(shown') /\ Alive(shown)' = Alive(shown')
    BY <1>2 DEF Update, Alive
  <2>2. watchAt = "writing" => lateOverview'
    BY <1>2, Zenon DEF Update
  <2> QED
    BY <1>1, <1>2, <2>1, <2>2 DEF RecordIsShown
<1>3. CASE ~ready
  BY <1>1, <1>3 DEF RecordIsShown
<1>4. CASE ready /\ shown[s] = state[s]
  <2>1. shown' = shown /\ Alive(shown)' = Alive(shown)
    BY <1>1, <1>4 DEF Alive
  <2> QED
    BY <1>1, <1>4, <2>1 DEF RecordIsShown, Update
<1> QED
  BY <1>2, <1>3, <1>4

\* Every step of the rounds, of the pushes and of Nacos.
LEMMA ServicesStepInv == ServicesInv /\ [ServicesNext]_servicesVars => ServicesInv'
<1> SUFFICES ASSUME ServicesInv, [ServicesNext]_servicesVars PROVE ServicesInv'
  OBVIOUS
<1> USE DEF ServicesInv, ServicesTypeOK, WatchGoesTo, WatchFault, RoundOver
<1>0. UNCHANGED shown => Alive(shown)' = Alive(shown)
  BY DEF Alive
<1>1. CASE WatchServices \/ WatchServicesError \/ WatchOver \/ UNCHANGED servicesVars
  BY <1>0, <1>1 DEF WatchServices, WatchServicesError, WatchOver, servicesVars,
                    MarkedIsFollowed,
                    RecordIsShown
<1>2. CASE ListServices \/ ListServicesError \/ RoundEnds
  BY <1>0, <1>2 DEF ListServices, ListServicesError, RoundEnds, MarkedIsFollowed, RecordIsShown
<1>3. CASE TakeOverview \/ WriteOverview
  BY <1>0, <1>3 DEF TakeOverview, WriteOverview, MarkedIsFollowed, RecordIsShown
<1>4. CASE WatchTick \/ WatchStops
  BY <1>0, <1>4 DEF WatchTick, WatchStops, MarkedIsFollowed, RecordIsShown
<1>5. ASSUME NEW s \in Service, InstanceChanges(s) PROVE ServicesInv'
  BY <1>0, <1>5 DEF InstanceChanges, State, MarkedIsFollowed, RecordIsShown
<1>6. ASSUME NEW s \in Service, Pushed(s) PROVE ServicesInv'
  <2>1. shown' \in [Service -> State] /\ RecordIsShown'
    BY <1>6, UpdateInv DEF Pushed
  <2> QED
    BY <1>6, <2>1 DEF Pushed, Update, MarkedIsFollowed
<1>7. ASSUME NEW s \in Service, SubscribeTo(s) PROVE ServicesInv'
  <2>1. CASE s \in subscribed
    BY <1>0, <1>7, <2>1 DEF SubscribeTo, MarkedIsFollowed, RecordIsShown
  <2>2. CASE s \notin subscribed
    <3>1. shown' \in [Service -> State] /\ RecordIsShown'
      BY <1>7, <2>2, UpdateInv DEF SubscribeTo
    <3> QED
      BY <1>7, <2>2, <3>1 DEF SubscribeTo, Update, MarkedIsFollowed
  <2> QED
    BY <2>1, <2>2
<1>8. ASSUME NEW s \in Service, SubscribeToError(s) PROVE ServicesInv'
  BY <1>0, <1>8 DEF SubscribeToError, MarkedIsFollowed, RecordIsShown
<1> QED
  BY <1>1, <1>2, <1>3, <1>4, <1>5, <1>6, <1>7, <1>8 DEF ServicesNext

\* For any number of services, any changes and any failed rounds: the last
\* record says how things are, but for the overtaken overview.
THEOREM LastRecord == ServicesSpec => []LastRecordSaysHowThingsAre
<1>1. ServicesInv => LastRecordSaysHowThingsAre
  BY DEF ServicesInv, ServicesTypeOK, MarkedIsFollowed, RecordIsShown, Alive,
         LastRecordSaysHowThingsAre
<1> QED
  BY ServicesInitInv, ServicesStepInv, <1>1, PTL DEF ServicesSpec

-----------------------------------------------------------------------------
(* The instances of one service. *)

DiscoveryTypeOK ==
    /\ instances \in List /\ sdkList \in List /\ known \in List
    /\ pushing \in List \cup {"no"}
    /\ subscribers \subseteq Subscriber /\ heard \in [Subscriber -> List]
    /\ callAt \in [NamingCall -> {"start", "subscribe", "select", "observe", "add", "returned"}]
    /\ selected \in [Lookup -> List]

\* Until the service is subscribed to nothing is known of it, and one call at
\* most is about to subscribe.
FirstSubscribe ==
    /\ \A c \in NamingCall : callAt[c] = "subscribe" => subscribing = {c} /\ ~param
    /\ ~param => /\ known = "empty" /\ sdkList = "empty" /\ pushing = "no"
                 /\ \A c \in NamingCall : callAt[c] \notin {"select", "observe", "add"}

\* The subscribers heard what is known, and that is the SDK's list, or will be
\* when the push has come through.
HeardIsKnown ==
    /\ \A c \in subscribers : heard[c] = known
    /\ pushing # "no" => pushing = sdkList
    /\ param /\ pushing = "no" => outdated \/ known = sdkList

DiscoveryInv == DiscoveryTypeOK /\ FirstSubscribe /\ HeardIsKnown

\* Nobody has asked for the service.
LEMMA DiscoveryInitInv == DiscoveryInit => DiscoveryInv
BY DEF DiscoveryInit, DiscoveryInv, DiscoveryTypeOK, FirstSubscribe, HeardIsKnown, List

\* observe leaves the subscribers with the list, told or not.
LEMMA ObserveTells ==
    ASSUME DiscoveryInv, NEW list \in List, Observe(list), UNCHANGED subscribers
    PROVE  known' = list /\ heard' \in [Subscriber -> List] /\ \A c \in subscribers' : heard'[c] = list
BY DEF Observe, Tells, DiscoveryInv, DiscoveryTypeOK, HeardIsKnown

\* Every step of the calls, of the SDK and of Nacos.
LEMMA DiscoveryStepInv == DiscoveryInv /\ [DiscoveryNext]_discoveryVars => DiscoveryInv'
<1> SUFFICES ASSUME DiscoveryInv, [DiscoveryNext]_discoveryVars PROVE DiscoveryInv'
  OBVIOUS
<1> USE DEF DiscoveryInv, DiscoveryTypeOK, FirstSubscribe, HeardIsKnown, NamingCall, CallGoesTo,
            NamingFault
<1>1. CASE ListChanges
  BY <1>1 DEF ListChanges
<1>2. CASE SdkHears
  BY <1>2 DEF SdkHears, List
<1>3. CASE SdkCalls
  <2>1. /\ known' = pushing /\ heard' \in [Subscriber -> List]
        /\ \A c \in subscribers' : heard'[c] = pushing
    BY <1>3, ObserveTells DEF SdkCalls
  <2> QED
    BY <1>3, <2>1 DEF SdkCalls
<1>4. ASSUME NEW c \in NamingCall, Subscribed(c) PROVE DiscoveryInv'
  BY <1>4 DEF Subscribed, AfterSubscribe
<1>5. ASSUME NEW c \in NamingCall, SubscribeNaming(c) PROVE DiscoveryInv'
  <2>1. CASE instances = "empty"
    BY <1>5, <2>1 DEF SubscribeNaming, AfterSubscribe
  <2>2. CASE instances # "empty"
    <3>1. /\ known' = instances /\ heard' \in [Subscriber -> List]
          /\ \A d \in subscribers' : heard'[d] = instances
      BY <1>5, <2>2, ObserveTells DEF SubscribeNaming
    <3> QED
      BY <1>5, <2>2, <3>1 DEF SubscribeNaming, AfterSubscribe
  <2> QED
    BY <2>1, <2>2
<1>6. ASSUME NEW c \in NamingCall, SubscribeNamingError(c) PROVE DiscoveryInv'
  BY <1>6 DEF SubscribeNamingError
<1>7. ASSUME NEW c \in Lookup, SelectAllInstances(c) PROVE DiscoveryInv'
  BY <1>7 DEF SelectAllInstances
<1>8. ASSUME NEW c \in Lookup, SelectError(c) \/ CallAgain(c) PROVE DiscoveryInv'
  BY <1>8 DEF SelectError, CallAgain
<1>9. ASSUME NEW c \in Lookup, ObserveLookup(c) PROVE DiscoveryInv'
  <2>1. CASE selected[c] = "empty" /\ observed
    BY <1>9, <2>1 DEF ObserveLookup
  <2>2. CASE ~(selected[c] = "empty" /\ observed)
    <3>1. /\ known' = selected[c] /\ heard' \in [Subscriber -> List]
          /\ \A d \in subscribers' : heard'[d] = selected[c]
      BY <1>9, <2>2, ObserveTells DEF ObserveLookup
    <3>2. selected[c] # sdkList => outdated'
      BY <1>9, <2>2, Zenon DEF ObserveLookup
    <3>3. param
      BY <1>9 DEF ObserveLookup
    <3> QED
      BY <1>9, <3>1, <3>2, <3>3 DEF ObserveLookup
  <2> QED
    BY <2>1, <2>2
<1>10. ASSUME NEW c \in Subscriber, AddSubscriber(c) PROVE DiscoveryInv'
  BY <1>10 DEF AddSubscriber
<1>11. CASE UNCHANGED discoveryVars
  BY <1>11 DEF discoveryVars
<1> QED
  BY <1>1, <1>2, <1>3, <1>4, <1>5, <1>6, <1>7, <1>8, <1>9, <1>10, <1>11 DEF DiscoveryNext

\* For any number of look-ups and subscribers: whoever subscribed has been
\* called with the list look-ups are answered from, but for the late look-up.
THEOREM SubscribersHear == DiscoverySpec => []SubscribersHearTheList
<1>1. DiscoveryInv => SubscribersHearTheList
  BY DEF DiscoveryInv, HeardIsKnown, SubscribersHearTheList
<1> QED
  BY DiscoveryInitInv, DiscoveryStepInv, <1>1, PTL DEF DiscoverySpec

-----------------------------------------------------------------------------
(* Following a configuration. *)

\* watch.mu has one holder, in apply, and only its loop has anyone to call.
HolderInv ==
    /\ \A n \in DocVersion : push[n] = "applying" <=> wmu = n
    /\ \A c \in Caller : at[c] \in {"apply", "listen"} <=> wmu = c
    /\ \A t \in Thread : wmu # t => todo[t] = <<>>

\* The subscribers, and those a loop has yet to call, are past follow.
FollowersInv ==
    /\ \A c \in Range(subs) : at[c] \in {"load", "watching", "unfollow", "failed"}
    /\ \A t \in Thread : \A c \in Range(todo[t]) : at[c] \in {"load", "watching", "unfollow", "failed"}
    /\ \A c \in Caller : at[c] \in {"load", "watching", "unfollow"} => c \in Range(subs)
    /\ ~listened => subs = <<>>
    /\ \A c \in Caller : at[c] = "listen" => ~listened /\ todo[c] = <<>>

\* No version is ahead of the server; a push is of a version the SDK has
\* noticed, and the file's poll has one push at a time, its last.
VersionInv ==
    /\ seen <= Now /\ told <= Now
    /\ \A n \in DocVersion : push[n] # "none" => listened /\ n <= told
    /\ offline => \A n \in DocVersion : push[n] \in {"waiting", "applying"} => n = told
    /\ (~listened => told = 0) /\ (listened /\ ~offline => told >= 1)
    /\ \A c \in Caller :
         /\ at[c] \in {"apply", "listen", "load"} => got[c] >= 1 /\ got[c] <= Now
         /\ at[c] \in {"apply", "listen"} => got[c] = seen
         /\ at[c] \in {"apply", "listen", "load", "unfollow", "watching"} => seen >= 1

\* While everything can be read, what was noticed is on its way or was seen,
\* but for a file that changed before pollFile first looked.
ToldInv ==
    readErrors = 0 /\ listened /\ told \notin {0, overlooked} => push[told] = "waiting" \/ seen >= told

Pending(c) == wmu # Nobody /\ c \in Range(todo[wmu])

\* A follower has the content seen last, or is among those to be called.
DeliveredInv ==
    \A c \in Caller :
        /\ at[c] = "load" => got[c] = seen \/ Pending(c)
        /\ at[c] = "watching" /\ doc[seen] = "good" => cur[c] = seen \/ Pending(c)

\* Nothing is in effect before load and, while Nacos can be read, nothing is
\* newer than what the watch has seen.
ForwardInv ==
    /\ \A c \in Caller : at[c] \in {"start", "follow", "apply", "listen", "load"} => cur[c] = 0
    /\ ~offline /\ readErrors = 0 =>
         \A c \in Caller : cur[c] <= seen /\ (at[c] = "load" => got[c] <= seen)

ConfigInv == /\ ConfigTypeOK /\ HolderInv /\ FollowersInv /\ VersionInv
             /\ ToldInv /\ DeliveredInv /\ ForwardInv

\* Nobody is in the empty sequence.
LEMMA RangeEmpty == Range(<<>>) = {}
BY DEF Range

\* What a sequence holds with one more at its end.
LEMMA RangeAppended ==
    ASSUME NEW S, NEW q \in Seq(S), NEW e \in S
    PROVE  Append(q, e) \in Seq(S) /\ Range(Append(q, e)) = Range(q) \cup {e}
<1> DEFINE n == Len(q)
<1>1. /\ Append(q, e) \in Seq(S) /\ Len(Append(q, e)) = n + 1 /\ n \in Nat
      /\ \A i \in 1..n : Append(q, e)[i] = q[i]
      /\ Append(q, e)[n + 1] = e
  BY AppendProperties, LenProperties
<1>2. Range(q) = {q[i] : i \in 1..n} /\ Range(Append(q, e)) = {Append(q, e)[i] : i \in 1..(n + 1)}
  BY <1>1, LenProperties DEF Range
<1>3. 1..(n + 1) = 1..n \cup {n + 1}
  BY <1>1
<1> HIDE DEF n
<1> QED
  BY <1>1, <1>2, <1>3

\* The first of a sequence and the rest.
LEMMA RangeTail ==
    ASSUME NEW S, NEW q \in Seq(S), q # <<>>
    PROVE  /\ Head(q) \in S /\ Head(q) \in Range(q) /\ Tail(q) \in Seq(S)
           /\ Range(Tail(q)) \subseteq Range(q) /\ Range(q) \subseteq Range(Tail(q)) \cup {Head(q)}
<1> DEFINE n == Len(q)
<1>1. /\ Head(q) \in S /\ Tail(q) \in Seq(S) /\ Len(Tail(q)) = n - 1 /\ n \in Nat \ {0}
      /\ \A i \in 1..(n - 1) : Tail(q)[i] = q[i + 1]
  BY HeadTailProperties, EmptySeq
<1>2. Head(q) = q[1]
  OBVIOUS
<1>3. Range(q) = {q[i] : i \in 1..n} /\ Range(Tail(q)) = {Tail(q)[i] : i \in 1..(n - 1)}
  BY <1>1, LenProperties DEF Range
<1>4. \A i \in 1..n : i = 1 \/ (i - 1 \in 1..(n - 1) /\ (i - 1) + 1 = i)
  BY <1>1
<1>5. \A i \in 1..(n - 1) : i + 1 \in 1..n
  BY <1>1
<1>6. 1 \in 1..n
  BY <1>1
<1> HIDE DEF n
<1>7. Range(Tail(q)) \subseteq Range(q)
  BY <1>1, <1>3, <1>5
<1>8. ASSUME NEW x \in Range(q), x # q[1] PROVE x \in Range(Tail(q))
  <2>1. PICK i \in 1..n : x = q[i]
    BY <1>3
  <2>2. i - 1 \in 1..(n - 1) /\ Tail(q)[i - 1] = q[i]
    BY <1>1, <1>4, <1>8, <2>1
  <2> QED
    BY <1>3, <2>1, <2>2
<1> QED
  BY <1>1, <1>2, <1>3, <1>6, <1>7, <1>8

\* A sequence without its i-th.
LEMMA RangeWithout ==
    ASSUME NEW S, NEW q \in Seq(S), NEW i \in 1..Len(q)
    PROVE  LET r == SubSeq(q, 1, i - 1) \o SubSeq(q, i + 1, Len(q)) IN
           /\ r \in Seq(S) /\ Range(r) \subseteq Range(q) /\ Range(q) \subseteq Range(r) \cup {q[i]}
<1> DEFINE n == Len(q)
           a == SubSeq(q, 1, i - 1)
           b == SubSeq(q, i + 1, Len(q))
           r == a \o b
<1>1. n \in Nat /\ i \in Int /\ 1 <= i /\ i <= n /\ \A j \in 1..n : q[j] \in S
  BY LenProperties, ElementOfSeq
<1>2. a \in Seq(S) /\ Len(a) = i - 1 /\ \A j \in 1..(i - 1) : a[j] = q[j]
  <2>1. \A j \in 1..(i - 1) : q[j] \in S
    BY <1>1
  <2>2. /\ a \in Seq(S) /\ Len(a) = (IF 1 <= i - 1 THEN i - 1 - 1 + 1 ELSE 0)
        /\ \A j \in 1..(i - 1 - 1 + 1) : a[j] = q[1 + j - 1]
    BY <1>1, <2>1, SubSeqProperties
  <2> QED
    BY <1>1, <2>2
<1>3. b \in Seq(S) /\ Len(b) = n - i /\ \A j \in 1..(n - i) : b[j] = q[i + j]
  <2>1. \A j \in (i + 1)..n : q[j] \in S
    BY <1>1
  <2>2. /\ b \in Seq(S) /\ Len(b) = (IF i + 1 <= n THEN n - (i + 1) + 1 ELSE 0)
        /\ \A j \in 1..(n - (i + 1) + 1) : b[j] = q[(i + 1) + j - 1]
    BY <1>1, <2>1, SubSeqProperties
  <2> QED
    BY <1>1, <2>2
<1> HIDE DEF a, b
<1>4. r \in Seq(S) /\ Len(r) = n - 1
      /\ \A j \in 1..(n - 1) : r[j] = IF j <= i - 1 THEN a[j] ELSE b[j - (i - 1)]
  <2>1. /\ a \o b \in Seq(S) /\ Len(a \o b) = Len(a) + Len(b)
        /\ \A j \in 1..Len(a) + Len(b) : (a \o b)[j] = IF j <= Len(a) THEN a[j] ELSE b[j - Len(a)]
    BY <1>2, <1>3, ConcatProperties
  <2>2. Len(a) + Len(b) = n - 1
    BY <1>1, <1>2, <1>3
  <2> QED
    BY <1>2, <2>1, <2>2
<1> HIDE DEF r, n
<1>5. \A j \in 1..(n - 1) : r[j] = IF j <= i - 1 THEN q[j] ELSE q[j + 1]
  <2> SUFFICES ASSUME NEW j \in 1..(n - 1) PROVE r[j] = IF j <= i - 1 THEN q[j] ELSE q[j + 1]
    OBVIOUS
  <2>1. CASE j <= i - 1
    BY <1>1, <1>2, <1>4, <2>1
  <2>2. CASE ~(j <= i - 1)
    <3>1. j - (i - 1) \in 1..(n - i) /\ i + (j - (i - 1)) = j + 1
      BY <1>1, <2>2
    <3> QED
      BY <1>3, <1>4, <2>2, <3>1
  <2> QED
    BY <2>1, <2>2
<1>6. Range(q) = {q[j] : j \in 1..n} /\ Range(r) = {r[j] : j \in 1..(n - 1)}
  BY <1>4, LenProperties DEF Range, n
<1>7. Range(r) \subseteq Range(q)
  BY <1>1, <1>5, <1>6
<1>8. ASSUME NEW x \in Range(q), x # q[i] PROVE x \in Range(r)
  <2>1. PICK j \in 1..n : x = q[j]
    BY <1>6
  <2>2. CASE j < i
    BY <1>1, <1>5, <1>6, <2>1, <2>2
  <2>3. CASE j > i
    <3>1. j - 1 \in 1..(n - 1) /\ ~(j - 1 <= i - 1) /\ (j - 1) + 1 = j
      BY <1>1, <2>3
    <3> QED
      BY <1>5, <1>6, <2>1, <3>1
  <2> QED
    BY <1>1, <1>8, <2>1, <2>2, <2>3
<1> QED
  BY <1>4, <1>7, <1>8 DEF r, a, b

\* A push, a Watch and Nobody are told apart.
LEMMA ThreadsDiffer ==
    /\ Nobody \notin Thread /\ Caller \subseteq Thread /\ DocVersion \subseteq Thread
    /\ \A c \in Caller : c \notin DocVersion
BY NacosConfigAssumption DEF Thread, DocVersion

\* What is known of the version in force.
LEMMA NowFacts == ConfigTypeOK => Now \in Nat /\ Now >= 1 /\ Now <= MaxVersion /\ Now \in DocVersion
BY NacosConfigAssumption DEF ConfigTypeOK, Now, DocVersion

\* At first nobody watches and nothing was noticed.
LEMMA ConfigInitInv == ConfigInit => ConfigInv
<1> SUFFICES ASSUME ConfigInit PROVE ConfigInv
  OBVIOUS
<1>1. PICK k \in Kind : doc = <<k>>
  BY DEF ConfigInit
<1>2. doc \in Seq(Kind) /\ Len(doc) = 1
  BY <1>1
<1>3. ConfigTypeOK
  <2>1. subs \in Seq(Caller) /\ todo \in [Thread -> Seq(Caller)] /\ wmu \in Thread \cup {Nobody}
    BY DEF ConfigInit
  <2>2. offline \in BOOLEAN /\ listened \in BOOLEAN
    BY Zenon DEF ConfigInit
  <2> QED
    BY <1>2, <2>1, <2>2, NacosConfigAssumption
    DEF ConfigInit, ConfigTypeOK, DocVersion, WatchPlace
<1>4. HolderInv
  BY ThreadsDiffer DEF ConfigInit, HolderInv
<1>5. FollowersInv
  BY RangeEmpty DEF ConfigInit, FollowersInv
<1>6. VersionInv /\ ToldInv /\ DeliveredInv /\ ForwardInv
  BY <1>2 DEF ConfigInit, VersionInv, ToldInv, DeliveredInv, ForwardInv, Now
<1> QED
  BY <1>3, <1>4, <1>5, <1>6 DEF ConfigInv

\* The server changes, and the SDK or the poll notices.
LEMMA ServerStepInv ==
    ASSUME ConfigInv, Change \/ Push \/ PollBegins \/ PollError \/ AllTold \/ UNCHANGED configVars
    PROVE  ConfigInv'
<1>0. /\ ConfigTypeOK /\ HolderInv /\ FollowersInv /\ VersionInv
      /\ ToldInv /\ DeliveredInv /\ ForwardInv
  BY DEF ConfigInv
<1>n. Now \in Nat /\ Now >= 1 /\ Now <= MaxVersion /\ Now \in DocVersion
  BY <1>0, NowFacts
<1>1. CASE Change
  <2>1. PICK k \in Kind : doc' = Append(doc, k)
    BY <1>1 DEF Change
  <2>2. /\ doc' \in Seq(Kind) /\ Now' = Now + 1 /\ \A i \in 1..Now : doc'[i] = doc[i]
    BY <1>0, <2>1, AppendProperties DEF ConfigTypeOK, Now
  <2>3. Now' \in DocVersion
    BY <1>1, <1>n, <2>2, NacosConfigAssumption DEF Change, DocVersion
  <2>4. UNCHANGED <<offline, told, overlooked, push, listened, seen, subs, wmu, todo, at, got, cur, readErrors>>
    BY <1>1 DEF Change, watch, noticed
  <2>5. ConfigTypeOK'
    BY <1>0, <2>2, <2>3, <2>4 DEF ConfigTypeOK, Now
  <2>6. HolderInv' /\ FollowersInv' /\ ToldInv' /\ ForwardInv'
    BY <1>0, <2>4 DEF HolderInv, FollowersInv, ToldInv, ForwardInv
  <2>7. VersionInv'
    BY <1>0, <1>n, <2>2, <2>4 DEF VersionInv, ConfigTypeOK
  <2>8. DeliveredInv'
    <3> SUFFICES ASSUME NEW c \in Caller
                 PROVE  /\ at'[c] = "load" => got'[c] = seen' \/ Pending(c)'
                        /\ at'[c] = "watching" /\ doc'[seen'] = "good" => cur'[c] = seen' \/ Pending(c)'
      BY DEF DeliveredInv
    <3>1. at[c] = "watching" => seen \in 1..Now
      BY <1>0, <1>n DEF VersionInv, ConfigTypeOK
    <3>2. Pending(c)' = Pending(c)
      BY <2>4 DEF Pending
    <3> QED
      BY <1>0, <2>2, <2>4, <3>1, <3>2 DEF DeliveredInv
  <2> QED
    BY <2>5, <2>6, <2>7, <2>8 DEF ConfigInv
<1>2. CASE Push
  <2>1. told < Now /\ listened
    BY <1>0, <1>2, <1>n DEF Push, VersionInv, ConfigTypeOK
  <2>2. push[Now] = "none"
    BY <1>0, <1>n, <2>1 DEF VersionInv, ConfigTypeOK
  <2>3. /\ UNCHANGED <<offline, doc, overlooked, listened, seen, subs, wmu, todo, at, got, cur, readErrors>>
        /\ told' = Now /\ push' = [push EXCEPT ![Now] = "waiting"] /\ Now' = Now
    BY <1>2 DEF Push, watch, Now
  <2>4. ConfigTypeOK'
    BY <1>0, <1>n, <2>3 DEF ConfigTypeOK
  <2>5. HolderInv'
    BY <1>0, <1>n, <2>2, <2>3 DEF HolderInv, ConfigTypeOK
  <2>6. FollowersInv' /\ ForwardInv'
    BY <1>0, <2>3 DEF FollowersInv, ForwardInv
  <2>7. VersionInv'
    <3>1. \A n \in DocVersion : n \in Nat
      BY DEF DocVersion
    <3>2. \A n \in DocVersion : push'[n] # "none" => n <= told'
      BY <1>0, <1>n, <2>1, <2>3, <3>1 DEF VersionInv, ConfigTypeOK
    <3>3. offline => \A n \in DocVersion : push'[n] \in {"waiting", "applying"} => n = told'
      BY <1>0, <1>2, <1>n, <2>3 DEF Push, ConfigTypeOK
    <3> QED
      BY <1>0, <1>n, <2>1, <2>3, <3>2, <3>3 DEF VersionInv
  <2>8. ToldInv'
    BY <1>0, <1>n, <2>3 DEF ToldInv, ConfigTypeOK
  <2>9. DeliveredInv'
    BY <1>0, <2>3 DEF DeliveredInv, Pending
  <2> QED
    BY <2>4, <2>5, <2>6, <2>7, <2>8, <2>9 DEF ConfigInv
<1>3. CASE PollError
  <2>1. /\ UNCHANGED <<offline, doc, overlooked, push, listened, seen, subs, wmu, todo, at, got, cur>>
        /\ told' = Now /\ readErrors' = readErrors + 1 /\ readErrors < MaxReadErrors /\ Now' = Now
        /\ listened
    BY <1>3 DEF PollError, ReadFails, watch, Now
  <2>2. ConfigTypeOK'
    BY <1>0, <1>n, <2>1, NacosConfigAssumption DEF ConfigTypeOK
  <2>3. HolderInv' /\ FollowersInv'
    BY <1>0, <2>1 DEF HolderInv, FollowersInv
  <2>4. VersionInv'
    <3>1. \A n \in DocVersion : push'[n] # "none" => n <= told'
      BY <1>0, <1>n, <2>1 DEF VersionInv, ConfigTypeOK, DocVersion
    <3>2. \A n \in DocVersion : push'[n] \notin {"waiting", "applying"}
      BY <1>3, <2>1 DEF PollError
    <3> QED
      BY <1>0, <1>n, <2>1, <3>1, <3>2 DEF VersionInv
  <2>5. ToldInv' /\ ForwardInv'
    BY <1>0, <2>1 DEF ToldInv, ForwardInv, ConfigTypeOK
  <2>6. DeliveredInv'
    BY <1>0, <2>1 DEF DeliveredInv, Pending
  <2> QED
    BY <2>2, <2>3, <2>4, <2>5, <2>6 DEF ConfigInv
<1>b. CASE PollBegins
  <2>1. /\ UNCHANGED <<offline, doc, push, listened, seen, subs, wmu, todo, at, got, cur, readErrors>>
        /\ listened /\ told = 0 /\ told' = Now /\ Now' = Now
        /\ overlooked' = IF seen = Now THEN 0 ELSE Now
    BY <1>b DEF PollBegins, watch, Now
  <2>2. ConfigTypeOK'
    BY <1>0, <1>n, <2>1, NacosConfigAssumption DEF ConfigTypeOK
  <2>3. HolderInv' /\ FollowersInv' /\ ForwardInv'
    BY <1>0, <2>1 DEF HolderInv, FollowersInv, ForwardInv
  <2>4. \A n \in DocVersion : push[n] = "none"
    BY <1>0, <2>1 DEF VersionInv, DocVersion
  <2>5. VersionInv'
    BY <1>0, <1>n, <2>1, <2>4 DEF VersionInv
  <2>6. ToldInv'
    BY <1>0, <1>n, <2>1 DEF ToldInv, ConfigTypeOK
  <2>7. DeliveredInv'
    BY <1>0, <2>1 DEF DeliveredInv, Pending
  <2> QED
    BY <2>2, <2>3, <2>5, <2>6, <2>7 DEF ConfigInv
<1>4. CASE AllTold \/ UNCHANGED configVars
  <2>1. UNCHANGED <<offline, doc, told, overlooked, push, listened, seen, subs, wmu, todo, at, got, cur, readErrors>>
    BY <1>4 DEF AllTold, configVars, watch, noticed
  <2> QED
    BY <1>0, <2>1 DEF ConfigInv, ConfigTypeOK, HolderInv, FollowersInv, VersionInv, ToldInv,
                      DeliveredInv, Pending, ForwardInv, Now
<1> QED
  BY <1>1, <1>2, <1>b, <1>3, <1>4

\* apply, up to its loop: nobody was pending, and now every follower is
\* unless it has the content already.
LEMMA ApplyFacts ==
    ASSUME ConfigInv, NEW t \in Thread, NEW x \in 1..Now, Apply(t, x)
    PROVE  /\ seen' = x /\ wmu' = t /\ UNCHANGED <<listened, subs>> /\ wmu = Nobody
           /\ todo' \in [Thread -> Seq(Caller)]
           /\ \A u \in Thread : u # t => todo'[u] = <<>>
           /\ Range(todo'[t]) \subseteq Range(subs)
           /\ subs = <<>> => todo'[t] = <<>>
           /\ x # seen => todo'[t] = subs
           /\ \A c \in Caller : ~Pending(c)
           /\ \A n \in DocVersion : push[n] # "applying"
           /\ \A c \in Caller : at[c] \notin {"apply", "listen"}
<1>0. ConfigTypeOK /\ HolderInv
  BY DEF ConfigInv
<1>1. /\ seen' = x /\ wmu' = t /\ UNCHANGED <<listened, subs>> /\ wmu = Nobody
      /\ todo' = [todo EXCEPT ![t] = IF x = seen THEN <<>> ELSE subs]
  BY DEF Apply
<1>2. todo' \in [Thread -> Seq(Caller)]
  BY <1>0, <1>1 DEF ConfigTypeOK
<1>3. \A u \in Thread : u # t => todo'[u] = <<>>
  BY <1>0, <1>1, ThreadsDiffer DEF HolderInv, ConfigTypeOK
<1>4. todo'[t] = IF x = seen THEN <<>> ELSE subs
  BY <1>0, <1>1 DEF ConfigTypeOK
<1>5. Range(todo'[t]) \subseteq Range(subs)
  BY <1>4, RangeEmpty
<1>6. \A c \in Caller : ~Pending(c)
  BY <1>1 DEF Pending
<1>7. /\ \A n \in DocVersion : push[n] # "applying"
      /\ \A c \in Caller : at[c] \notin {"apply", "listen"}
  BY <1>0, <1>1, ThreadsDiffer DEF HolderInv
<1> QED
  BY <1>1, <1>2, <1>3, <1>4, <1>5, <1>6, <1>7

\* A push is applied, with what the server says or with what it brought.
LEMMA ChangedInv ==
    ASSUME ConfigInv, NEW n \in DocVersion, Changed(n) \/ ChangedUnread(n)
    PROVE  ConfigInv'
<1>0. /\ ConfigTypeOK /\ HolderInv /\ FollowersInv /\ VersionInv
      /\ ToldInv /\ DeliveredInv /\ ForwardInv
  BY DEF ConfigInv
<1>n. Now \in Nat /\ Now >= 1 /\ Now <= MaxVersion /\ Now \in DocVersion /\ n \in Nat
  BY <1>0, NowFacts DEF DocVersion
<1>1. push[n] = "waiting" /\ n >= 1 /\ n <= told /\ told <= Now /\ listened
  BY <1>0 DEF Changed, ChangedUnread, VersionInv, DocVersion
<1>2. PICK x \in 1..Now :
        /\ Apply(n, x) /\ x \in {n, Now}
        /\ readErrors' = 0 => x = IF offline THEN n ELSE Now
  <2>1. Now \in 1..Now /\ n \in 1..Now
    BY <1>0, <1>1, <1>n DEF ConfigTypeOK
  <2>2. CASE Changed(n)
    BY <2>1, <2>2 DEF Changed
  <2>3. CASE ChangedUnread(n)
    BY <1>0, <2>1, <2>3 DEF ChangedUnread, ReadFails, ConfigTypeOK
  <2> QED
    BY <2>2, <2>3
<1>3. n \in Thread /\ ConfigInv
  BY ThreadsDiffer
<1>4. /\ seen' = x /\ wmu' = n /\ UNCHANGED <<listened, subs>> /\ wmu = Nobody
      /\ todo' \in [Thread -> Seq(Caller)]
      /\ \A u \in Thread : u # n => todo'[u] = <<>>
      /\ Range(todo'[n]) \subseteq Range(subs)
      /\ x # seen => todo'[n] = subs
      /\ \A c \in Caller : ~Pending(c)
      /\ \A m \in DocVersion : push[m] # "applying"
      /\ \A c \in Caller : at[c] \notin {"apply", "listen"}
  BY <1>2, <1>3, ApplyFacts
<1>5. /\ UNCHANGED <<offline, doc, told, overlooked, at, got, cur>> /\ Now' = Now
      /\ push' = [push EXCEPT ![n] = "applying"]
      /\ readErrors' \in 0..MaxReadErrors /\ (readErrors' = 0 => readErrors = 0)
  BY <1>0, NacosConfigAssumption DEF Changed, ChangedUnread, ReadFails, noticed, ConfigTypeOK,
                                     Now
<1>6. ConfigTypeOK'
  <2>1. seen' \in 0..MaxVersion /\ wmu' \in Thread
    BY <1>3, <1>4, <1>n, NacosConfigAssumption
  <2>2. push' \in [DocVersion -> {"none", "waiting", "applying", "done"}]
    BY <1>0, <1>5 DEF ConfigTypeOK
  <2> QED
    BY <1>0, <1>4, <1>5, <2>1, <2>2 DEF ConfigTypeOK
<1>7. HolderInv'
  <2>1. \A m \in DocVersion : push'[m] = "applying" <=> m = n
    BY <1>0, <1>4, <1>5 DEF ConfigTypeOK
  <2>2. \A c \in Caller : c # n
    BY ThreadsDiffer
  <2> QED
    BY <1>4, <1>5, <2>1, <2>2 DEF HolderInv
<1>8. FollowersInv'
  BY <1>0, <1>1, <1>3, <1>4, <1>5, RangeEmpty DEF FollowersInv
<1>9. VersionInv'
  <2>1. \A m \in DocVersion : push'[m] # "none" => push[m] # "none"
    BY <1>0, <1>1, <1>5 DEF ConfigTypeOK
  <2>2. \A m \in DocVersion : push'[m] \in {"waiting", "applying"} => push[m] \in {"waiting", "applying"}
    BY <1>0, <1>1, <1>5 DEF ConfigTypeOK
  <2>3. x >= 1 /\ x <= Now
    BY <1>n
  <2> QED
    BY <1>0, <1>4, <1>5, <2>1, <2>2, <2>3 DEF VersionInv
<1>10. ToldInv'
  <2> SUFFICES ASSUME readErrors' = 0 PROVE push'[told'] = "waiting" \/ seen' >= told'
    BY DEF ToldInv
  <2>1. CASE offline
    <3>1. n = told
      BY <1>0, <1>1, <2>1 DEF VersionInv
    <3> QED
      BY <1>2, <1>4, <1>5, <1>n, <2>1, <3>1
  <2>2. CASE ~offline
    BY <1>0, <1>1, <1>2, <1>4, <1>5, <2>2 DEF ConfigTypeOK
  <2> QED
    BY <2>1, <2>2
<1>11. DeliveredInv'
  <2> SUFFICES ASSUME NEW c \in Caller
               PROVE  /\ at'[c] = "load" => got'[c] = seen' \/ Pending(c)'
                      /\ at'[c] = "watching" /\ doc'[seen'] = "good" => cur'[c] = seen' \/ Pending(c)'
    BY DEF DeliveredInv
  <2>1. CASE x = seen
    BY <1>0, <1>4, <1>5, <2>1 DEF DeliveredInv
  <2>2. CASE x # seen
    <3>1. at[c] \in {"load", "watching"} => c \in Range(todo'[n])
      BY <1>0, <1>4, <2>2 DEF FollowersInv
    <3>2. at[c] \in {"load", "watching"} => Pending(c)'
      BY <1>4, <3>1, <1>3, ThreadsDiffer DEF Pending
    <3> QED
      BY <1>5, <3>2
  <2> QED
    BY <2>1, <2>2
<1>12. ForwardInv'
  <2>1. ~offline /\ readErrors' = 0 => x >= seen
    BY <1>0, <1>2, <1>5 DEF VersionInv, ConfigTypeOK
  <2>2. seen \in Int /\ x \in Int /\ \A c \in Caller : cur[c] \in Int /\ got[c] \in Int
    BY <1>0 DEF ConfigTypeOK
  <2> QED
    BY <1>0, <1>4, <1>5, <2>1, <2>2 DEF ForwardInv
<1> QED
  BY <1>6, <1>7, <1>8, <1>9, <1>10, <1>11, <1>12 DEF ConfigInv

\* The next subscriber is called, and a push is through.
LEMMA DeliverInv ==
    ASSUME ConfigInv, NEW t \in Thread, Deliver(t)
    PROVE  ConfigInv'
<1>0. /\ ConfigTypeOK /\ HolderInv /\ FollowersInv /\ VersionInv
      /\ ToldInv /\ DeliveredInv /\ ForwardInv
  BY DEF ConfigInv
<1> DEFINE c == Head(todo[t])
<1>1. /\ todo[t] # <<>> /\ ~Locked(c)
      /\ cur' = [cur EXCEPT ![c] = IF doc[seen] = "good" THEN seen ELSE @]
      /\ todo' = [todo EXCEPT ![t] = Tail(@)]
      /\ UNCHANGED <<offline, doc, told, overlooked, push, listened, seen, subs, wmu, at, got, readErrors>>
  BY DEF Deliver, watch, noticed
<1>2. wmu = t /\ Now' = Now
  BY <1>0, <1>1 DEF HolderInv, Now
<1>3. todo[t] \in Seq(Caller)
  BY <1>0 DEF ConfigTypeOK
<1>4. /\ c \in Caller /\ c \in Range(todo[t]) /\ Tail(todo[t]) \in Seq(Caller)
      /\ Range(Tail(todo[t])) \subseteq Range(todo[t])
      /\ Range(todo[t]) \subseteq Range(Tail(todo[t])) \cup {c}
  BY <1>1, <1>3, RangeTail
<1>5. todo'[t] = Tail(todo[t]) /\ \A u \in Thread : u # t => todo'[u] = todo[u]
  BY <1>0, <1>1 DEF ConfigTypeOK
<1> HIDE DEF c
<1>6. at[c] \in {"watching", "failed"}
  BY <1>0, <1>1, <1>4 DEF FollowersInv, Locked
<1>7. ConfigTypeOK'
  BY <1>0, <1>1, <1>4 DEF ConfigTypeOK
<1>8. HolderInv'
  BY <1>0, <1>1, <1>2, <1>5 DEF HolderInv
<1>9. FollowersInv'
  <2>1. \A u \in Thread : Range(todo'[u]) \subseteq Range(todo[u])
    BY <1>4, <1>5
  <2>2. \A d \in Caller : at[d] = "listen" => todo[d] = <<>> /\ d # t
    BY <1>0, <1>1 DEF FollowersInv
  <2>3. \A d \in Caller : at[d] = "listen" => todo'[d] = <<>>
    BY <1>5, <2>2, ThreadsDiffer
  <2> QED
    BY <1>0, <1>1, <2>1, <2>3 DEF FollowersInv
<1>10. VersionInv' /\ ToldInv'
  BY <1>0, <1>1, <1>2 DEF VersionInv, ToldInv
<1>11. DeliveredInv'
  <2> SUFFICES ASSUME NEW d \in Caller
               PROVE  /\ at'[d] = "load" => got'[d] = seen' \/ Pending(d)'
                      /\ at'[d] = "watching" /\ doc'[seen'] = "good" => cur'[d] = seen' \/ Pending(d)'
    BY DEF DeliveredInv
  <2>1. CASE d = c
    BY <1>0, <1>1, <1>4, <1>6, <2>1 DEF ConfigTypeOK
  <2>2. CASE d # c
    <3>1. Pending(d) => Pending(d)'
      BY <1>1, <1>2, <1>4, <1>5, <2>2 DEF Pending
    <3>2. cur'[d] = cur[d]
      BY <1>0, <1>1, <1>4, <2>2 DEF ConfigTypeOK
    <3> QED
      BY <1>0, <1>1, <3>1, <3>2 DEF DeliveredInv
  <2> QED
    BY <2>1, <2>2
<1>12. ForwardInv'
  <2>1. \A d \in Caller : d # c => cur'[d] = cur[d]
    BY <1>0, <1>1, <1>4 DEF ConfigTypeOK
  <2>2. cur'[c] \in {cur[c], seen} /\ seen \in Int
    BY <1>0, <1>1, <1>4 DEF ConfigTypeOK
  <2> QED
    BY <1>0, <1>1, <1>6, <2>1, <2>2 DEF ForwardInv
<1> QED
  BY <1>7, <1>8, <1>9, <1>10, <1>11, <1>12 DEF ConfigInv

\* A push's loop is over.
LEMMA PushEndsInv ==
    ASSUME ConfigInv, NEW n \in DocVersion, PushEnds(n)
    PROVE  ConfigInv'
<1>0. /\ ConfigTypeOK /\ HolderInv /\ FollowersInv /\ VersionInv
      /\ ToldInv /\ DeliveredInv /\ ForwardInv
  BY DEF ConfigInv
<1>1. /\ push[n] = "applying" /\ todo[n] = <<>> /\ wmu' = Nobody
      /\ push' = [push EXCEPT ![n] = "done"]
      /\ UNCHANGED <<offline, doc, told, overlooked, listened, seen, subs, todo, at, got, cur, readErrors>>
      /\ Now' = Now
  BY DEF PushEnds, noticed, Now
<1>2. wmu = n /\ \A c \in Caller : c # n
  BY <1>0, <1>1, ThreadsDiffer DEF HolderInv
<1>3. \A t \in Thread : todo[t] = <<>>
  BY <1>0, <1>1, <1>2 DEF HolderInv
<1>4. \A c \in Caller : ~Pending(c)
  BY <1>1, <1>2, RangeEmpty DEF Pending
<1>5. /\ ConfigTypeOK'
      /\ \A m \in DocVersion : push'[m] = IF m = n THEN "done" ELSE push[m]
  BY <1>0, <1>1 DEF ConfigTypeOK
<1>6. HolderInv'
  <2>1. \A m \in DocVersion : push'[m] # "applying"
    BY <1>0, <1>2, <1>5 DEF HolderInv
  <2>2. \A c \in Caller : at[c] \notin {"apply", "listen"}
    BY <1>0, <1>2 DEF HolderInv
  <2> QED
    BY <1>1, <1>3, <2>1, <2>2, ThreadsDiffer DEF HolderInv
<1>7. FollowersInv' /\ ForwardInv'
  BY <1>0, <1>1 DEF FollowersInv, ForwardInv
<1>8. VersionInv'
  BY <1>0, <1>1, <1>5 DEF VersionInv
<1>9. ToldInv'
  BY <1>0, <1>1 DEF ToldInv, ConfigTypeOK
<1>10. DeliveredInv'
  BY <1>0, <1>1, <1>4 DEF DeliveredInv
<1> QED
  BY <1>5, <1>6, <1>7, <1>8, <1>9, <1>10 DEF ConfigInv

\* Watch takes v.mu; follow that cannot read, or cannot listen, fails.
LEMMA WatchBeginsOrFailsInv ==
    ASSUME ConfigInv, NEW c \in Caller, Watch(c) \/ FollowError(c) \/ ListenError(c)
    PROVE  ConfigInv'
<1>0. /\ ConfigTypeOK /\ HolderInv /\ FollowersInv /\ VersionInv
      /\ ToldInv /\ DeliveredInv /\ ForwardInv
  BY DEF ConfigInv
<1>1. PICK place \in {"follow", "failed"} : at' = [at EXCEPT ![c] = place]
  BY DEF Watch, FollowError, ListenError, GoesTo
<1>2. /\ UNCHANGED <<offline, doc, told, overlooked, push, listened, seen, subs, todo, got, cur>> /\ Now' = Now
      /\ at[c] \in {"start", "follow", "listen"}
      /\ at[c] = "start" => place = "follow"
      /\ readErrors' \in 0..MaxReadErrors /\ (readErrors' = 0 => readErrors = 0)
  BY <1>0, <1>1, NacosConfigAssumption
     DEF Watch, FollowError, ListenError, GoesTo, ReadFails, watch, noticed, Now, ConfigTypeOK
<1>3. \/ at[c] \in {"start", "follow"} /\ wmu' = wmu
      \/ at[c] = "listen" /\ wmu' = Nobody
  BY DEF Watch, FollowError, ListenError, watch
<1>4. \A d \in Caller : at'[d] = IF d = c THEN place ELSE at[d]
  BY <1>0, <1>1 DEF ConfigTypeOK
<1>5. ConfigTypeOK'
  BY <1>0, <1>1, <1>2, <1>3 DEF ConfigTypeOK, WatchPlace
<1>6. at[c] = "listen" => wmu = c /\ todo[c] = <<>>
  BY <1>0 DEF HolderInv, FollowersInv
<1>7. HolderInv'
  <2>1. CASE at[c] \in {"start", "follow"} /\ wmu' = wmu
    BY <1>0, <1>2, <1>4, <2>1 DEF HolderInv
  <2>2. CASE at[c] = "listen" /\ wmu' = Nobody
    <3>1. \A n \in DocVersion : push[n] # "applying" /\ n # Nobody
      BY <1>0, <1>6, <2>2, ThreadsDiffer DEF HolderInv
    <3>2. \A d \in Caller : d # c => at[d] \notin {"apply", "listen"}
      BY <1>0, <1>6, <2>2 DEF HolderInv
    <3>3. \A t \in Thread : todo[t] = <<>>
      BY <1>0, <1>6, <2>2 DEF HolderInv
    <3>4. \A d \in Caller : d # Nobody
      BY ThreadsDiffer
    <3> QED
      BY <1>2, <1>4, <2>2, <3>1, <3>2, <3>3, <3>4 DEF HolderInv
  <2> QED
    BY <1>3, <2>1, <2>2
<1>8. FollowersInv'
  <2>1. c \notin Range(subs) /\ \A t \in Thread : c \notin Range(todo[t])
    BY <1>0, <1>2 DEF FollowersInv
  <2>2. /\ Range(subs) \subseteq Caller /\ \A t \in Thread : Range(todo[t]) \subseteq Caller
    BY <1>0, RangeOfSeq DEF ConfigTypeOK
  <2> QED
    BY <1>0, <1>2, <1>4, <2>1, <2>2 DEF FollowersInv
<1>9. VersionInv' /\ ToldInv'
  BY <1>0, <1>2, <1>4 DEF VersionInv, ToldInv
<1>10. DeliveredInv'
  <2>1. \A d \in Caller : Pending(d) => Pending(d)'
    BY <1>2, <1>3, <1>6, RangeEmpty DEF Pending
  <2> QED
    BY <1>0, <1>2, <1>4, <2>1 DEF DeliveredInv
<1>11. ForwardInv'
  BY <1>0, <1>2, <1>4 DEF ForwardInv
<1> QED
  BY <1>5, <1>7, <1>8, <1>9, <1>10, <1>11 DEF ConfigInv

\* follow, up to the end of apply's loop.
LEMMA FollowStepInv ==
    ASSUME ConfigInv, NEW c \in Caller, Follow(c)
    PROVE  ConfigInv'
<1>0. /\ ConfigTypeOK /\ HolderInv /\ FollowersInv /\ VersionInv
      /\ ToldInv /\ DeliveredInv /\ ForwardInv
  BY DEF ConfigInv
<1>n. Now \in Nat /\ Now >= 1 /\ Now <= MaxVersion /\ Now \in 1..Now
  BY <1>0, NowFacts
<1>1. PICK place \in {"apply", "listen"} :
        at' = [at EXCEPT ![c] = place] /\ (place = "listen" <=> ~listened)
  BY DEF Follow, GoesTo
<1>2. /\ at[c] = "follow" /\ Apply(c, Now) /\ got' = [got EXCEPT ![c] = Now]
      /\ UNCHANGED <<offline, doc, told, overlooked, push, cur, readErrors>> /\ Now' = Now
  BY DEF Follow, noticed, Now
<1>3. c \in Thread
  BY ThreadsDiffer
<1>4. /\ seen' = Now /\ wmu' = c /\ UNCHANGED <<listened, subs>> /\ wmu = Nobody
      /\ todo' \in [Thread -> Seq(Caller)]
      /\ \A u \in Thread : u # c => todo'[u] = <<>>
      /\ Range(todo'[c]) \subseteq Range(subs)
      /\ subs = <<>> => todo'[c] = <<>>
      /\ Now # seen => todo'[c] = subs
      /\ \A d \in Caller : ~Pending(d)
      /\ \A m \in DocVersion : push[m] # "applying"
      /\ \A d \in Caller : at[d] \notin {"apply", "listen"}
  BY <1>2, <1>3, <1>n, ApplyFacts
<1>5. \A d \in Caller : /\ at'[d] = IF d = c THEN place ELSE at[d]
                        /\ got'[d] = IF d = c THEN Now ELSE got[d]
  BY <1>0, <1>1, <1>2 DEF ConfigTypeOK
<1>6. ConfigTypeOK'
  <2>1. seen' \in 0..MaxVersion /\ wmu' \in Thread /\ Now \in 0..MaxVersion
    BY <1>3, <1>4, <1>n, NacosConfigAssumption
  <2>2. at' \in [Caller -> WatchPlace] /\ got' \in [Caller -> 0..MaxVersion]
    BY <1>0, <1>1, <1>2, <2>1 DEF ConfigTypeOK, WatchPlace
  <2> QED
    BY <1>0, <1>2, <1>4, <2>1, <2>2 DEF ConfigTypeOK
<1>7. HolderInv'
  <2>1. \A m \in DocVersion : m # c
    BY ThreadsDiffer
  <2> QED
    BY <1>2, <1>4, <1>5, <2>1 DEF HolderInv
<1>8. FollowersInv'
  <2>1. c \notin Range(subs) /\ Range(subs) \subseteq Caller
    BY <1>0, <1>2, RangeOfSeq DEF FollowersInv, ConfigTypeOK
  <2>2. \A t \in Thread : Range(todo'[t]) \subseteq Range(subs)
    BY <1>4, RangeEmpty
  <2>3. \A d \in Range(subs) : at'[d] \in {"load", "watching", "unfollow", "failed"}
    BY <1>0, <1>5, <2>1 DEF FollowersInv
  <2>4. \A d \in Caller : at'[d] = "listen" => ~listened' /\ todo'[d] = <<>>
    BY <1>0, <1>1, <1>4, <1>5 DEF FollowersInv
  <2> QED
    BY <1>0, <1>4, <1>5, <2>2, <2>3, <2>4 DEF FollowersInv
<1>9. VersionInv'
  BY <1>0, <1>2, <1>4, <1>5, <1>n DEF VersionInv
<1>10. ToldInv'
  BY <1>0, <1>2, <1>4, <1>n DEF ToldInv, VersionInv, ConfigTypeOK
<1>11. DeliveredInv'
  <2> SUFFICES ASSUME NEW d \in Caller
               PROVE  /\ at'[d] = "load" => got'[d] = seen' \/ Pending(d)'
                      /\ at'[d] = "watching" /\ doc'[seen'] = "good" => cur'[d] = seen' \/ Pending(d)'
    BY DEF DeliveredInv
  <2>1. CASE d = c
    BY <1>5, <2>1
  <2>2. CASE d # c /\ Now = seen
    BY <1>0, <1>2, <1>4, <1>5, <2>2 DEF DeliveredInv
  <2>3. CASE d # c /\ Now # seen
    <3>1. at[d] \in {"load", "watching"} => d \in Range(todo'[c])
      BY <1>0, <1>4, <2>3 DEF FollowersInv
    <3>2. at[d] \in {"load", "watching"} => Pending(d)'
      BY <1>4, <3>1, <1>3, ThreadsDiffer DEF Pending
    <3> QED
      BY <1>5, <2>3, <3>2
  <2> QED
    BY <2>1, <2>2, <2>3
<1>12. ForwardInv'
  <2>1. Now >= seen /\ seen \in Int /\ \A d \in Caller : cur[d] \in Int /\ got[d] \in Int
    BY <1>0, <1>n DEF VersionInv, ConfigTypeOK
  <2> QED
    BY <1>0, <1>2, <1>4, <1>5, <1>n, <2>1 DEF ForwardInv
<1> QED
  BY <1>6, <1>7, <1>8, <1>9, <1>10, <1>11, <1>12 DEF ConfigInv

\* The subscriber is added; the first one listens.
LEMMA FollowedInv ==
    ASSUME ConfigInv, NEW c \in Caller, Followed(c)
    PROVE  ConfigInv'
<1>0. /\ ConfigTypeOK /\ HolderInv /\ FollowersInv /\ VersionInv
      /\ ToldInv /\ DeliveredInv /\ ForwardInv
  BY DEF ConfigInv
<1>1. /\ at[c] \in {"apply", "listen"} /\ todo[c] = <<>>
      /\ told' = (IF listened \/ offline THEN told ELSE got[c])
      /\ listened' = TRUE /\ wmu' = Nobody /\ subs' = Append(subs, c)
      /\ at' = [at EXCEPT ![c] = "load"]
      /\ UNCHANGED <<offline, doc, overlooked, push, seen, todo, got, cur, readErrors>> /\ Now' = Now
  BY DEF Followed, GoesTo, Now
<1>2. wmu = c /\ got[c] = seen /\ seen >= 1 /\ seen <= Now
  BY <1>0, <1>1 DEF HolderInv, VersionInv
<1>3. \A t \in Thread : todo[t] = <<>>
  BY <1>0, <1>1, <1>2 DEF HolderInv
<1>4. \A d \in Caller : ~Pending(d)
  BY <1>1, <1>2, RangeEmpty DEF Pending
<1>5. \A d \in Caller : at'[d] = IF d = c THEN "load" ELSE at[d]
  BY <1>0, <1>1 DEF ConfigTypeOK
<1>6. subs' \in Seq(Caller) /\ Range(subs') = Range(subs) \cup {c} /\ Range(subs) \subseteq Caller
  BY <1>0, <1>1, RangeAppended, RangeOfSeq DEF ConfigTypeOK
<1>7. ConfigTypeOK'
  <2>1. told' \in 0..MaxVersion
    BY <1>0, <1>1 DEF ConfigTypeOK
  <2>2. listened' \in BOOLEAN
    BY <1>1, Zenon
  <2>3. at' \in [Caller -> WatchPlace]
    BY <1>0, <1>1 DEF ConfigTypeOK, WatchPlace
  <2> QED
    BY <1>0, <1>1, <1>6, <2>1, <2>2, <2>3 DEF ConfigTypeOK
<1>8. HolderInv'
  <2>1. \A n \in DocVersion : push[n] # "applying" /\ n # Nobody
    BY <1>0, <1>2, ThreadsDiffer DEF HolderInv
  <2>2. \A d \in Caller : d # Nobody /\ (d # c => at[d] \notin {"apply", "listen"})
    BY <1>0, <1>2, ThreadsDiffer DEF HolderInv
  <2> QED
    BY <1>1, <1>3, <1>5, <2>1, <2>2 DEF HolderInv
<1>9. FollowersInv'
  <2>1. \A t \in Thread : Range(todo'[t]) = {}
    BY <1>1, <1>3, RangeEmpty
  <2>2. \A d \in Range(subs') : at'[d] \in {"load", "watching", "unfollow", "failed"}
    BY <1>0, <1>5, <1>6 DEF FollowersInv
  <2>3. \A d \in Caller : at'[d] \in {"load", "watching", "unfollow"} => d \in Range(subs')
    BY <1>0, <1>5, <1>6 DEF FollowersInv
  <2>4. \A d \in Caller : at'[d] # "listen"
    BY <1>0, <1>2, <1>5 DEF HolderInv
  <2> QED
    BY <1>1, <2>1, <2>2, <2>3, <2>4 DEF FollowersInv
<1>10. VersionInv'
  <2>1. \A n \in DocVersion : push[n] # "none" => listened
    BY <1>0 DEF VersionInv
  <2>2. told' <= Now /\ (~offline => told' >= 1) /\ (listened => told' = told)
    BY <1>0, <1>1, <1>2 DEF VersionInv
  <2>3. \A n \in DocVersion : push'[n] # "none" => listened' /\ n <= told'
    BY <1>0, <1>1, <2>1, <2>2 DEF VersionInv
  <2>4. offline => \A n \in DocVersion : push'[n] \in {"waiting", "applying"} => n = told'
    BY <1>0, <1>1, <2>1, <2>2 DEF VersionInv
  <2>5. \A d \in Caller :
          /\ at'[d] \in {"apply", "listen", "load"} => got'[d] >= 1 /\ got'[d] <= Now'
          /\ at'[d] \in {"apply", "listen"} => got'[d] = seen'
          /\ at'[d] \in {"apply", "listen", "load", "unfollow", "watching"} => seen' >= 1
    BY <1>0, <1>1, <1>2, <1>5 DEF VersionInv
  <2> QED
    BY <1>1, <1>2, <2>2, <2>3, <2>4, <2>5 DEF VersionInv
<1>11. ToldInv'
  BY <1>0, <1>1, <1>2 DEF ToldInv, VersionInv, ConfigTypeOK
<1>12. DeliveredInv'
  BY <1>0, <1>1, <1>2, <1>4, <1>5 DEF DeliveredInv
<1>13. ForwardInv'
  BY <1>0, <1>1, <1>2, <1>5 DEF ForwardInv, ConfigTypeOK
<1> QED
  BY <1>7, <1>8, <1>9, <1>10, <1>11, <1>12, <1>13 DEF ConfigInv

\* The first version, accepted or rejected.
LEMMA LoadFirstInv ==
    ASSUME ConfigInv, NEW c \in Caller, LoadFirst(c)
    PROVE  ConfigInv'
<1>0. /\ ConfigTypeOK /\ HolderInv /\ FollowersInv /\ VersionInv
      /\ ToldInv /\ DeliveredInv /\ ForwardInv
  BY DEF ConfigInv
<1>1. PICK place \in {"watching", "unfollow"} :
        /\ at' = [at EXCEPT ![c] = place]
        /\ cur' = IF place = "watching" THEN [cur EXCEPT ![c] = got[c]] ELSE cur
  BY DEF LoadFirst, GoesTo
<1>2. /\ at[c] = "load"
      /\ UNCHANGED <<offline, doc, told, overlooked, push, listened, seen, subs, wmu, todo, got, readErrors>>
      /\ Now' = Now
  BY DEF LoadFirst, watch, noticed, Now
<1>3. \A d \in Caller :
        /\ at'[d] = IF d = c THEN place ELSE at[d]
        /\ cur'[d] = IF d = c /\ place = "watching" THEN got[c] ELSE cur[d]
  BY <1>0, <1>1 DEF ConfigTypeOK
<1>4. ConfigTypeOK'
  BY <1>0, <1>1, <1>2 DEF ConfigTypeOK, WatchPlace
<1>5. HolderInv'
  BY <1>0, <1>2, <1>3 DEF HolderInv
<1>6. FollowersInv'
  <2>1. Range(subs) \subseteq Caller /\ \A t \in Thread : Range(todo[t]) \subseteq Caller
    BY <1>0, RangeOfSeq DEF ConfigTypeOK
  <2> QED
    BY <1>0, <1>2, <1>3, <2>1 DEF FollowersInv
<1>7. VersionInv' /\ ToldInv'
  BY <1>0, <1>2, <1>3 DEF VersionInv, ToldInv
<1>8. DeliveredInv'
  <2>1. \A d \in Caller : Pending(d)' <=> Pending(d)
    BY <1>2 DEF Pending
  <2> QED
    BY <1>0, <1>2, <1>3, <2>1 DEF DeliveredInv
<1>9. ForwardInv'
  BY <1>0, <1>2, <1>3 DEF ForwardInv
<1> QED
  BY <1>4, <1>5, <1>6, <1>7, <1>8, <1>9 DEF ConfigInv

\* The rejected Watch takes its subscriber out.
LEMMA UnfollowInv ==
    ASSUME ConfigInv, NEW c \in Caller, Unfollow(c)
    PROVE  ConfigInv'
<1>0. /\ ConfigTypeOK /\ HolderInv /\ FollowersInv /\ VersionInv
      /\ ToldInv /\ DeliveredInv /\ ForwardInv
  BY DEF ConfigInv
<1>1. PICK i \in 1..Len(subs) :
        subs[i] = c /\ subs' = SubSeq(subs, 1, i - 1) \o SubSeq(subs, i + 1, Len(subs))
  BY DEF Unfollow
<1>2. /\ at[c] = "unfollow" /\ wmu = Nobody /\ at' = [at EXCEPT ![c] = "failed"]
      /\ UNCHANGED <<offline, doc, told, overlooked, push, listened, seen, wmu, todo, got, cur, readErrors>>
      /\ Now' = Now
  BY DEF Unfollow, GoesTo, noticed, Now
<1>3. /\ subs' \in Seq(Caller) /\ Range(subs') \subseteq Range(subs)
      /\ Range(subs) \subseteq Range(subs') \cup {c}
  BY <1>0, <1>1, RangeWithout DEF ConfigTypeOK
<1>4. \A d \in Caller : at'[d] = IF d = c THEN "failed" ELSE at[d]
  BY <1>0, <1>2 DEF ConfigTypeOK
<1>5. ConfigTypeOK'
  BY <1>0, <1>2, <1>3 DEF ConfigTypeOK, WatchPlace
<1>6. HolderInv'
  BY <1>0, <1>2, <1>4 DEF HolderInv
<1>7. FollowersInv'
  <2>1. Range(subs) \subseteq Caller /\ \A t \in Thread : Range(todo[t]) \subseteq Caller
    BY <1>0, RangeOfSeq DEF ConfigTypeOK
  <2>2. listened
    <3>1. c \in Range(subs)
      BY <1>0, <1>2 DEF FollowersInv
    <3> QED
      BY <1>0, <3>1, RangeEmpty DEF FollowersInv
  <2> QED
    BY <1>0, <1>2, <1>3, <1>4, <2>1, <2>2 DEF FollowersInv
<1>8. VersionInv' /\ ToldInv'
  BY <1>0, <1>2, <1>4 DEF VersionInv, ToldInv
<1>9. DeliveredInv'
  <2>1. \A d \in Caller : Pending(d)' <=> Pending(d)
    BY <1>2 DEF Pending
  <2> QED
    BY <1>0, <1>2, <1>4, <2>1 DEF DeliveredInv
<1>10. ForwardInv'
  BY <1>0, <1>2, <1>4 DEF ForwardInv
<1> QED
  BY <1>5, <1>6, <1>7, <1>8, <1>9, <1>10 DEF ConfigInv

\* Every step of the server, the pushes and the Watches.
LEMMA ConfigStepInv == ConfigInv /\ [ConfigNext]_configVars => ConfigInv'
BY ServerStepInv, ChangedInv, DeliverInv, PushEndsInv, WatchBeginsOrFailsInv, FollowStepInv,
   FollowedInv, LoadFirstInv, UnfollowInv
   DEF ConfigNext, CallerStep, PushStep

\* The inductive invariant holds in every reachable state.
THEOREM ConfigInvariance == ConfigSpec => []ConfigInv
BY ConfigInitInv, ConfigStepInv, PTL DEF ConfigSpec

\* For any number of Watches, changes and failed reads: who holds watch.mu
\* waits for nobody who waits for it, but in the embrace.
THEOREM EmbraceOnly == ConfigSpec => []OnlyTheEmbraceBlocks
<1>1. ConfigInv => OnlyTheEmbraceBlocks
  <2> SUFFICES ASSUME ConfigInv, wmu # Nobody, todo[wmu] # <<>>
               PROVE  at[Head(todo[wmu])] \in {"load", "watching", "failed"} \/ Embraced(Head(todo[wmu]))
    BY DEF OnlyTheEmbraceBlocks
  <2>1. wmu \in Thread /\ todo[wmu] \in Seq(Caller)
    BY DEF ConfigInv, ConfigTypeOK
  <2>2. Head(todo[wmu]) \in Range(todo[wmu])
    BY <2>1, RangeTail
  <2> QED
    BY <2>1, <2>2 DEF ConfigInv, FollowersInv, Embraced
<1> QED
  BY ConfigInvariance, <1>1, PTL

\* When everything was read and nothing is under way, every Value has the
\* newest content, unless it is rejected or was overlooked by the poll of the
\* file.
THEOREM EveryValueIsCurrent == ConfigSpec => []Current
<1>1. ConfigInv => Current
  <2> SUFFICES ASSUME ConfigInv, readErrors = 0, listened, told = Now, overlooked # Now,
                      \A n \in DocVersion : push[n] \in {"none", "done"},
                      wmu = Nobody, NEW c \in Caller, at[c] = "watching", doc[Now] = "good"
               PROVE  cur[c] = Now
    BY DEF Current
  <2>1. ConfigTypeOK /\ VersionInv /\ ToldInv /\ DeliveredInv
    BY DEF ConfigInv
  <2>2. Now \in Nat /\ Now \in DocVersion
    BY <2>1, NowFacts
  <2>3. seen = Now
    BY <2>1, <2>2 DEF ToldInv, VersionInv, ConfigTypeOK
  <2> QED
    BY <2>1, <2>3 DEF DeliveredInv, Pending
<1> QED
  BY ConfigInvariance, <1>1, PTL

\* While Nacos can be read, the version in effect only moves forward.
THEOREM ForwardOnly == ConfigSpec => OnlyForward
<1> DEFINE A == ~offline /\ readErrors' = 0 =>
                  \A c \in Caller : cur'[c] # cur[c] => cur'[c] > cur[c]
<1>1. ASSUME ConfigInv, ConfigNext PROVE A
  <2>0. ConfigTypeOK /\ FollowersInv /\ VersionInv /\ ForwardInv /\ HolderInv
    BY <1>1 DEF ConfigInv
  <2>1. CASE cur' = cur
    BY <2>1
  <2>2. ASSUME NEW t \in Thread, Deliver(t) PROVE A
    <3> DEFINE d == Head(todo[t])
    <3>1. /\ todo[t] # <<>> /\ readErrors' = readErrors
          /\ cur' = [cur EXCEPT ![d] = IF doc[seen] = "good" THEN seen ELSE @]
      BY <2>2 DEF Deliver
    <3>2. todo[t] \in Seq(Caller)
      BY <2>0 DEF ConfigTypeOK
    <3>3. d \in Caller
      BY <3>1, <3>2, RangeTail
    <3>4. seen \in Int /\ \A c \in Caller : cur[c] \in Int
      BY <2>0 DEF ConfigTypeOK
    <3> HIDE DEF d
    <3>5. \A c \in Caller : cur'[c] \in {cur[c], seen}
      BY <2>0, <3>1, <3>3 DEF ConfigTypeOK
    <3> QED
      BY <2>0, <3>1, <3>4, <3>5 DEF ForwardInv
  <2>3. ASSUME NEW c \in Caller, LoadFirst(c) PROVE A
    <3>1. at[c] = "load" /\ cur' \in {cur, [cur EXCEPT ![c] = got[c]]}
      BY <2>3 DEF LoadFirst
    <3>2. cur[c] = 0 /\ got[c] >= 1
      BY <2>0, <3>1 DEF ForwardInv, VersionInv
    <3>3. got[c] \in Int /\ \A d \in Caller : cur'[d] # cur[d] => d = c /\ cur'[d] = got[c]
      BY <2>0, <3>1 DEF ConfigTypeOK
    <3> QED
      BY <3>2, <3>3
  <2> QED
    BY <1>1, <2>1, <2>2, <2>3
       DEF ConfigNext, CallerStep, PushStep, Change, Push, PollBegins, PollError, AllTold,
           configVars, Changed, ChangedUnread, PushEnds, Watch, Follow, FollowError, Followed, ListenError, Unfollow
<1>2. ConfigInv /\ [ConfigNext]_configVars => [A]_configVars
  BY <1>1
<1> QED
  BY ConfigInvariance, <1>2, PTL DEF ConfigSpec, OnlyForward
=============================================================================
