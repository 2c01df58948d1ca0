----------------------------- MODULE NacosConfig -----------------------------
(***************************************************************************)
(* Following one configuration (nacosx/config.go, nacosx/value.go): the    *)
(* watch all followers share, the goroutines of the SDK's pushes (or the   *)
(* poll of the file, without Nacos), and calls of Watch, each with a Value *)
(* of its own.  Two kinds of locks are held across calls: watch.mu, and    *)
(* each Value's mu, which Watch keeps from its first line to its return.   *)
(*                                                                         *)
(* A content is named by its version, the number of its change on the      *)
(* server.                                                                 *)
(***************************************************************************)
EXTENDS Integers, Sequences, FiniteSets

CONSTANTS
    Caller,        \* calls of Watch, and the Values they make
    Nobody,
    MaxVersion,    \* bound: contents the configuration has
    MaxReadErrors      \* bound: reads and listens that fail

ASSUME NacosConfigAssumption ==
    MaxVersion \in Nat \ {0} /\ MaxReadErrors \in Nat /\ Caller \cap Nat = {} /\ Nobody \notin Caller \cup Nat

DocVersion == 1..MaxVersion
Thread == Caller \cup DocVersion   \* a push is named by the version it brings

VARIABLES
    offline,       \* Client.IsOffline
    doc,           \* what each version is: see Kind
    told,          \* the version the SDK (or the file poll) has last noticed
    overlooked,    \* history: the version pollFile began with, when nobody had
                   \* read it yet
    push,          \* each push's progress
    listened, seen, subs,   \* watch.listening, watch.sum, watch.subs
    wmu,           \* who holds watch.mu
    todo,          \* the subscribers a thread in apply has yet to call
    at,            \* each Watch's place
    got,           \* the content follow returned to it
    cur,           \* the version in effect in its Value, 0 for none
    readErrors

noticed == <<told, overlooked>>
watch == <<listened, seen, subs, wmu>>
configVars == <<offline, doc, noticed, push, watch, todo, at, got, cur, readErrors>>

Kind == {"good",     \* it parses and is valid
         "bad", "blank"}

WatchPlace == {"start", "follow", "apply", "listen", "load", "unfollow", "watching", "failed"}

ConfigTypeOK ==
    /\ offline \in BOOLEAN
    /\ doc \in Seq(Kind) /\ Len(doc) \in DocVersion /\ told \in 0..MaxVersion
    /\ overlooked \in 0..MaxVersion
    /\ push \in [DocVersion -> {"none", "waiting", "applying", "done"}]
    /\ listened \in BOOLEAN /\ seen \in 0..MaxVersion
    /\ subs \in Seq(Caller) /\ wmu \in Thread \cup {Nobody}
    /\ todo \in [Thread -> Seq(Caller)]
    /\ at \in [Caller -> WatchPlace] /\ got \in [Caller -> 0..MaxVersion] /\ cur \in [Caller -> 0..MaxVersion]
    /\ readErrors \in 0..MaxReadErrors

ConfigInit ==
    /\ offline \in BOOLEAN /\ \E k \in Kind : doc = <<k>>
    /\ told = 0 /\ overlooked = 0 /\ push = [n \in DocVersion |-> "none"]
    /\ listened = FALSE /\ seen = 0 /\ subs = <<>> /\ wmu = Nobody
    /\ todo = [t \in Thread |-> <<>>]
    /\ at = [c \in Caller |-> "start"] /\ got = [c \in Caller |-> 0] /\ cur = [c \in Caller |-> 0]
    /\ readErrors = 0

Now == Len(doc)

ReadFails == readErrors < MaxReadErrors /\ readErrors' = readErrors + 1

GoesTo(c, place) == at' = [at EXCEPT ![c] = place]

-----------------------------------------------------------------------------
(* The server, and the goroutines that bring its changes. *)

Change ==
    /\ Now < MaxVersion
    /\ \E k \in Kind : doc' = Append(doc, k)
    /\ UNCHANGED <<offline, noticed, push, watch, todo, at, got, cur, readErrors>>

\* The SDK notices that the server has another content than it knows and
\* calls the listener on a goroutine of its own; pollFile has one for all.
Push ==
    /\ listened /\ told \notin {0, Now}
    /\ offline => \A n \in DocVersion : push[n] \in {"none", "done"}
    /\ told' = Now
    /\ push' = [push EXCEPT ![Now] = "waiting"]
    /\ UNCHANGED <<offline, doc, overlooked, watch, todo, at, got, cur, readErrors>>

\* pollFile looks at the file for the first time, on its own goroutine, and
\* waits for another change than those before.
PollBegins ==
    /\ offline /\ listened /\ told = 0
    /\ told' = Now
    /\ overlooked' = IF seen = Now THEN 0 ELSE Now
    /\ UNCHANGED <<offline, doc, push, watch, todo, at, got, cur, readErrors>>

\* pollFile cannot read the file whose change it noticed: it goes on.
PollError ==
    /\ listened /\ told \notin {0, Now} /\ offline /\ ReadFails
    /\ \A n \in DocVersion : push[n] \in {"none", "done"}
    /\ told' = Now
    /\ UNCHANGED <<offline, doc, overlooked, push, watch, todo, at, got, cur>>

\* apply, under mu, up to its loop over the subscribers.
Apply(t, content) ==
    /\ wmu = Nobody
    /\ seen' = content
    /\ wmu' = t
    /\ todo' = [todo EXCEPT ![t] = IF content = seen THEN <<>> ELSE subs]
    /\ UNCHANGED <<listened, subs>>

ChangedTrusting(n) ==
    /\ push[n] = "waiting" /\ Apply(n, n)
    /\ push' = [push EXCEPT ![n] = "applying"]
    /\ UNCHANGED <<offline, doc, noticed, at, got, cur, readErrors>>

\* watch.changed: "What the server says now cannot be out of date".
Changed(n) ==
    /\ push[n] = "waiting" /\ Apply(n, IF offline THEN n ELSE Now)
    /\ push' = [push EXCEPT ![n] = "applying"]
    /\ UNCHANGED <<offline, doc, noticed, at, got, cur, readErrors>>

\* The server cannot be asked: what was pushed has to do.
ChangedUnread(n) ==
    /\ push[n] = "waiting" /\ ~offline /\ ReadFails /\ Apply(n, n)
    /\ push' = [push EXCEPT ![n] = "applying"]
    /\ UNCHANGED <<offline, doc, noticed, at, got, cur>>

LockedWhileItFollows(c) == at[c] \in {"follow", "apply", "listen", "unfollow"}

\* v.mu, as Watch holds it.
Locked(c) == at[c] \in {"follow", "apply", "listen", "load", "unfollow"}

\* Value.changed, called for the next subscriber: it waits for v.mu, and
\* puts the content into effect unless it is deleted or rejected.
Deliver(t) ==
    LET c == Head(todo[t]) IN
    /\ todo[t] # <<>> /\ ~Locked(c)
    /\ cur' = [cur EXCEPT ![c] = IF doc[seen] = "good" THEN seen ELSE @]
    /\ todo' = [todo EXCEPT ![t] = Tail(@)]
    /\ UNCHANGED <<offline, doc, noticed, push, watch, at, got, readErrors>>

PushEnds(n) ==
    /\ push[n] = "applying" /\ todo[n] = <<>>
    /\ push' = [push EXCEPT ![n] = "done"]
    /\ wmu' = Nobody
    /\ UNCHANGED <<offline, doc, noticed, listened, seen, subs, todo, at, got, cur, readErrors>>

-----------------------------------------------------------------------------
(* Watch: follow, then load. *)

Watch(c) ==
    /\ at[c] = "start" /\ GoesTo(c, "follow")
    /\ UNCHANGED <<offline, doc, noticed, push, watch, todo, got, cur, readErrors>>

FollowAddsFirst(c) ==
    /\ at[c] = "follow" /\ wmu = Nobody
    /\ got' = [got EXCEPT ![c] = Now]
    /\ seen' = Now /\ wmu' = c
    /\ todo' = [todo EXCEPT ![c] = IF Now = seen THEN <<>> ELSE Append(subs, c)]
    /\ GoesTo(c, IF listened THEN "apply" ELSE "listen")
    /\ UNCHANGED <<offline, doc, noticed, push, listened, subs, cur, readErrors>>

\* follow, first half: the content is read; "those who follow already hear
\* of it first", if there are any.
Follow(c) ==
    /\ at[c] = "follow"
    /\ got' = [got EXCEPT ![c] = Now]
    /\ Apply(c, Now)
    /\ GoesTo(c, IF listened THEN "apply" ELSE "listen")
    /\ UNCHANGED <<offline, doc, noticed, push, cur, readErrors>>

FollowError(c) ==
    /\ at[c] = "follow" /\ wmu = Nobody /\ ReadFails
    /\ GoesTo(c, "failed")
    /\ UNCHANGED <<offline, doc, noticed, push, watch, todo, got, cur>>

\* Second half: the subscriber is added, the first one after listen: the SDK
\* begins with the content it has read last, and pollFile will look itself.
Followed(c) ==
    /\ at[c] \in {"apply", "listen"} /\ todo[c] = <<>>
    /\ told' = IF listened \/ offline THEN told ELSE got[c]
    /\ listened' = TRUE /\ wmu' = Nobody
    /\ subs' = Append(subs, c)
    /\ GoesTo(c, "load")
    /\ UNCHANGED <<offline, doc, overlooked, push, seen, todo, got, cur, readErrors>>

ListenError(c) ==
    /\ at[c] = "listen" /\ ~offline /\ ReadFails
    /\ wmu' = Nobody /\ GoesTo(c, "failed")
    /\ UNCHANGED <<offline, doc, noticed, push, listened, seen, subs, todo, got, cur>>

\* load: the first version goes into effect, or Watch fails.
LoadFirst(c) ==
    /\ at[c] = "load"
    /\ IF doc[got[c]] = "good"
       THEN cur' = [cur EXCEPT ![c] = got[c]] /\ GoesTo(c, "watching")
       ELSE UNCHANGED cur /\ GoesTo(c, "unfollow")
    /\ UNCHANGED <<offline, doc, noticed, push, watch, todo, got, readErrors>>

\* unfollow, with v.mu still held: the first entry that is c's goes.
Unfollow(c) ==
    /\ at[c] = "unfollow" /\ wmu = Nobody
    /\ \E i \in 1..Len(subs) :
         /\ subs[i] = c /\ \A j \in 1..(i - 1) : subs[j] # c
         /\ subs' = SubSeq(subs, 1, i - 1) \o SubSeq(subs, i + 1, Len(subs))
    /\ GoesTo(c, "failed")
    /\ UNCHANGED <<offline, doc, noticed, push, listened, seen, wmu, todo, got, cur, readErrors>>

-----------------------------------------------------------------------------
CallerStep(c) ==
    \/ Watch(c) \/ Follow(c) \/ FollowError(c) \/ Followed(c) \/ ListenError(c)
    \/ LoadFirst(c) \/ Unfollow(c)

PushStep(n) == Changed(n) \/ ChangedUnread(n) \/ PushEnds(n)

\* Two threads wait for each other: a Watch whose first version was rejected
\* for watch.mu, and the one that holds it for that Watch's Value.
Embraced(c) ==
    /\ at[c] = "unfollow" /\ wmu # Nobody
    /\ todo[wmu] # <<>> /\ Head(todo[wmu]) = c

\* Everybody is told and no call is under way; or everybody waits for two
\* threads that wait for each other.
AllTold ==
    /\ \/ /\ Now = MaxVersion /\ (listened => told = Now)
          /\ \A c \in Caller : at[c] \in {"watching", "failed"}
          /\ \A n \in DocVersion : push[n] \in {"none", "done"}
       \/ \E c \in Caller : Embraced(c)
    /\ UNCHANGED configVars

ConfigNext ==
    \/ Change \/ Push \/ PollBegins \/ PollError \/ AllTold
    \/ \E n \in DocVersion : PushStep(n)
    \/ \E c \in Caller : CallerStep(c)
    \/ \E t \in Thread : Deliver(t)

ConfigSpec == ConfigInit /\ [][ConfigNext]_configVars

-----------------------------------------------------------------------------
(* Properties. *)

\* Whoever holds watch.mu gets on: the subscriber it calls next is not in a
\* Watch that waits for that lock itself, but in the embrace.  (That there is
\* no other way to get stuck is the run's check for deadlock.)
OnlyTheEmbraceBlocks ==
    wmu # Nobody /\ todo[wmu] # <<>> =>
        LET c == Head(todo[wmu]) IN at[c] \in {"load", "watching", "failed"} \/ Embraced(c)

\* "in the order of the changes", "none is delivered twice": while Nacos can
\* be read the version in effect only moves forward, whichever pushes
\* overtake each other and whoever else begins to follow.
OnlyForward ==
    [][~offline /\ readErrors' = 0 =>
         \A c \in Caller : cur'[c] # cur[c] => cur'[c] > cur[c]]_configVars

\* "a change after that content is delivered, none is lost in between": when
\* nothing is under way and everything could be read, each Value has the
\* newest content there is, unless that one is rejected.  The exception is
\* the poll of a file, without Nacos: a change between follow's reading of
\* the file and pollFile's first look at it is overlooked until the next.
Current ==
    readErrors = 0 /\ listened /\ told = Now /\ overlooked # Now
    /\ (\A n \in DocVersion : push[n] \in {"none", "done"})
    /\ wmu = Nobody
    => \A c \in Caller : at[c] = "watching" /\ doc[Now] = "good" => cur[c] = Now

\* "a change that arrives before the first version is in waits": a Value's
\* change and the Watch that makes the Value never wait for each other.
\* Violated: Watch holds v.mu when it calls unfollow, which needs the mu the
\* push holds while it waits for v.mu.
NoEmbrace == \A c \in Caller : ~Embraced(c)
=============================================================================
