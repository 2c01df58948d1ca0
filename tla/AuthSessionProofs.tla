-------------------------- MODULE AuthSessionProofs -------------------------
(***************************************************************************)
(* Proofs about AuthSession for any sets of sessions, tokens and workers   *)
(* and any bounds: any number of logins, refreshes, logouts and            *)
(* revocations under way at once, each of which may stop anywhere.         *)
(*                                                                         *)
(* The first lemmas say field by field what a step does to the operations; *)
(* the steps below reason from them and never expand op' themselves.       *)
(***************************************************************************)
EXTENDS AuthSession, FiniteSetTheorems, TLAPS

USE AuthAssumption, ReasonAssumption

OpsOK == op \in [Worker -> Op]

KeysOK ==
    /\ current \in Session \cup {NoSession}
    /\ listed \subseteq Session /\ alive \subseteq Session /\ born \subseteq Session
    /\ ended \in [Session -> Reason]
    /\ refresh \subseteq Token /\ used \subseteq Token /\ blacklist \subseteq Token
    /\ sessionOf \in [Token -> Session \cup {NoSession}]
    /\ calls \in 0..MaxCalls /\ errors \in 0..MaxErrors
    /\ exchanges \in [Token -> Nat] /\ doubled \subseteq Token

FlagsOK == single \in BOOLEAN /\ overlapped \in BOOLEAN /\ raced \in BOOLEAN

\* The places where an operation holds a session, and where it holds a token.
LoggingIn == {"login.get", "login.end", "login.unlist", "login.start"}

HasSession == {"login.get", "login.end", "login.unlist", "login.start", "issue",
               "refresh.alive", "refresh.drop", "refresh.rotate",
               "logout.end", "logout.current", "logout.clear", "logout.unlist", "logout.drop"}

HasToken == {"refresh.get", "refresh.used", "refresh.alive", "refresh.drop", "refresh.rotate",
             "logout.get", "logout.end", "logout.current", "logout.clear", "logout.unlist",
             "logout.drop", "logout.blacklist"}

\* An operation has what its next round trip needs.
PlaceInv ==
    \A w \in Worker :
      /\ op[w].at \in HasSession => op[w].session \in Session
      /\ op[w].at \in {"login.end", "login.unlist"} => op[w].old \in Session
      /\ op[w].at \in HasToken => op[w].token \in Issued

\* Nothing is known of a session before it is drawn.
BornInv ==
    /\ alive \subseteq born /\ current \in born \cup {NoSession}
    /\ \A t \in Token : sessionOf[t] \in born \cup {NoSession}
    /\ \A w \in Worker : /\ op[w].session \in born \cup {NoSession}
                         /\ op[w].old \in born \cup {NoSession}
    /\ refresh \subseteq Issued /\ used \subseteq Issued

\* A login's session is its own until it starts: no key, no token and no
\* other operation knows it.
FreshInv ==
    \A w \in Worker : op[w].at \in LoggingIn =>
      /\ op[w].session \notin alive /\ op[w].session # current
      /\ \A t \in Token : sessionOf[t] # op[w].session
      /\ \A v \in Worker : /\ v # w => op[v].session # op[w].session
                           /\ op[v].old # op[w].session

\* A session is taken off the set only after it ended.
UnlistInv ==
    \A w \in Worker :
      /\ op[w].at = "login.unlist" => op[w].old \notin alive
      /\ op[w].at \in {"logout.current", "logout.clear", "logout.unlist"}
           => op[w].session \notin alive

\* Without the race, a revocation has what is left alive before it, and has
\* nothing left when it clears the set.
RevokeInv ==
    (errors = 0 /\ ~raced) =>
      /\ alive \subseteq listed
      /\ \A w \in Worker : /\ op[w].at = "revoke.end" => alive \subseteq op[w].todo
                           /\ op[w].at = "revoke.clear" => alive = {}

\* Operations that follow one another: one is under way, and none raced.
AloneInv ==
    ~overlapped => /\ ~raced
                   /\ \A v, w \in Worker : op[v].at # "idle" /\ op[w].at # "idle" => v = w

\* Under single_session, the only session alive is the current one.
SingleInv ==
    (single /\ ~overlapped /\ errors = 0) =>
      /\ alive \subseteq {current}
      /\ \A w \in Worker : /\ op[w].at = "login.end" => op[w].old = current
                           /\ op[w].at \in {"login.unlist", "login.start"} => alive = {}
                           /\ op[w].at = "logout.clear" => op[w].session = current

\* A logout by itself: it finds the session it promised to end, and ends it.
LogoutInv ==
    (~overlapped /\ errors = 0) =>
      \A w \in Worker :
        /\ op[w].at = "logout.get" =>
             \/ op[w].promise = {}
             \/ op[w].token \in refresh /\ op[w].promise = {sessionOf[op[w].token]}
        /\ op[w].at = "logout.end" => op[w].promise \subseteq {op[w].session}
        /\ op[w].at \in {"logout.current", "logout.clear", "logout.unlist", "logout.drop",
                         "logout.blacklist"} => op[w].promise \cap alive = {}

\* An exchanged token is not in the store, and does not come back.
SpentInv == \A t \in Token : exchanges[t] > 0 => t \in used \ refresh

\* Who is about to exchange a token is the first and the only one, unless the
\* race happened.
OnceInv ==
    /\ \A w \in Worker, t \in Token : HasRead(w, t) => exchanges[t] = 0 \/ t \in doubled
    /\ \A v, w \in Worker, t \in Token : HasRead(v, t) /\ HasRead(w, t) => v = w \/ t \in doubled

AuthInv == /\ KeysOK /\ FlagsOK /\ OpsOK /\ PlaceInv /\ BornInv /\ FreshInv /\ SpentInv
           /\ OnceInv /\ ExchangedOnce /\ UnlistInv /\ RevokeInv /\ AloneInv /\ SingleInv /\ LogoutInv

-----------------------------------------------------------------------------
(* What the steps do to the operations. *)

\* What Op says of one operation.
LEMMA OpFields ==
    ASSUME OpsOK, NEW w \in Worker
    PROVE  /\ op[w].session \in Session \cup {NoSession}
           /\ op[w].old \in Session \cup {NoSession} /\ op[w].token \in Token \cup {NoToken}
           /\ op[w].todo \subseteq Session /\ op[w].reason \in Reason
           /\ op[w].promise \subseteq Session
BY DEF OpsOK, Op

\* The operation goes on to its next round trip.
LEMMA GotoOp ==
    ASSUME OpsOK, NEW w \in Worker, NEW there, Goto(w, there)
    PROVE  /\ op'[w].at = there
           /\ op'[w].session = op[w].session /\ op'[w].old = op[w].old /\ op'[w].token = op[w].token
           /\ op'[w].todo = op[w].todo /\ op'[w].promise = op[w].promise
           /\ \A v \in Worker : v # w => op'[v] = op[v]
BY DEF OpsOK, Op, Goto

\* The operation is over.
LEMMA DoneOp ==
    ASSUME OpsOK, NEW w \in Worker, Done(w)
    PROVE  /\ OpsOK' /\ op'[w].at = "idle"
           /\ op'[w].session = NoSession /\ op'[w].old = NoSession /\ op'[w].token = NoToken
           /\ op'[w].todo = {} /\ op'[w].promise = {}
           /\ \A v \in Worker : v # w => op'[v] = op[v]
BY DEF OpsOK, Op, Reason, Done, Idle

\* Wherever it goes on to, it is an operation still.
LEMMA GotoOK ==
    ASSUME OpsOK, NEW w \in Worker, NEW there, Goto(w, there),
           there \in {"login.unlist", "login.start", "issue", "refresh.used", "refresh.drop",
                      "refresh.rotate", "logout.current", "logout.clear", "logout.unlist",
                      "logout.drop", "logout.blacklist", "revoke.clear"}
    PROVE  OpsOK'
BY DEF OpsOK, Op, Goto

\* An operation is called.
LEMMA CallOp ==
    ASSUME OpsOK, NEW w \in Worker, NEW o \in Op, Call(w, o)
    PROVE  /\ OpsOK' /\ op[w].at = "idle" /\ op'[w] = o
           /\ \A v \in Worker : v # w => op'[v] = op[v]
           /\ calls < MaxCalls /\ calls' = calls + 1 /\ UNCHANGED <<single, errors, exchanges, doubled, raced>>
BY DEF OpsOK, Call, At

\* Login is called: it draws a session of its own.
LEMMA CallLoginOp ==
    ASSUME OpsOK, NEW w \in Worker, CallLogin(w)
    PROVE  \E s \in Session \ born :
             /\ born' = born \cup {s} /\ OpsOK' /\ op[w].at = "idle"
             /\ op'[w].at \in {"login.get", "login.start"}
             /\ single => op'[w].at = "login.get"
             /\ op'[w].session = s /\ op'[w].old = NoSession /\ op'[w].token = NoToken
             /\ op'[w].promise = {}
             /\ \A v \in Worker : v # w => op'[v] = op[v]
             /\ calls < MaxCalls /\ calls' = calls + 1
             /\ UNCHANGED <<keys, sessionOf, single, errors, exchanges, doubled, raced>>
<1>1. PICK s \in Session \ born :
        /\ born' = born \cup {s}
        /\ Call(w, [Idle EXCEPT !.at = IF single THEN "login.get" ELSE "login.start",
                                !.session = s])
  BY DEF CallLogin
<1> DEFINE o == [Idle EXCEPT !.at = IF single THEN "login.get" ELSE "login.start", !.session = s]
<1>2. /\ o \in Op /\ o.at \in {"login.get", "login.start"} /\ (single => o.at = "login.get")
      /\ o.session = s /\ o.old = NoSession /\ o.token = NoToken /\ o.promise = {}
  BY DEF Op, Idle, Reason
<1>3. Call(w, o)
  BY <1>1
<1> HIDE DEF o
<1>4. /\ OpsOK' /\ op[w].at = "idle" /\ op'[w] = o /\ \A v \in Worker : v # w => op'[v] = op[v]
      /\ calls < MaxCalls /\ calls' = calls + 1 /\ UNCHANGED <<single, errors, exchanges, doubled, raced>>
  BY <1>2, <1>3, CallOp
<1>5. UNCHANGED <<keys, sessionOf>>
  BY DEF CallLogin
<1> QED
  BY <1>1, <1>2, <1>4, <1>5

\* Refresh is called with a token that was issued.
LEMMA CallRefreshOp ==
    ASSUME OpsOK, KeysOK, NEW w \in Worker, CallRefresh(w)
    PROVE  \E t \in Issued :
             /\ OpsOK' /\ op[w].at = "idle" /\ op'[w].at = "refresh.get"
             /\ op'[w].session = NoSession /\ op'[w].old = NoSession
             /\ op'[w].token = t
             /\ \A v \in Worker : v # w => op'[v] = op[v]
             /\ calls < MaxCalls /\ calls' = calls + 1
             /\ UNCHANGED <<keys, sessionOf, born, single, errors, exchanges, doubled, raced>>
<1>1. PICK t \in Issued : Call(w, [Idle EXCEPT !.at = "refresh.get", !.token = t,
                                   !.promise = IF t \in used THEN alive ELSE {}])
  BY DEF CallRefresh
<1> DEFINE o == [Idle EXCEPT !.at = "refresh.get", !.token = t,
                                   !.promise = IF t \in used THEN alive ELSE {}]
<1>2. /\ o \in Op /\ o.at = "refresh.get" /\ o.session = NoSession /\ o.old = NoSession
      /\ o.token = t
  BY DEF Op, Idle, Reason, KeysOK, Issued
<1>3. Call(w, o)
  BY <1>1
<1> HIDE DEF o
<1>4. /\ OpsOK' /\ op[w].at = "idle" /\ op'[w] = o /\ \A v \in Worker : v # w => op'[v] = op[v]
      /\ calls < MaxCalls /\ calls' = calls + 1 /\ UNCHANGED <<single, errors, exchanges, doubled, raced>>
  BY <1>2, <1>3, CallOp
<1>5. UNCHANGED <<keys, sessionOf, born>>
  BY DEF CallRefresh
<1> QED
  BY <1>1, <1>2, <1>4, <1>5

\* Logout is called with a token that was issued.
LEMMA CallLogoutOp ==
    ASSUME OpsOK, KeysOK, NEW w \in Worker, CallLogout(w)
    PROVE  \E t \in Issued :
             /\ OpsOK' /\ op[w].at = "idle" /\ op'[w].at = "logout.get"
             /\ op'[w].session = NoSession /\ op'[w].old = NoSession
             /\ op'[w].token = t
             /\ \/ op'[w].promise = {}
                \/ t \in refresh /\ op'[w].promise = {sessionOf[t]}
             /\ \A v \in Worker : v # w => op'[v] = op[v]
             /\ calls < MaxCalls /\ calls' = calls + 1
             /\ UNCHANGED <<keys, sessionOf, born, single, errors, exchanges, doubled, raced>>
<1>1. PICK t \in Issued : Call(w, [Idle EXCEPT !.at = "logout.get", !.token = t,
                                   !.promise = IF t \in refresh THEN {sessionOf[t]} ELSE {}])
  BY DEF CallLogout
<1> DEFINE o == [Idle EXCEPT !.at = "logout.get", !.token = t,
                                   !.promise = IF t \in refresh THEN {sessionOf[t]} ELSE {}]
<1>2. /\ o \in Op /\ o.at = "logout.get" /\ o.session = NoSession /\ o.old = NoSession
      /\ o.token = t /\ (o.promise = {} \/ (t \in refresh /\ o.promise = {sessionOf[t]}))
  BY DEF Op, Idle, Reason, KeysOK, Issued
<1>3. Call(w, o)
  BY <1>1
<1> HIDE DEF o
<1>4. /\ OpsOK' /\ op[w].at = "idle" /\ op'[w] = o /\ \A v \in Worker : v # w => op'[v] = op[v]
      /\ calls < MaxCalls /\ calls' = calls + 1 /\ UNCHANGED <<single, errors, exchanges, doubled, raced>>
  BY <1>2, <1>3, CallOp
<1>5. UNCHANGED <<keys, sessionOf, born>>
  BY DEF CallLogout
<1> QED
  BY <1>1, <1>2, <1>4, <1>5

\* RevokeAll is called.
LEMMA CallRevokeAllOp ==
    ASSUME OpsOK, KeysOK, NEW w \in Worker, CallRevokeAll(w)
    PROVE  \E reason \in GivenReason :
             /\ OpsOK' /\ op[w].at = "idle" /\ op'[w].at = "revoke.list"
             /\ op'[w].session = NoSession /\ op'[w].old = NoSession
             /\ op'[w].promise = alive
             /\ \A v \in Worker : v # w => op'[v] = op[v]
             /\ calls < MaxCalls /\ calls' = calls + 1
             /\ UNCHANGED <<keys, sessionOf, born, single, errors, exchanges, doubled, raced>>
<1>1. PICK reason \in GivenReason : Call(w, [Idle EXCEPT !.at = "revoke.list", !.reason = reason, !.promise = alive])
  BY DEF CallRevokeAll
<1> DEFINE o == [Idle EXCEPT !.at = "revoke.list", !.reason = reason, !.promise = alive]
<1>2. /\ o \in Op /\ o.at = "revoke.list" /\ o.session = NoSession /\ o.old = NoSession
      /\ o.promise = alive
  BY DEF Op, Idle, Reason, KeysOK
<1>3. Call(w, o)
  BY <1>1
<1> HIDE DEF o
<1>4. /\ OpsOK' /\ op[w].at = "idle" /\ op'[w] = o /\ \A v \in Worker : v # w => op'[v] = op[v]
      /\ calls < MaxCalls /\ calls' = calls + 1 /\ UNCHANGED <<single, errors, exchanges, doubled, raced>>
  BY <1>2, <1>3, CallOp
<1>5. UNCHANGED <<keys, sessionOf, born>>
  BY DEF CallRevokeAll
<1> QED
  BY <1>1, <1>2, <1>4, <1>5

\* Login reads the previous session.
LEMMA LoginGetOp ==
    ASSUME OpsOK, KeysOK, NEW w \in Worker, LoginGet(w)
    PROVE  /\ op[w].at = "login.get"
           /\ op'[w].at = (IF current = NoSession THEN "login.start" ELSE "login.end")
           /\ op'[w].session = op[w].session /\ op'[w].old = current /\ op'[w].token = op[w].token
           /\ op'[w].todo = op[w].todo /\ op'[w].promise = op[w].promise
           /\ \A v \in Worker : v # w => op'[v] = op[v]
           /\ OpsOK' /\ UNCHANGED <<keys, sessionOf, born, count, history>>
BY DEF OpsOK, KeysOK, Op, LoginGet, At

\* Refresh reads the token's record.
LEMMA RefreshGetOp ==
    ASSUME OpsOK, KeysOK, NEW w \in Worker, RefreshGet(w)
    PROVE  /\ op[w].at = "refresh.get"
           /\ op'[w].at = (IF op[w].token \in refresh THEN "refresh.alive" ELSE "refresh.used")
           /\ op'[w].session = (IF op[w].token \in refresh THEN sessionOf[op[w].token] ELSE op[w].session)
           /\ op'[w].old = op[w].old /\ op'[w].token = op[w].token
           /\ op'[w].todo = op[w].todo /\ op'[w].promise = op[w].promise
           /\ \A v \in Worker : v # w => op'[v] = op[v]
           /\ OpsOK' /\ UNCHANGED <<keys, sessionOf, born, count, exchanges, overlapped, raced>>
           /\ doubled' = (IF op[w].token \in refresh /\ \E v \in Worker : HasRead(v, op[w].token)
                          THEN doubled \cup {op[w].token} ELSE doubled)
BY DEF OpsOK, KeysOK, Op, RefreshGet, At, Goto

\* Logout reads the token's record.
LEMMA LogoutGetOp ==
    ASSUME OpsOK, KeysOK, NEW w \in Worker, LogoutGet(w)
    PROVE  /\ op[w].at = "logout.get"
           /\ op'[w].at = (IF op[w].token \in refresh THEN "logout.end" ELSE "logout.blacklist")
           /\ op'[w].session = (IF op[w].token \in refresh THEN sessionOf[op[w].token] ELSE op[w].session)
           /\ op'[w].old = op[w].old /\ op'[w].token = op[w].token
           /\ op'[w].todo = op[w].todo /\ op'[w].promise = op[w].promise
           /\ \A v \in Worker : v # w => op'[v] = op[v]
           /\ OpsOK' /\ UNCHANGED <<keys, sessionOf, born, count, history>>
BY DEF OpsOK, KeysOK, Op, LogoutGet, At, Goto

\* Refresh looks whether the token was exchanged before.
LEMMA RefreshUsedOp ==
    ASSUME OpsOK, KeysOK, NEW w \in Worker, RefreshUsed(w)
    PROVE  /\ op[w].at = "refresh.used"
           /\ op'[w].at \in {"idle", "revoke.list"}
           /\ op'[w].session \in {op[w].session, NoSession} /\ op'[w].old \in {op[w].old, NoSession}
           /\ \A v \in Worker : v # w => op'[v] = op[v]
           /\ OpsOK' /\ UNCHANGED <<keys, sessionOf, born, count, history>>
BY DEF OpsOK, KeysOK, Op, RefreshUsed, At, Done, Idle, Reason

\* RevokeAll reads the set.
LEMMA RevokeListOp ==
    ASSUME OpsOK, KeysOK, NEW w \in Worker, RevokeList(w)
    PROVE  /\ op[w].at = "revoke.list"
           /\ op'[w].at = (IF listed = {} THEN "revoke.clear" ELSE "revoke.end")
           /\ op'[w].session = op[w].session /\ op'[w].old = op[w].old
           /\ op'[w].todo = listed /\ op'[w].promise = op[w].promise
           /\ \A v \in Worker : v # w => op'[v] = op[v]
           /\ OpsOK' /\ UNCHANGED <<keys, sessionOf, born, count, history>>
<1> DEFINE there == IF listed = {} THEN "revoke.clear" ELSE "revoke.end"
<1>1. /\ op[w].at = "revoke.list" /\ there \in {"revoke.clear", "revoke.end"} /\ listed \subseteq Session
      /\ op' = [op EXCEPT ![w].todo = listed, ![w].at = there]
      /\ UNCHANGED <<keys, sessionOf, born, count, history>>
  BY DEF RevokeList, At, KeysOK
<1> HIDE DEF there
<1>2. /\ op'[w] = [op[w] EXCEPT !.todo = listed, !.at = there] /\ op' = [op EXCEPT ![w] = op'[w]]
      /\ \A v \in Worker : v # w => op'[v] = op[v]
  BY <1>1 DEF OpsOK
<1>3. /\ op'[w] \in Op /\ op'[w].at = there /\ op'[w].session = op[w].session
      /\ op'[w].old = op[w].old /\ op'[w].todo = listed /\ op'[w].promise = op[w].promise
  BY <1>1, <1>2 DEF OpsOK, Op
<1>4. OpsOK'
  BY <1>2, <1>3 DEF OpsOK
<1> QED
  BY <1>1, <1>2, <1>3, <1>4 DEF there

\* RevokeAll ends one session of those it read.
LEMMA RevokeEndOp ==
    ASSUME OpsOK, NEW w \in Worker, RevokeEnd(w)
    PROVE  \E s \in op[w].todo :
             /\ EndSession(s, op[w].reason) /\ op[w].at = "revoke.end"
             /\ op'[w].at = (IF op[w].todo = {s} THEN "revoke.clear" ELSE "revoke.end")
             /\ op'[w].session = op[w].session /\ op'[w].old = op[w].old
             /\ op'[w].todo = op[w].todo \ {s} /\ op'[w].promise = op[w].promise
             /\ \A v \in Worker : v # w => op'[v] = op[v]
             /\ OpsOK'
             /\ UNCHANGED <<current, listed, refresh, used, blacklist, sessionOf, born, count, history>>
<1>1. PICK s \in op[w].todo :
        /\ EndSession(s, op[w].reason)
        /\ op' = [op EXCEPT ![w].todo = @ \ {s},
                            ![w].at = IF op[w].todo = {s} THEN "revoke.clear" ELSE @]
  BY DEF RevokeEnd
<1> DEFINE there == IF op[w].todo = {s} THEN "revoke.clear" ELSE op[w].at
<1> DEFINE rest == op[w].todo \ {s}
<1>2. /\ op[w].at = "revoke.end" /\ there \in {"revoke.clear", "revoke.end"}
      /\ rest \subseteq Session /\ there = (IF op[w].todo = {s} THEN "revoke.clear" ELSE "revoke.end")
  BY OpFields DEF RevokeEnd, At
<1>3. op' = [op EXCEPT ![w].todo = rest, ![w].at = there]
  BY <1>1 DEF OpsOK
<1> HIDE DEF there, rest
<1>4. /\ op'[w] = [op[w] EXCEPT !.todo = rest, !.at = there] /\ op' = [op EXCEPT ![w] = op'[w]]
      /\ \A v \in Worker : v # w => op'[v] = op[v]
  BY <1>3 DEF OpsOK
<1>5. /\ op'[w] \in Op /\ op'[w].at = there /\ op'[w].session = op[w].session
      /\ op'[w].old = op[w].old /\ op'[w].todo = rest /\ op'[w].promise = op[w].promise
  BY <1>2, <1>4 DEF OpsOK, Op
<1>6. OpsOK'
  BY <1>4, <1>5 DEF OpsOK
<1>7. UNCHANGED <<current, listed, refresh, used, blacklist, sessionOf, born, count, history>>
  BY DEF RevokeEnd
<1> QED
  BY <1>1, <1>2, <1>4, <1>5, <1>6, <1>7 DEF rest

-----------------------------------------------------------------------------
(* The invariant, one conjunct at a time. *)

\* The keys and the counters keep their types.
LEMMA KeysStep ==
    ASSUME OpsOK, KeysOK, PlaceInv, [Next]_vars
    PROVE  KeysOK'
<1> USE DEF KeysOK, PlaceInv, HasSession, HasToken, Issued
<1>1. ASSUME NEW w \in Worker, CallLogin(w) PROVE KeysOK'
  BY <1>1, CallLoginOp DEF keys
<1>2. ASSUME NEW w \in Worker, CallRefresh(w) PROVE KeysOK'
  BY <1>2, CallRefreshOp DEF keys
<1>3. ASSUME NEW w \in Worker, CallLogout(w) PROVE KeysOK'
  BY <1>3, CallLogoutOp DEF keys
<1>4. ASSUME NEW w \in Worker, CallRevokeAll(w) PROVE KeysOK'
  BY <1>4, CallRevokeAllOp DEF keys
<1>5. ASSUME NEW w \in Worker, LoginGet(w) PROVE KeysOK'
  BY <1>5, LoginGetOp DEF keys, count, history
<1>6. ASSUME NEW w \in Worker, LoginEnd(w) PROVE KeysOK'
  BY <1>6, GotoOp DEF LoginEnd, EndSession, At, EndedFirst, Reason, count, history
<1>7. ASSUME NEW w \in Worker, LoginUnlist(w) PROVE KeysOK'
  BY <1>7, GotoOp DEF LoginUnlist, At, count, history
<1>8. ASSUME NEW w \in Worker, LoginStart(w) PROVE KeysOK'
  BY <1>8, GotoOp DEF LoginStart, At, count, history
<1>9. ASSUME NEW w \in Worker, Issue(w) PROVE KeysOK'
  BY <1>9, DoneOp DEF Issue, At, count, history
<1>10. ASSUME NEW w \in Worker, RefreshGet(w) PROVE KeysOK'
  BY <1>10, RefreshGetOp DEF keys, count, history
<1>11. ASSUME NEW w \in Worker, RefreshUsed(w) PROVE KeysOK'
  BY <1>11, RefreshUsedOp DEF keys, count, history
<1>12. ASSUME NEW w \in Worker, RefreshAlive(w) PROVE KeysOK'
  BY <1>12, GotoOp DEF RefreshAlive, At, keys, count, history
<1>13. ASSUME NEW w \in Worker, RefreshDrop(w) PROVE KeysOK'
  BY <1>13, DoneOp DEF RefreshDrop, At, count, history
<1>14. ASSUME NEW w \in Worker, RefreshRotate(w) PROVE KeysOK'
  BY <1>14, GotoOp DEF RefreshRotate, At, count, history
<1>15. ASSUME NEW w \in Worker, LogoutGet(w) PROVE KeysOK'
  BY <1>15, LogoutGetOp DEF keys, count, history
<1>16. ASSUME NEW w \in Worker, LogoutEnd(w) PROVE KeysOK'
  BY <1>16, GotoOp DEF LogoutEnd, EndSession, At, EndedFirst, Reason, count, history
<1>17. ASSUME NEW w \in Worker, LogoutCurrent(w) PROVE KeysOK'
  BY <1>17, GotoOp DEF LogoutCurrent, At, keys, count, history
<1>18. ASSUME NEW w \in Worker, LogoutClear(w) PROVE KeysOK'
  BY <1>18, GotoOp DEF LogoutClear, At, count, history
<1>19. ASSUME NEW w \in Worker, LogoutUnlist(w) PROVE KeysOK'
  BY <1>19, GotoOp DEF LogoutUnlist, At, count, history
<1>20. ASSUME NEW w \in Worker, LogoutDrop(w) PROVE KeysOK'
  BY <1>20, GotoOp DEF LogoutDrop, At, count, history
<1>21. ASSUME NEW w \in Worker, LogoutBlacklist(w) PROVE KeysOK'
  BY <1>21, DoneOp DEF LogoutBlacklist, At, count, history
<1>22. ASSUME NEW w \in Worker, RevokeList(w) PROVE KeysOK'
  BY <1>22, RevokeListOp DEF keys, count, history
<1>23. ASSUME NEW w \in Worker, RevokeEnd(w) PROVE KeysOK'
  BY <1>23, RevokeEndOp, OpFields DEF EndSession, count, history, EndedFirst, Reason
<1>24. ASSUME NEW w \in Worker, RevokeClear(w) PROVE KeysOK'
  BY <1>24, DoneOp DEF RevokeClear, At, count, history
<1>25. ASSUME NEW w \in Worker, Abandon(w) PROVE KeysOK'
  BY <1>25, DoneOp DEF Abandon, At, keys, count, history
<1>26. ASSUME NEW w \in Worker, IgnoredError(w) PROVE KeysOK'
  BY <1>26, GotoOp, DoneOp DEF IgnoredError, At, keys, history, count
<1>27. CASE UNCHANGED vars
  BY <1>27 DEF vars, keys, count, history
<1> QED
  BY <1>1, <1>2, <1>3, <1>4, <1>5, <1>6, <1>7, <1>8, <1>9, <1>10, <1>11, <1>12, <1>13, <1>14,
     <1>15, <1>16, <1>17, <1>18, <1>19, <1>20, <1>21, <1>22, <1>23, <1>24, <1>25, <1>26, <1>27
     DEF Next, Step, Quiet

\* Every operation stays one of Op.
LEMMA OpsStep ==
    ASSUME OpsOK, KeysOK, [Next]_vars
    PROVE  OpsOK'
<1>1. ASSUME NEW w \in Worker, CallLogin(w) PROVE OpsOK'
  BY <1>1, CallLoginOp DEF keys
<1>2. ASSUME NEW w \in Worker, CallRefresh(w) PROVE OpsOK'
  BY <1>2, CallRefreshOp DEF keys
<1>3. ASSUME NEW w \in Worker, CallLogout(w) PROVE OpsOK'
  BY <1>3, CallLogoutOp DEF keys
<1>4. ASSUME NEW w \in Worker, CallRevokeAll(w) PROVE OpsOK'
  BY <1>4, CallRevokeAllOp DEF keys
<1>5. ASSUME NEW w \in Worker, LoginGet(w) PROVE OpsOK'
  BY <1>5, LoginGetOp DEF keys, count, history
<1>6. ASSUME NEW w \in Worker, LoginEnd(w) PROVE OpsOK'
  BY <1>6, GotoOp, GotoOK DEF LoginEnd, EndSession, At
<1>7. ASSUME NEW w \in Worker, LoginUnlist(w) PROVE OpsOK'
  BY <1>7, GotoOp, GotoOK DEF LoginUnlist, At
<1>8. ASSUME NEW w \in Worker, LoginStart(w) PROVE OpsOK'
  BY <1>8, GotoOp, GotoOK DEF LoginStart, At
<1>9. ASSUME NEW w \in Worker, Issue(w) PROVE OpsOK'
  BY <1>9, DoneOp DEF Issue, At
<1>10. ASSUME NEW w \in Worker, RefreshGet(w) PROVE OpsOK'
  BY <1>10, RefreshGetOp DEF keys, count, history
<1>11. ASSUME NEW w \in Worker, RefreshUsed(w) PROVE OpsOK'
  BY <1>11, RefreshUsedOp DEF keys, count, history
<1>12. ASSUME NEW w \in Worker, RefreshAlive(w) PROVE OpsOK'
  BY <1>12, GotoOp, GotoOK DEF RefreshAlive, At, keys, count, history
<1>13. ASSUME NEW w \in Worker, RefreshDrop(w) PROVE OpsOK'
  BY <1>13, DoneOp DEF RefreshDrop, At
<1>14. ASSUME NEW w \in Worker, RefreshRotate(w) PROVE OpsOK'
  BY <1>14, GotoOp, GotoOK DEF RefreshRotate, At
<1>15. ASSUME NEW w \in Worker, LogoutGet(w) PROVE OpsOK'
  BY <1>15, LogoutGetOp DEF keys, count, history
<1>16. ASSUME NEW w \in Worker, LogoutEnd(w) PROVE OpsOK'
  BY <1>16, GotoOp, GotoOK DEF LogoutEnd, EndSession, At
<1>17. ASSUME NEW w \in Worker, LogoutCurrent(w) PROVE OpsOK'
  BY <1>17, GotoOp, GotoOK DEF LogoutCurrent, At, keys, count, history
<1>18. ASSUME NEW w \in Worker, LogoutClear(w) PROVE OpsOK'
  BY <1>18, GotoOp, GotoOK DEF LogoutClear, At
<1>19. ASSUME NEW w \in Worker, LogoutUnlist(w) PROVE OpsOK'
  BY <1>19, GotoOp, GotoOK DEF LogoutUnlist, At
<1>20. ASSUME NEW w \in Worker, LogoutDrop(w) PROVE OpsOK'
  BY <1>20, GotoOp, GotoOK DEF LogoutDrop, At
<1>21. ASSUME NEW w \in Worker, LogoutBlacklist(w) PROVE OpsOK'
  BY <1>21, DoneOp DEF LogoutBlacklist, At
<1>22. ASSUME NEW w \in Worker, RevokeList(w) PROVE OpsOK'
  BY <1>22, RevokeListOp DEF keys, count, history
<1>23. ASSUME NEW w \in Worker, RevokeEnd(w) PROVE OpsOK'
  BY <1>23, RevokeEndOp DEF EndSession, count, history
<1>24. ASSUME NEW w \in Worker, RevokeClear(w) PROVE OpsOK'
  BY <1>24, DoneOp DEF RevokeClear, At
<1>25. ASSUME NEW w \in Worker, Abandon(w) PROVE OpsOK'
  BY <1>25, DoneOp DEF Abandon, At, keys, count, history
<1>26. ASSUME NEW w \in Worker, IgnoredError(w) PROVE OpsOK'
  BY <1>26, GotoOp, DoneOp, GotoOK DEF IgnoredError, At, keys, history
<1>27. CASE UNCHANGED vars
  BY <1>27 DEF vars, keys, count, history, OpsOK
<1> QED
  BY <1>1, <1>2, <1>3, <1>4, <1>5, <1>6, <1>7, <1>8, <1>9, <1>10, <1>11, <1>12, <1>13, <1>14,
     <1>15, <1>16, <1>17, <1>18, <1>19, <1>20, <1>21, <1>22, <1>23, <1>24, <1>25, <1>26, <1>27
     DEF Next, Step, Quiet

\* An operation has what it needs where it goes to.
LEMMA PlaceStep ==
    ASSUME OpsOK, KeysOK, PlaceInv, BornInv, [Next]_vars
    PROVE  PlaceInv'
<1> USE DEF PlaceInv, BornInv, KeysOK, HasSession, HasToken, Issued
<1>1. ASSUME NEW w \in Worker, CallLogin(w) PROVE PlaceInv'
  BY <1>1, CallLoginOp DEF keys
<1>2. ASSUME NEW w \in Worker, CallRefresh(w) PROVE PlaceInv'
  BY <1>2, CallRefreshOp DEF keys
<1>3. ASSUME NEW w \in Worker, CallLogout(w) PROVE PlaceInv'
  BY <1>3, CallLogoutOp DEF keys
<1>4. ASSUME NEW w \in Worker, CallRevokeAll(w) PROVE PlaceInv'
  BY <1>4, CallRevokeAllOp DEF keys
<1>5. ASSUME NEW w \in Worker, LoginGet(w) PROVE PlaceInv'
  BY <1>5, LoginGetOp DEF keys, count, history
<1>6. ASSUME NEW w \in Worker, LoginEnd(w) PROVE PlaceInv'
  BY <1>6, GotoOp DEF LoginEnd, EndSession, At
<1>7. ASSUME NEW w \in Worker, LoginUnlist(w) PROVE PlaceInv'
  BY <1>7, GotoOp DEF LoginUnlist, At
<1>8. ASSUME NEW w \in Worker, LoginStart(w) PROVE PlaceInv'
  BY <1>8, GotoOp DEF LoginStart, At
<1>9. ASSUME NEW w \in Worker, Issue(w) PROVE PlaceInv'
  BY <1>9, DoneOp DEF Issue, At
<1>10. ASSUME NEW w \in Worker, RefreshGet(w) PROVE PlaceInv'
  BY <1>10, RefreshGetOp DEF keys, count, history
<1>11. ASSUME NEW w \in Worker, RefreshUsed(w) PROVE PlaceInv'
  BY <1>11, RefreshUsedOp DEF keys, count, history
<1>12. ASSUME NEW w \in Worker, RefreshAlive(w) PROVE PlaceInv'
  BY <1>12, GotoOp DEF RefreshAlive, At, keys, count, history
<1>13. ASSUME NEW w \in Worker, RefreshDrop(w) PROVE PlaceInv'
  BY <1>13, DoneOp DEF RefreshDrop, At
<1>14. ASSUME NEW w \in Worker, RefreshRotate(w) PROVE PlaceInv'
  BY <1>14, GotoOp DEF RefreshRotate, At
<1>15. ASSUME NEW w \in Worker, LogoutGet(w) PROVE PlaceInv'
  BY <1>15, LogoutGetOp DEF keys, count, history
<1>16. ASSUME NEW w \in Worker, LogoutEnd(w) PROVE PlaceInv'
  BY <1>16, GotoOp DEF LogoutEnd, EndSession, At
<1>17. ASSUME NEW w \in Worker, LogoutCurrent(w) PROVE PlaceInv'
  BY <1>17, GotoOp DEF LogoutCurrent, At, keys, count, history
<1>18. ASSUME NEW w \in Worker, LogoutClear(w) PROVE PlaceInv'
  BY <1>18, GotoOp DEF LogoutClear, At
<1>19. ASSUME NEW w \in Worker, LogoutUnlist(w) PROVE PlaceInv'
  BY <1>19, GotoOp DEF LogoutUnlist, At
<1>20. ASSUME NEW w \in Worker, LogoutDrop(w) PROVE PlaceInv'
  BY <1>20, GotoOp DEF LogoutDrop, At
<1>21. ASSUME NEW w \in Worker, LogoutBlacklist(w) PROVE PlaceInv'
  BY <1>21, DoneOp DEF LogoutBlacklist, At
<1>22. ASSUME NEW w \in Worker, RevokeList(w) PROVE PlaceInv'
  BY <1>22, RevokeListOp DEF keys, count, history
<1>23. ASSUME NEW w \in Worker, RevokeEnd(w) PROVE PlaceInv'
  BY <1>23, RevokeEndOp DEF EndSession, count, history
<1>24. ASSUME NEW w \in Worker, RevokeClear(w) PROVE PlaceInv'
  BY <1>24, DoneOp DEF RevokeClear, At
<1>25. ASSUME NEW w \in Worker, Abandon(w) PROVE PlaceInv'
  BY <1>25, DoneOp DEF Abandon, At, keys, count, history
<1>26. ASSUME NEW w \in Worker, IgnoredError(w) PROVE PlaceInv'
  BY <1>26, GotoOp, DoneOp DEF IgnoredError, At, keys, history
<1>27. CASE UNCHANGED vars
  BY <1>27 DEF vars, keys, count, history
<1> QED
  BY <1>1, <1>2, <1>3, <1>4, <1>5, <1>6, <1>7, <1>8, <1>9, <1>10, <1>11, <1>12, <1>13, <1>14,
     <1>15, <1>16, <1>17, <1>18, <1>19, <1>20, <1>21, <1>22, <1>23, <1>24, <1>25, <1>26, <1>27
     DEF Next, Step, Quiet

\* What is known of sessions is known of those drawn.
LEMMA BornStep ==
    ASSUME OpsOK, KeysOK, PlaceInv, BornInv, [Next]_vars
    PROVE  BornInv'
<1> USE DEF PlaceInv, BornInv, KeysOK, HasSession, HasToken, Issued
<1>1. ASSUME NEW w \in Worker, CallLogin(w) PROVE BornInv'
  BY <1>1, CallLoginOp DEF keys
<1>2. ASSUME NEW w \in Worker, CallRefresh(w) PROVE BornInv'
  BY <1>2, CallRefreshOp DEF keys
<1>3. ASSUME NEW w \in Worker, CallLogout(w) PROVE BornInv'
  BY <1>3, CallLogoutOp DEF keys
<1>4. ASSUME NEW w \in Worker, CallRevokeAll(w) PROVE BornInv'
  BY <1>4, CallRevokeAllOp DEF keys
<1>5. ASSUME NEW w \in Worker, LoginGet(w) PROVE BornInv'
  BY <1>5, LoginGetOp DEF keys, count, history
<1>6. ASSUME NEW w \in Worker, LoginEnd(w) PROVE BornInv'
  BY <1>6, GotoOp DEF LoginEnd, EndSession, At
<1>7. ASSUME NEW w \in Worker, LoginUnlist(w) PROVE BornInv'
  BY <1>7, GotoOp DEF LoginUnlist, At
<1>8. ASSUME NEW w \in Worker, LoginStart(w) PROVE BornInv'
  BY <1>8, GotoOp DEF LoginStart, At
<1>9. ASSUME NEW w \in Worker, Issue(w) PROVE BornInv'
  BY <1>9, DoneOp DEF Issue, At
<1>10. ASSUME NEW w \in Worker, RefreshGet(w) PROVE BornInv'
  BY <1>10, RefreshGetOp DEF keys, count, history
<1>11. ASSUME NEW w \in Worker, RefreshUsed(w) PROVE BornInv'
  BY <1>11, RefreshUsedOp DEF keys, count, history
<1>12. ASSUME NEW w \in Worker, RefreshAlive(w) PROVE BornInv'
  BY <1>12, GotoOp DEF RefreshAlive, At, keys, count, history
<1>13. ASSUME NEW w \in Worker, RefreshDrop(w) PROVE BornInv'
  BY <1>13, DoneOp DEF RefreshDrop, At
<1>14. ASSUME NEW w \in Worker, RefreshRotate(w) PROVE BornInv'
  BY <1>14, GotoOp DEF RefreshRotate, At
<1>15. ASSUME NEW w \in Worker, LogoutGet(w) PROVE BornInv'
  BY <1>15, LogoutGetOp DEF keys, count, history
<1>16. ASSUME NEW w \in Worker, LogoutEnd(w) PROVE BornInv'
  BY <1>16, GotoOp DEF LogoutEnd, EndSession, At
<1>17. ASSUME NEW w \in Worker, LogoutCurrent(w) PROVE BornInv'
  BY <1>17, GotoOp DEF LogoutCurrent, At, keys, count, history
<1>18. ASSUME NEW w \in Worker, LogoutClear(w) PROVE BornInv'
  BY <1>18, GotoOp DEF LogoutClear, At
<1>19. ASSUME NEW w \in Worker, LogoutUnlist(w) PROVE BornInv'
  BY <1>19, GotoOp DEF LogoutUnlist, At
<1>20. ASSUME NEW w \in Worker, LogoutDrop(w) PROVE BornInv'
  BY <1>20, GotoOp DEF LogoutDrop, At
<1>21. ASSUME NEW w \in Worker, LogoutBlacklist(w) PROVE BornInv'
  BY <1>21, DoneOp DEF LogoutBlacklist, At
<1>22. ASSUME NEW w \in Worker, RevokeList(w) PROVE BornInv'
  BY <1>22, RevokeListOp DEF keys, count, history
<1>23. ASSUME NEW w \in Worker, RevokeEnd(w) PROVE BornInv'
  BY <1>23, RevokeEndOp DEF EndSession, count, history
<1>24. ASSUME NEW w \in Worker, RevokeClear(w) PROVE BornInv'
  BY <1>24, DoneOp DEF RevokeClear, At
<1>25. ASSUME NEW w \in Worker, Abandon(w) PROVE BornInv'
  BY <1>25, DoneOp DEF Abandon, At, keys, count, history
<1>26. ASSUME NEW w \in Worker, IgnoredError(w) PROVE BornInv'
  BY <1>26, GotoOp, DoneOp DEF IgnoredError, At, keys, history
<1>27. CASE UNCHANGED vars
  BY <1>27 DEF vars, keys, count, history
<1> QED
  BY <1>1, <1>2, <1>3, <1>4, <1>5, <1>6, <1>7, <1>8, <1>9, <1>10, <1>11, <1>12, <1>13, <1>14,
     <1>15, <1>16, <1>17, <1>18, <1>19, <1>20, <1>21, <1>22, <1>23, <1>24, <1>25, <1>26, <1>27
     DEF Next, Step, Quiet

\* A login's session stays its own.
LEMMA FreshStep ==
    ASSUME OpsOK, KeysOK, PlaceInv, BornInv, FreshInv, [Next]_vars
    PROVE  FreshInv'
<1> USE DEF PlaceInv, BornInv, FreshInv, LoggingIn, KeysOK, HasSession, HasToken, Issued
<1>1. ASSUME NEW w \in Worker, CallLogin(w) PROVE FreshInv'
  BY <1>1, CallLoginOp DEF keys
<1>2. ASSUME NEW w \in Worker, CallRefresh(w) PROVE FreshInv'
  BY <1>2, CallRefreshOp DEF keys
<1>3. ASSUME NEW w \in Worker, CallLogout(w) PROVE FreshInv'
  BY <1>3, CallLogoutOp DEF keys
<1>4. ASSUME NEW w \in Worker, CallRevokeAll(w) PROVE FreshInv'
  BY <1>4, CallRevokeAllOp DEF keys
<1>5. ASSUME NEW w \in Worker, LoginGet(w) PROVE FreshInv'
  BY <1>5, LoginGetOp DEF keys, count, history
<1>6. ASSUME NEW w \in Worker, LoginEnd(w) PROVE FreshInv'
  BY <1>6, GotoOp DEF LoginEnd, EndSession, At
<1>7. ASSUME NEW w \in Worker, LoginUnlist(w) PROVE FreshInv'
  BY <1>7, GotoOp DEF LoginUnlist, At
<1>8. ASSUME NEW w \in Worker, LoginStart(w) PROVE FreshInv'
  BY <1>8, GotoOp DEF LoginStart, At
<1>9. ASSUME NEW w \in Worker, Issue(w) PROVE FreshInv'
  BY <1>9, DoneOp DEF Issue, At
<1>10. ASSUME NEW w \in Worker, RefreshGet(w) PROVE FreshInv'
  BY <1>10, RefreshGetOp DEF keys, count, history
<1>11. ASSUME NEW w \in Worker, RefreshUsed(w) PROVE FreshInv'
  BY <1>11, RefreshUsedOp DEF keys, count, history
<1>12. ASSUME NEW w \in Worker, RefreshAlive(w) PROVE FreshInv'
  BY <1>12, GotoOp DEF RefreshAlive, At, keys, count, history
<1>13. ASSUME NEW w \in Worker, RefreshDrop(w) PROVE FreshInv'
  BY <1>13, DoneOp DEF RefreshDrop, At
<1>14. ASSUME NEW w \in Worker, RefreshRotate(w) PROVE FreshInv'
  BY <1>14, GotoOp DEF RefreshRotate, At
<1>15. ASSUME NEW w \in Worker, LogoutGet(w) PROVE FreshInv'
  BY <1>15, LogoutGetOp DEF keys, count, history
<1>16. ASSUME NEW w \in Worker, LogoutEnd(w) PROVE FreshInv'
  BY <1>16, GotoOp DEF LogoutEnd, EndSession, At
<1>17. ASSUME NEW w \in Worker, LogoutCurrent(w) PROVE FreshInv'
  BY <1>17, GotoOp DEF LogoutCurrent, At, keys, count, history
<1>18. ASSUME NEW w \in Worker, LogoutClear(w) PROVE FreshInv'
  BY <1>18, GotoOp DEF LogoutClear, At
<1>19. ASSUME NEW w \in Worker, LogoutUnlist(w) PROVE FreshInv'
  BY <1>19, GotoOp DEF LogoutUnlist, At
<1>20. ASSUME NEW w \in Worker, LogoutDrop(w) PROVE FreshInv'
  BY <1>20, GotoOp DEF LogoutDrop, At
<1>21. ASSUME NEW w \in Worker, LogoutBlacklist(w) PROVE FreshInv'
  BY <1>21, DoneOp DEF LogoutBlacklist, At
<1>22. ASSUME NEW w \in Worker, RevokeList(w) PROVE FreshInv'
  BY <1>22, RevokeListOp DEF keys, count, history
<1>23. ASSUME NEW w \in Worker, RevokeEnd(w) PROVE FreshInv'
  BY <1>23, RevokeEndOp DEF EndSession, count, history
<1>24. ASSUME NEW w \in Worker, RevokeClear(w) PROVE FreshInv'
  BY <1>24, DoneOp DEF RevokeClear, At
<1>25. ASSUME NEW w \in Worker, Abandon(w) PROVE FreshInv'
  BY <1>25, DoneOp DEF Abandon, At, keys, count, history
<1>26. ASSUME NEW w \in Worker, IgnoredError(w) PROVE FreshInv'
  BY <1>26, GotoOp, DoneOp DEF IgnoredError, At, keys, history
<1>27. CASE UNCHANGED vars
  BY <1>27 DEF vars, keys, count, history
<1> QED
  BY <1>1, <1>2, <1>3, <1>4, <1>5, <1>6, <1>7, <1>8, <1>9, <1>10, <1>11, <1>12, <1>13, <1>14,
     <1>15, <1>16, <1>17, <1>18, <1>19, <1>20, <1>21, <1>22, <1>23, <1>24, <1>25, <1>26, <1>27
     DEF Next, Step, Quiet

\* An exchanged token is not put back.
LEMMA SpentStep ==
    ASSUME OpsOK, KeysOK, PlaceInv, BornInv, SpentInv, [Next]_vars
    PROVE  SpentInv'
<1> USE DEF SpentInv, PlaceInv, BornInv, KeysOK, HasSession, HasToken, Issued
<1>1. ASSUME NEW w \in Worker, CallLogin(w) PROVE SpentInv'
  BY <1>1, CallLoginOp DEF keys
<1>2. ASSUME NEW w \in Worker, CallRefresh(w) PROVE SpentInv'
  BY <1>2, CallRefreshOp DEF keys
<1>3. ASSUME NEW w \in Worker, CallLogout(w) PROVE SpentInv'
  BY <1>3, CallLogoutOp DEF keys
<1>4. ASSUME NEW w \in Worker, CallRevokeAll(w) PROVE SpentInv'
  BY <1>4, CallRevokeAllOp DEF keys
<1>5. ASSUME NEW w \in Worker, LoginGet(w) PROVE SpentInv'
  BY <1>5, LoginGetOp DEF keys, count, history
<1>6. ASSUME NEW w \in Worker, LoginEnd(w) PROVE SpentInv'
  BY <1>6, GotoOp DEF LoginEnd, EndSession, At, count, history
<1>7. ASSUME NEW w \in Worker, LoginUnlist(w) PROVE SpentInv'
  BY <1>7, GotoOp DEF LoginUnlist, At, count, history
<1>8. ASSUME NEW w \in Worker, LoginStart(w) PROVE SpentInv'
  BY <1>8, GotoOp DEF LoginStart, At, count, history
<1>9. ASSUME NEW w \in Worker, Issue(w) PROVE SpentInv'
  BY <1>9, DoneOp DEF Issue, At, count, history
<1>10. ASSUME NEW w \in Worker, RefreshGet(w) PROVE SpentInv'
  BY <1>10, RefreshGetOp DEF keys, count, history
<1>11. ASSUME NEW w \in Worker, RefreshUsed(w) PROVE SpentInv'
  BY <1>11, RefreshUsedOp DEF keys, count, history
<1>12. ASSUME NEW w \in Worker, RefreshAlive(w) PROVE SpentInv'
  BY <1>12, GotoOp DEF RefreshAlive, At, keys, count, history
<1>13. ASSUME NEW w \in Worker, RefreshDrop(w) PROVE SpentInv'
  BY <1>13, DoneOp DEF RefreshDrop, At, count, history
<1>14. ASSUME NEW w \in Worker, RefreshRotate(w) PROVE SpentInv'
  BY <1>14, GotoOp DEF RefreshRotate, At, count, history
<1>15. ASSUME NEW w \in Worker, LogoutGet(w) PROVE SpentInv'
  BY <1>15, LogoutGetOp DEF keys, count, history
<1>16. ASSUME NEW w \in Worker, LogoutEnd(w) PROVE SpentInv'
  BY <1>16, GotoOp DEF LogoutEnd, EndSession, At, count, history
<1>17. ASSUME NEW w \in Worker, LogoutCurrent(w) PROVE SpentInv'
  BY <1>17, GotoOp DEF LogoutCurrent, At, keys, count, history
<1>18. ASSUME NEW w \in Worker, LogoutClear(w) PROVE SpentInv'
  BY <1>18, GotoOp DEF LogoutClear, At, count, history
<1>19. ASSUME NEW w \in Worker, LogoutUnlist(w) PROVE SpentInv'
  BY <1>19, GotoOp DEF LogoutUnlist, At, count, history
<1>20. ASSUME NEW w \in Worker, LogoutDrop(w) PROVE SpentInv'
  BY <1>20, GotoOp DEF LogoutDrop, At, count, history
<1>21. ASSUME NEW w \in Worker, LogoutBlacklist(w) PROVE SpentInv'
  BY <1>21, DoneOp DEF LogoutBlacklist, At, count, history
<1>22. ASSUME NEW w \in Worker, RevokeList(w) PROVE SpentInv'
  BY <1>22, RevokeListOp DEF keys, count, history
<1>23. ASSUME NEW w \in Worker, RevokeEnd(w) PROVE SpentInv'
  BY <1>23, RevokeEndOp DEF EndSession, count, history
<1>24. ASSUME NEW w \in Worker, RevokeClear(w) PROVE SpentInv'
  BY <1>24, DoneOp DEF RevokeClear, At, count, history
<1>25. ASSUME NEW w \in Worker, Abandon(w) PROVE SpentInv'
  BY <1>25, DoneOp DEF Abandon, At, keys, count, history
<1>26. ASSUME NEW w \in Worker, IgnoredError(w) PROVE SpentInv'
  BY <1>26, GotoOp, DoneOp DEF IgnoredError, At, keys, history
<1>27. CASE UNCHANGED vars
  BY <1>27 DEF vars, keys, count, history
<1> QED
  BY <1>1, <1>2, <1>3, <1>4, <1>5, <1>6, <1>7, <1>8, <1>9, <1>10, <1>11, <1>12, <1>13, <1>14,
     <1>15, <1>16, <1>17, <1>18, <1>19, <1>20, <1>21, <1>22, <1>23, <1>24, <1>25, <1>26, <1>27
     DEF Next, Step, Quiet

\* Only the race lets a second Refresh exchange a token.
LEMMA OnceStep ==
    ASSUME OpsOK, KeysOK, PlaceInv, SpentInv, OnceInv, ExchangedOnce, [Next]_vars
    PROVE  OnceInv' /\ ExchangedOnce'
<1> USE DEF SpentInv, OnceInv, ExchangedOnce, HasRead, PlaceInv, KeysOK, HasSession, HasToken, Issued
<1>1. ASSUME NEW w \in Worker, CallLogin(w) PROVE OnceInv' /\ ExchangedOnce'
  BY <1>1, CallLoginOp DEF keys
<1>2. ASSUME NEW w \in Worker, CallRefresh(w) PROVE OnceInv' /\ ExchangedOnce'
  BY <1>2, CallRefreshOp DEF keys
<1>3. ASSUME NEW w \in Worker, CallLogout(w) PROVE OnceInv' /\ ExchangedOnce'
  BY <1>3, CallLogoutOp DEF keys
<1>4. ASSUME NEW w \in Worker, CallRevokeAll(w) PROVE OnceInv' /\ ExchangedOnce'
  BY <1>4, CallRevokeAllOp DEF keys
<1>5. ASSUME NEW w \in Worker, LoginGet(w) PROVE OnceInv' /\ ExchangedOnce'
  BY <1>5, LoginGetOp DEF keys, count, history
<1>6. ASSUME NEW w \in Worker, LoginEnd(w) PROVE OnceInv' /\ ExchangedOnce'
  BY <1>6, GotoOp DEF LoginEnd, EndSession, At, count, history
<1>7. ASSUME NEW w \in Worker, LoginUnlist(w) PROVE OnceInv' /\ ExchangedOnce'
  BY <1>7, GotoOp DEF LoginUnlist, At, count, history
<1>8. ASSUME NEW w \in Worker, LoginStart(w) PROVE OnceInv' /\ ExchangedOnce'
  BY <1>8, GotoOp DEF LoginStart, At, count, history
<1>9. ASSUME NEW w \in Worker, Issue(w) PROVE OnceInv' /\ ExchangedOnce'
  BY <1>9, DoneOp DEF Issue, At, count, history
<1>10. ASSUME NEW w \in Worker, RefreshGet(w) PROVE OnceInv' /\ ExchangedOnce'
  BY <1>10, RefreshGetOp DEF keys, count, history
<1>11. ASSUME NEW w \in Worker, RefreshUsed(w) PROVE OnceInv' /\ ExchangedOnce'
  BY <1>11, RefreshUsedOp DEF keys, count, history
<1>12. ASSUME NEW w \in Worker, RefreshAlive(w) PROVE OnceInv' /\ ExchangedOnce'
  BY <1>12, GotoOp DEF RefreshAlive, At, keys, count, history
<1>13. ASSUME NEW w \in Worker, RefreshDrop(w) PROVE OnceInv' /\ ExchangedOnce'
  BY <1>13, DoneOp DEF RefreshDrop, At, count, history
<1>14. ASSUME NEW w \in Worker, RefreshRotate(w) PROVE OnceInv' /\ ExchangedOnce'
  BY <1>14, GotoOp DEF RefreshRotate, At, count, history
<1>15. ASSUME NEW w \in Worker, LogoutGet(w) PROVE OnceInv' /\ ExchangedOnce'
  BY <1>15, LogoutGetOp DEF keys, count, history
<1>16. ASSUME NEW w \in Worker, LogoutEnd(w) PROVE OnceInv' /\ ExchangedOnce'
  BY <1>16, GotoOp DEF LogoutEnd, EndSession, At, count, history
<1>17. ASSUME NEW w \in Worker, LogoutCurrent(w) PROVE OnceInv' /\ ExchangedOnce'
  BY <1>17, GotoOp DEF LogoutCurrent, At, keys, count, history
<1>18. ASSUME NEW w \in Worker, LogoutClear(w) PROVE OnceInv' /\ ExchangedOnce'
  BY <1>18, GotoOp DEF LogoutClear, At, count, history
<1>19. ASSUME NEW w \in Worker, LogoutUnlist(w) PROVE OnceInv' /\ ExchangedOnce'
  BY <1>19, GotoOp DEF LogoutUnlist, At, count, history
<1>20. ASSUME NEW w \in Worker, LogoutDrop(w) PROVE OnceInv' /\ ExchangedOnce'
  BY <1>20, GotoOp DEF LogoutDrop, At, count, history
<1>21. ASSUME NEW w \in Worker, LogoutBlacklist(w) PROVE OnceInv' /\ ExchangedOnce'
  BY <1>21, DoneOp DEF LogoutBlacklist, At, count, history
<1>22. ASSUME NEW w \in Worker, RevokeList(w) PROVE OnceInv' /\ ExchangedOnce'
  BY <1>22, RevokeListOp DEF keys, count, history
<1>23. ASSUME NEW w \in Worker, RevokeEnd(w) PROVE OnceInv' /\ ExchangedOnce'
  BY <1>23, RevokeEndOp DEF EndSession, count, history
<1>24. ASSUME NEW w \in Worker, RevokeClear(w) PROVE OnceInv' /\ ExchangedOnce'
  BY <1>24, DoneOp DEF RevokeClear, At, count, history
<1>25. ASSUME NEW w \in Worker, Abandon(w) PROVE OnceInv' /\ ExchangedOnce'
  BY <1>25, DoneOp DEF Abandon, At, keys, count, history
<1>26. ASSUME NEW w \in Worker, IgnoredError(w) PROVE OnceInv' /\ ExchangedOnce'
  BY <1>26, GotoOp, DoneOp DEF IgnoredError, At, keys, history
<1>27. CASE UNCHANGED vars
  BY <1>27 DEF vars, keys, count, history
<1> QED
  BY <1>1, <1>2, <1>3, <1>4, <1>5, <1>6, <1>7, <1>8, <1>9, <1>10, <1>11, <1>12, <1>13, <1>14,
     <1>15, <1>16, <1>17, <1>18, <1>19, <1>20, <1>21, <1>22, <1>23, <1>24, <1>25, <1>26, <1>27
     DEF Next, Step, Quiet

\* What is about to be taken off the set stays ended.
LEMMA UnlistStep ==
    ASSUME OpsOK, KeysOK, PlaceInv, BornInv, FreshInv, UnlistInv, [Next]_vars
    PROVE  UnlistInv'
<1> USE DEF UnlistInv, PlaceInv, FreshInv, LoggingIn, KeysOK, HasSession
<1>1. ASSUME NEW w \in Worker, CallLogin(w) PROVE UnlistInv'
  BY <1>1, CallLoginOp DEF keys
<1>2. ASSUME NEW w \in Worker, CallRefresh(w) PROVE UnlistInv'
  BY <1>2, CallRefreshOp DEF keys
<1>3. ASSUME NEW w \in Worker, CallLogout(w) PROVE UnlistInv'
  BY <1>3, CallLogoutOp DEF keys
<1>4. ASSUME NEW w \in Worker, CallRevokeAll(w) PROVE UnlistInv'
  BY <1>4, CallRevokeAllOp DEF keys
<1>5. ASSUME NEW w \in Worker, LoginGet(w) PROVE UnlistInv'
  BY <1>5, LoginGetOp DEF keys, count, history
<1>6. ASSUME NEW w \in Worker, LoginEnd(w) PROVE UnlistInv'
  BY <1>6, GotoOp DEF LoginEnd, EndSession, At
<1>7. ASSUME NEW w \in Worker, LoginUnlist(w) PROVE UnlistInv'
  BY <1>7, GotoOp DEF LoginUnlist, At
<1>8. ASSUME NEW w \in Worker, LoginStart(w) PROVE UnlistInv'
  BY <1>8, GotoOp DEF LoginStart, At
<1>9. ASSUME NEW w \in Worker, Issue(w) PROVE UnlistInv'
  BY <1>9, DoneOp DEF Issue, At
<1>10. ASSUME NEW w \in Worker, RefreshGet(w) PROVE UnlistInv'
  BY <1>10, RefreshGetOp DEF keys, count, history
<1>11. ASSUME NEW w \in Worker, RefreshUsed(w) PROVE UnlistInv'
  BY <1>11, RefreshUsedOp DEF keys, count, history
<1>12. ASSUME NEW w \in Worker, RefreshAlive(w) PROVE UnlistInv'
  BY <1>12, GotoOp DEF RefreshAlive, At, keys, count, history
<1>13. ASSUME NEW w \in Worker, RefreshDrop(w) PROVE UnlistInv'
  BY <1>13, DoneOp DEF RefreshDrop, At
<1>14. ASSUME NEW w \in Worker, RefreshRotate(w) PROVE UnlistInv'
  BY <1>14, GotoOp DEF RefreshRotate, At
<1>15. ASSUME NEW w \in Worker, LogoutGet(w) PROVE UnlistInv'
  BY <1>15, LogoutGetOp DEF keys, count, history
<1>16. ASSUME NEW w \in Worker, LogoutEnd(w) PROVE UnlistInv'
  BY <1>16, GotoOp DEF LogoutEnd, EndSession, At
<1>17. ASSUME NEW w \in Worker, LogoutCurrent(w) PROVE UnlistInv'
  BY <1>17, GotoOp DEF LogoutCurrent, At, keys, count, history
<1>18. ASSUME NEW w \in Worker, LogoutClear(w) PROVE UnlistInv'
  BY <1>18, GotoOp DEF LogoutClear, At
<1>19. ASSUME NEW w \in Worker, LogoutUnlist(w) PROVE UnlistInv'
  BY <1>19, GotoOp DEF LogoutUnlist, At
<1>20. ASSUME NEW w \in Worker, LogoutDrop(w) PROVE UnlistInv'
  BY <1>20, GotoOp DEF LogoutDrop, At
<1>21. ASSUME NEW w \in Worker, LogoutBlacklist(w) PROVE UnlistInv'
  BY <1>21, DoneOp DEF LogoutBlacklist, At
<1>22. ASSUME NEW w \in Worker, RevokeList(w) PROVE UnlistInv'
  BY <1>22, RevokeListOp DEF keys, count, history
<1>23. ASSUME NEW w \in Worker, RevokeEnd(w) PROVE UnlistInv'
  BY <1>23, RevokeEndOp DEF EndSession, count, history
<1>24. ASSUME NEW w \in Worker, RevokeClear(w) PROVE UnlistInv'
  BY <1>24, DoneOp DEF RevokeClear, At
<1>25. ASSUME NEW w \in Worker, Abandon(w) PROVE UnlistInv'
  BY <1>25, DoneOp DEF Abandon, At, keys, count, history
<1>26. ASSUME NEW w \in Worker, IgnoredError(w) PROVE UnlistInv'
  BY <1>26, GotoOp, DoneOp DEF IgnoredError, At, keys, history
<1>27. CASE UNCHANGED vars
  BY <1>27 DEF vars, keys, count, history
<1> QED
  BY <1>1, <1>2, <1>3, <1>4, <1>5, <1>6, <1>7, <1>8, <1>9, <1>10, <1>11, <1>12, <1>13, <1>14,
     <1>15, <1>16, <1>17, <1>18, <1>19, <1>20, <1>21, <1>22, <1>23, <1>24, <1>25, <1>26, <1>27
     DEF Next, Step, Quiet

\* A call at a time when another operation is under way is an overlap.
LEMMA CallAlone ==
    ASSUME FlagsOK, NEW w \in Worker,
           CallLogin(w) \/ CallRefresh(w) \/ CallLogout(w) \/ CallRevokeAll(w)
    PROVE  /\ FlagsOK'
           /\ ~overlapped' => ~overlapped /\ \A v \in Worker : op[v].at = "idle"
<1>1. PICK o : Call(w, o)
  BY DEF CallLogin, CallRefresh, CallLogout, CallRevokeAll
<1>2. /\ overlapped' = (overlapped \/ \E v \in Worker : ~At(v, "idle"))
      /\ single' = single /\ raced' = raced
  BY <1>1 DEF Call
<1>3. overlapped' \in BOOLEAN
  BY <1>2, Zenon
<1>4. ~overlapped' => ~overlapped /\ \A v \in Worker : At(v, "idle")
  BY <1>2, Zenon
<1>5. FlagsOK'
  BY <1>2, <1>3, Zenon DEF FlagsOK
<1> QED
  BY <1>4, <1>5 DEF At

\* A session that starts while a revocation is under way is the race.
LEMMA StartRace ==
    ASSUME FlagsOK, NEW w \in Worker, LoginStart(w)
    PROVE  /\ FlagsOK'
           /\ ~raced' <=> (~raced /\ \A v \in Worker : op[v].at \notin {"revoke.end", "revoke.clear"})
<1>1. raced' = (raced \/ Revoking) /\ single' = single /\ overlapped' = overlapped
  BY DEF LoginStart, count
<1>2. raced' \in BOOLEAN
  BY <1>1, Zenon
<1>3. ~raced' <=> (~raced /\ ~Revoking)
  BY <1>1, Zenon
<1>4. FlagsOK'
  BY <1>1, <1>2, Zenon DEF FlagsOK
<1> QED
  BY <1>3, <1>4 DEF Revoking

\* The flags stay flags.
LEMMA FlagsStep ==
    ASSUME OpsOK, KeysOK, FlagsOK, [Next]_vars
    PROVE  FlagsOK'
<1> USE DEF FlagsOK
<1>1. ASSUME NEW w \in Worker, CallLogin(w) PROVE FlagsOK'
  BY <1>1, CallAlone
<1>2. ASSUME NEW w \in Worker, CallRefresh(w) PROVE FlagsOK'
  BY <1>2, CallAlone
<1>3. ASSUME NEW w \in Worker, CallLogout(w) PROVE FlagsOK'
  BY <1>3, CallAlone
<1>4. ASSUME NEW w \in Worker, CallRevokeAll(w) PROVE FlagsOK'
  BY <1>4, CallAlone
<1>5. ASSUME NEW w \in Worker, LoginGet(w) PROVE FlagsOK'
  BY <1>5, LoginGetOp DEF keys, count, history
<1>6. ASSUME NEW w \in Worker, LoginEnd(w) PROVE FlagsOK'
  BY <1>6, GotoOp DEF LoginEnd, EndSession, At, count, history
<1>7. ASSUME NEW w \in Worker, LoginUnlist(w) PROVE FlagsOK'
  BY <1>7, GotoOp DEF LoginUnlist, At, count, history
<1>8. ASSUME NEW w \in Worker, LoginStart(w) PROVE FlagsOK'
  BY <1>8, StartRace
<1>9. ASSUME NEW w \in Worker, Issue(w) PROVE FlagsOK'
  BY <1>9, DoneOp DEF Issue, At, count, history
<1>10. ASSUME NEW w \in Worker, RefreshGet(w) PROVE FlagsOK'
  BY <1>10, RefreshGetOp DEF keys, count, history
<1>11. ASSUME NEW w \in Worker, RefreshUsed(w) PROVE FlagsOK'
  BY <1>11, RefreshUsedOp DEF keys, count, history
<1>12. ASSUME NEW w \in Worker, RefreshAlive(w) PROVE FlagsOK'
  BY <1>12, GotoOp DEF RefreshAlive, At, keys, count, history
<1>13. ASSUME NEW w \in Worker, RefreshDrop(w) PROVE FlagsOK'
  BY <1>13, DoneOp DEF RefreshDrop, At, count, history
<1>14. ASSUME NEW w \in Worker, RefreshRotate(w) PROVE FlagsOK'
  BY <1>14, GotoOp DEF RefreshRotate, At, count
<1>15. ASSUME NEW w \in Worker, LogoutGet(w) PROVE FlagsOK'
  BY <1>15, LogoutGetOp DEF keys, count, history
<1>16. ASSUME NEW w \in Worker, LogoutEnd(w) PROVE FlagsOK'
  BY <1>16, GotoOp DEF LogoutEnd, EndSession, At, count, history
<1>17. ASSUME NEW w \in Worker, LogoutCurrent(w) PROVE FlagsOK'
  BY <1>17, GotoOp DEF LogoutCurrent, At, keys, count, history
<1>18. ASSUME NEW w \in Worker, LogoutClear(w) PROVE FlagsOK'
  BY <1>18, GotoOp DEF LogoutClear, At, count, history
<1>19. ASSUME NEW w \in Worker, LogoutUnlist(w) PROVE FlagsOK'
  BY <1>19, GotoOp DEF LogoutUnlist, At, count, history
<1>20. ASSUME NEW w \in Worker, LogoutDrop(w) PROVE FlagsOK'
  BY <1>20, GotoOp DEF LogoutDrop, At, count, history
<1>21. ASSUME NEW w \in Worker, LogoutBlacklist(w) PROVE FlagsOK'
  BY <1>21, DoneOp DEF LogoutBlacklist, At, count, history
<1>22. ASSUME NEW w \in Worker, RevokeList(w) PROVE FlagsOK'
  BY <1>22, RevokeListOp DEF keys, count, history
<1>23. ASSUME NEW w \in Worker, RevokeEnd(w) PROVE FlagsOK'
  BY <1>23, RevokeEndOp DEF EndSession, count, history
<1>24. ASSUME NEW w \in Worker, RevokeClear(w) PROVE FlagsOK'
  BY <1>24, DoneOp DEF RevokeClear, At, count, history
<1>25. ASSUME NEW w \in Worker, Abandon(w) PROVE FlagsOK'
  BY <1>25, DoneOp DEF Abandon, At, keys, count, history
<1>26. ASSUME NEW w \in Worker, IgnoredError(w) PROVE FlagsOK'
  BY <1>26, GotoOp, DoneOp DEF IgnoredError, At, keys, history
<1>27. CASE UNCHANGED vars
  BY <1>27 DEF vars, keys, count, history
<1> QED
  BY <1>1, <1>2, <1>3, <1>4, <1>5, <1>6, <1>7, <1>8, <1>9, <1>10, <1>11, <1>12, <1>13, <1>14,
     <1>15, <1>16, <1>17, <1>18, <1>19, <1>20, <1>21, <1>22, <1>23, <1>24, <1>25, <1>26, <1>27
     DEF Next, Step, Quiet

\* A revocation goes through all that is alive.
LEMMA RevokeStep ==
    ASSUME OpsOK, KeysOK, FlagsOK, UnlistInv, RevokeInv, [Next]_vars
    PROVE  RevokeInv'
<1> USE DEF RevokeInv, UnlistInv, KeysOK
<1>1. ASSUME NEW w \in Worker, CallLogin(w) PROVE RevokeInv'
  BY <1>1, CallLoginOp, CallAlone DEF keys
<1>2. ASSUME NEW w \in Worker, CallRefresh(w) PROVE RevokeInv'
  BY <1>2, CallRefreshOp, CallAlone DEF keys
<1>3. ASSUME NEW w \in Worker, CallLogout(w) PROVE RevokeInv'
  BY <1>3, CallLogoutOp, CallAlone DEF keys
<1>4. ASSUME NEW w \in Worker, CallRevokeAll(w) PROVE RevokeInv'
  BY <1>4, CallRevokeAllOp, CallAlone DEF keys
<1>5. ASSUME NEW w \in Worker, LoginGet(w) PROVE RevokeInv'
  BY <1>5, LoginGetOp DEF keys, count, history
<1>6. ASSUME NEW w \in Worker, LoginEnd(w) PROVE RevokeInv'
  BY <1>6, GotoOp DEF LoginEnd, EndSession, At, count, history
<1>7. ASSUME NEW w \in Worker, LoginUnlist(w) PROVE RevokeInv'
  BY <1>7, GotoOp DEF LoginUnlist, At, count, history
<1>8. ASSUME NEW w \in Worker, LoginStart(w) PROVE RevokeInv'
  BY <1>8, GotoOp, StartRace DEF LoginStart, At, count
<1>9. ASSUME NEW w \in Worker, Issue(w) PROVE RevokeInv'
  BY <1>9, DoneOp DEF Issue, At, count, history
<1>10. ASSUME NEW w \in Worker, RefreshGet(w) PROVE RevokeInv'
  BY <1>10, RefreshGetOp DEF keys, count, history
<1>11. ASSUME NEW w \in Worker, RefreshUsed(w) PROVE RevokeInv'
  BY <1>11, RefreshUsedOp DEF keys, count, history
<1>12. ASSUME NEW w \in Worker, RefreshAlive(w) PROVE RevokeInv'
  BY <1>12, GotoOp DEF RefreshAlive, At, keys, count, history
<1>13. ASSUME NEW w \in Worker, RefreshDrop(w) PROVE RevokeInv'
  BY <1>13, DoneOp DEF RefreshDrop, At, count, history
<1>14. ASSUME NEW w \in Worker, RefreshRotate(w) PROVE RevokeInv'
  BY <1>14, GotoOp DEF RefreshRotate, At, count
<1>15. ASSUME NEW w \in Worker, LogoutGet(w) PROVE RevokeInv'
  BY <1>15, LogoutGetOp DEF keys, count, history
<1>16. ASSUME NEW w \in Worker, LogoutEnd(w) PROVE RevokeInv'
  BY <1>16, GotoOp DEF LogoutEnd, EndSession, At, count, history
<1>17. ASSUME NEW w \in Worker, LogoutCurrent(w) PROVE RevokeInv'
  BY <1>17, GotoOp DEF LogoutCurrent, At, keys, count, history
<1>18. ASSUME NEW w \in Worker, LogoutClear(w) PROVE RevokeInv'
  BY <1>18, GotoOp DEF LogoutClear, At, count, history
<1>19. ASSUME NEW w \in Worker, LogoutUnlist(w) PROVE RevokeInv'
  BY <1>19, GotoOp DEF LogoutUnlist, At, count, history
<1>20. ASSUME NEW w \in Worker, LogoutDrop(w) PROVE RevokeInv'
  BY <1>20, GotoOp DEF LogoutDrop, At, count, history
<1>21. ASSUME NEW w \in Worker, LogoutBlacklist(w) PROVE RevokeInv'
  BY <1>21, DoneOp DEF LogoutBlacklist, At, count, history
<1>22. ASSUME NEW w \in Worker, RevokeList(w) PROVE RevokeInv'
  BY <1>22, RevokeListOp DEF keys, count, history
<1>23. ASSUME NEW w \in Worker, RevokeEnd(w) PROVE RevokeInv'
  BY <1>23, RevokeEndOp DEF EndSession, count, history
<1>24. ASSUME NEW w \in Worker, RevokeClear(w) PROVE RevokeInv'
  BY <1>24, DoneOp DEF RevokeClear, At, count, history
<1>25. ASSUME NEW w \in Worker, Abandon(w) PROVE RevokeInv'
  BY <1>25, DoneOp DEF Abandon, At, keys, count, history
<1>26. ASSUME NEW w \in Worker, IgnoredError(w) PROVE RevokeInv'
  BY <1>26, GotoOp, DoneOp DEF IgnoredError, At, keys, history
<1>27. CASE UNCHANGED vars
  BY <1>27 DEF vars, keys, count, history
<1> QED
  BY <1>1, <1>2, <1>3, <1>4, <1>5, <1>6, <1>7, <1>8, <1>9, <1>10, <1>11, <1>12, <1>13, <1>14,
     <1>15, <1>16, <1>17, <1>18, <1>19, <1>20, <1>21, <1>22, <1>23, <1>24, <1>25, <1>26, <1>27
     DEF Next, Step, Quiet

\* Without an overlap one operation is under way.
LEMMA AloneStep ==
    ASSUME OpsOK, KeysOK, FlagsOK, AloneInv, [Next]_vars
    PROVE  AloneInv'
<1> USE DEF AloneInv
<1>1. ASSUME NEW w \in Worker, CallLogin(w) PROVE AloneInv'
  BY <1>1, CallLoginOp, CallAlone DEF keys
<1>2. ASSUME NEW w \in Worker, CallRefresh(w) PROVE AloneInv'
  BY <1>2, CallRefreshOp, CallAlone DEF keys
<1>3. ASSUME NEW w \in Worker, CallLogout(w) PROVE AloneInv'
  BY <1>3, CallLogoutOp, CallAlone DEF keys
<1>4. ASSUME NEW w \in Worker, CallRevokeAll(w) PROVE AloneInv'
  BY <1>4, CallRevokeAllOp, CallAlone DEF keys
<1>5. ASSUME NEW w \in Worker, LoginGet(w) PROVE AloneInv'
  BY <1>5, LoginGetOp DEF keys, count, history
<1>6. ASSUME NEW w \in Worker, LoginEnd(w) PROVE AloneInv'
  BY <1>6, GotoOp DEF LoginEnd, EndSession, At, count, history
<1>7. ASSUME NEW w \in Worker, LoginUnlist(w) PROVE AloneInv'
  BY <1>7, GotoOp DEF LoginUnlist, At, count, history
<1>8. ASSUME NEW w \in Worker, LoginStart(w) PROVE AloneInv'
  BY <1>8, GotoOp, StartRace DEF LoginStart, At, count
<1>9. ASSUME NEW w \in Worker, Issue(w) PROVE AloneInv'
  BY <1>9, DoneOp DEF Issue, At, count, history
<1>10. ASSUME NEW w \in Worker, RefreshGet(w) PROVE AloneInv'
  BY <1>10, RefreshGetOp DEF keys, count, history
<1>11. ASSUME NEW w \in Worker, RefreshUsed(w) PROVE AloneInv'
  BY <1>11, RefreshUsedOp DEF keys, count, history
<1>12. ASSUME NEW w \in Worker, RefreshAlive(w) PROVE AloneInv'
  BY <1>12, GotoOp DEF RefreshAlive, At, keys, count, history
<1>13. ASSUME NEW w \in Worker, RefreshDrop(w) PROVE AloneInv'
  BY <1>13, DoneOp DEF RefreshDrop, At, count, history
<1>14. ASSUME NEW w \in Worker, RefreshRotate(w) PROVE AloneInv'
  BY <1>14, GotoOp DEF RefreshRotate, At, count
<1>15. ASSUME NEW w \in Worker, LogoutGet(w) PROVE AloneInv'
  BY <1>15, LogoutGetOp DEF keys, count, history
<1>16. ASSUME NEW w \in Worker, LogoutEnd(w) PROVE AloneInv'
  BY <1>16, GotoOp DEF LogoutEnd, EndSession, At, count, history
<1>17. ASSUME NEW w \in Worker, LogoutCurrent(w) PROVE AloneInv'
  BY <1>17, GotoOp DEF LogoutCurrent, At, keys, count, history
<1>18. ASSUME NEW w \in Worker, LogoutClear(w) PROVE AloneInv'
  BY <1>18, GotoOp DEF LogoutClear, At, count, history
<1>19. ASSUME NEW w \in Worker, LogoutUnlist(w) PROVE AloneInv'
  BY <1>19, GotoOp DEF LogoutUnlist, At, count, history
<1>20. ASSUME NEW w \in Worker, LogoutDrop(w) PROVE AloneInv'
  BY <1>20, GotoOp DEF LogoutDrop, At, count, history
<1>21. ASSUME NEW w \in Worker, LogoutBlacklist(w) PROVE AloneInv'
  BY <1>21, DoneOp DEF LogoutBlacklist, At, count, history
<1>22. ASSUME NEW w \in Worker, RevokeList(w) PROVE AloneInv'
  BY <1>22, RevokeListOp DEF keys, count, history
<1>23. ASSUME NEW w \in Worker, RevokeEnd(w) PROVE AloneInv'
  BY <1>23, RevokeEndOp DEF EndSession, count, history
<1>24. ASSUME NEW w \in Worker, RevokeClear(w) PROVE AloneInv'
  BY <1>24, DoneOp DEF RevokeClear, At, count, history
<1>25. ASSUME NEW w \in Worker, Abandon(w) PROVE AloneInv'
  BY <1>25, DoneOp DEF Abandon, At, keys, count, history
<1>26. ASSUME NEW w \in Worker, IgnoredError(w) PROVE AloneInv'
  BY <1>26, GotoOp, DoneOp DEF IgnoredError, At, keys, history
<1>27. CASE UNCHANGED vars
  BY <1>27 DEF vars, keys, count, history
<1> QED
  BY <1>1, <1>2, <1>3, <1>4, <1>5, <1>6, <1>7, <1>8, <1>9, <1>10, <1>11, <1>12, <1>13, <1>14,
     <1>15, <1>16, <1>17, <1>18, <1>19, <1>20, <1>21, <1>22, <1>23, <1>24, <1>25, <1>26, <1>27
     DEF Next, Step, Quiet

\* Operations that follow one another leave one session alive.
LEMMA SingleStep ==
    ASSUME OpsOK, KeysOK, FlagsOK, UnlistInv, RevokeInv, AloneInv, SingleInv, [Next]_vars
    PROVE  SingleInv'
<1> USE DEF SingleInv, AloneInv, RevokeInv, UnlistInv, KeysOK
<1>1. ASSUME NEW w \in Worker, CallLogin(w) PROVE SingleInv'
  BY <1>1, CallLoginOp, CallAlone DEF keys
<1>2. ASSUME NEW w \in Worker, CallRefresh(w) PROVE SingleInv'
  BY <1>2, CallRefreshOp, CallAlone DEF keys
<1>3. ASSUME NEW w \in Worker, CallLogout(w) PROVE SingleInv'
  BY <1>3, CallLogoutOp, CallAlone DEF keys
<1>4. ASSUME NEW w \in Worker, CallRevokeAll(w) PROVE SingleInv'
  BY <1>4, CallRevokeAllOp, CallAlone DEF keys
<1>5. ASSUME NEW w \in Worker, LoginGet(w) PROVE SingleInv'
  <2>1. /\ UNCHANGED <<alive, current, single, overlapped, errors>>
        /\ op[w].at = "login.get" /\ op'[w].old = current
        /\ op'[w].at = (IF current = NoSession THEN "login.start" ELSE "login.end")
        /\ \A v \in Worker : v # w => op'[v] = op[v]
    BY <1>5, LoginGetOp DEF keys, count, history
  <2>2. ASSUME single, ~overlapped, errors = 0
        PROVE  /\ alive \subseteq {current}
               /\ current = NoSession => alive = {}
               /\ \A v \in Worker : op'[v].at # "idle" => v = w
    BY <2>1, <2>2
  <2> QED
    BY <2>1, <2>2
<1>6. ASSUME NEW w \in Worker, LoginEnd(w) PROVE SingleInv'
  BY <1>6, GotoOp DEF LoginEnd, EndSession, At, count, history
<1>7. ASSUME NEW w \in Worker, LoginUnlist(w) PROVE SingleInv'
  BY <1>7, GotoOp DEF LoginUnlist, At, count, history
<1>8. ASSUME NEW w \in Worker, LoginStart(w) PROVE SingleInv'
  BY <1>8, GotoOp, StartRace DEF LoginStart, At, count
<1>9. ASSUME NEW w \in Worker, Issue(w) PROVE SingleInv'
  BY <1>9, DoneOp DEF Issue, At, count, history
<1>10. ASSUME NEW w \in Worker, RefreshGet(w) PROVE SingleInv'
  BY <1>10, RefreshGetOp DEF keys, count, history
<1>11. ASSUME NEW w \in Worker, RefreshUsed(w) PROVE SingleInv'
  BY <1>11, RefreshUsedOp DEF keys, count, history
<1>12. ASSUME NEW w \in Worker, RefreshAlive(w) PROVE SingleInv'
  BY <1>12, GotoOp DEF RefreshAlive, At, keys, count, history
<1>13. ASSUME NEW w \in Worker, RefreshDrop(w) PROVE SingleInv'
  BY <1>13, DoneOp DEF RefreshDrop, At, count, history
<1>14. ASSUME NEW w \in Worker, RefreshRotate(w) PROVE SingleInv'
  BY <1>14, GotoOp DEF RefreshRotate, At, count
<1>15. ASSUME NEW w \in Worker, LogoutGet(w) PROVE SingleInv'
  BY <1>15, LogoutGetOp DEF keys, count, history
<1>16. ASSUME NEW w \in Worker, LogoutEnd(w) PROVE SingleInv'
  BY <1>16, GotoOp DEF LogoutEnd, EndSession, At, count, history
<1>17. ASSUME NEW w \in Worker, LogoutCurrent(w) PROVE SingleInv'
  BY <1>17, GotoOp DEF LogoutCurrent, At, keys, count, history
<1>18. ASSUME NEW w \in Worker, LogoutClear(w) PROVE SingleInv'
  BY <1>18, GotoOp DEF LogoutClear, At, count, history
<1>19. ASSUME NEW w \in Worker, LogoutUnlist(w) PROVE SingleInv'
  BY <1>19, GotoOp DEF LogoutUnlist, At, count, history
<1>20. ASSUME NEW w \in Worker, LogoutDrop(w) PROVE SingleInv'
  BY <1>20, GotoOp DEF LogoutDrop, At, count, history
<1>21. ASSUME NEW w \in Worker, LogoutBlacklist(w) PROVE SingleInv'
  BY <1>21, DoneOp DEF LogoutBlacklist, At, count, history
<1>22. ASSUME NEW w \in Worker, RevokeList(w) PROVE SingleInv'
  BY <1>22, RevokeListOp DEF keys, count, history
<1>23. ASSUME NEW w \in Worker, RevokeEnd(w) PROVE SingleInv'
  BY <1>23, RevokeEndOp DEF EndSession, count, history
<1>24. ASSUME NEW w \in Worker, RevokeClear(w) PROVE SingleInv'
  BY <1>24, DoneOp DEF RevokeClear, At, count, history
<1>25. ASSUME NEW w \in Worker, Abandon(w) PROVE SingleInv'
  BY <1>25, DoneOp DEF Abandon, At, keys, count, history
<1>26. ASSUME NEW w \in Worker, IgnoredError(w) PROVE SingleInv'
  BY <1>26, GotoOp, DoneOp DEF IgnoredError, At, keys, history
<1>27. CASE UNCHANGED vars
  BY <1>27 DEF vars, keys, count, history
<1> QED
  BY <1>1, <1>2, <1>3, <1>4, <1>5, <1>6, <1>7, <1>8, <1>9, <1>10, <1>11, <1>12, <1>13, <1>14,
     <1>15, <1>16, <1>17, <1>18, <1>19, <1>20, <1>21, <1>22, <1>23, <1>24, <1>25, <1>26, <1>27
     DEF Next, Step, Quiet

\* A logout by itself ends the session it promised to end.
LEMMA LogoutStep ==
    ASSUME OpsOK, KeysOK, FlagsOK, AloneInv, LogoutInv, [Next]_vars
    PROVE  LogoutInv'
<1> USE DEF LogoutInv, AloneInv, KeysOK
<1>1. ASSUME NEW w \in Worker, CallLogin(w) PROVE LogoutInv'
  BY <1>1, CallLoginOp, CallAlone DEF keys
<1>2. ASSUME NEW w \in Worker, CallRefresh(w) PROVE LogoutInv'
  BY <1>2, CallRefreshOp, CallAlone DEF keys
<1>3. ASSUME NEW w \in Worker, CallLogout(w) PROVE LogoutInv'
  BY <1>3, CallLogoutOp, CallAlone DEF keys
<1>4. ASSUME NEW w \in Worker, CallRevokeAll(w) PROVE LogoutInv'
  BY <1>4, CallRevokeAllOp, CallAlone DEF keys
<1>5. ASSUME NEW w \in Worker, LoginGet(w) PROVE LogoutInv'
  BY <1>5, LoginGetOp DEF keys, count, history
<1>6. ASSUME NEW w \in Worker, LoginEnd(w) PROVE LogoutInv'
  BY <1>6, GotoOp DEF LoginEnd, EndSession, At, count, history
<1>7. ASSUME NEW w \in Worker, LoginUnlist(w) PROVE LogoutInv'
  BY <1>7, GotoOp DEF LoginUnlist, At, count, history
<1>8. ASSUME NEW w \in Worker, LoginStart(w) PROVE LogoutInv'
  BY <1>8, GotoOp, StartRace DEF LoginStart, At, count
<1>9. ASSUME NEW w \in Worker, Issue(w) PROVE LogoutInv'
  BY <1>9, DoneOp DEF Issue, At, count, history
<1>10. ASSUME NEW w \in Worker, RefreshGet(w) PROVE LogoutInv'
  BY <1>10, RefreshGetOp DEF keys, count, history
<1>11. ASSUME NEW w \in Worker, RefreshUsed(w) PROVE LogoutInv'
  BY <1>11, RefreshUsedOp DEF keys, count, history
<1>12. ASSUME NEW w \in Worker, RefreshAlive(w) PROVE LogoutInv'
  BY <1>12, GotoOp DEF RefreshAlive, At, keys, count, history
<1>13. ASSUME NEW w \in Worker, RefreshDrop(w) PROVE LogoutInv'
  BY <1>13, DoneOp DEF RefreshDrop, At, count, history
<1>14. ASSUME NEW w \in Worker, RefreshRotate(w) PROVE LogoutInv'
  BY <1>14, GotoOp DEF RefreshRotate, At, count
<1>15. ASSUME NEW w \in Worker, LogoutGet(w) PROVE LogoutInv'
  BY <1>15, LogoutGetOp DEF keys, count, history
<1>16. ASSUME NEW w \in Worker, LogoutEnd(w) PROVE LogoutInv'
  BY <1>16, GotoOp DEF LogoutEnd, EndSession, At, count, history
<1>17. ASSUME NEW w \in Worker, LogoutCurrent(w) PROVE LogoutInv'
  BY <1>17, GotoOp DEF LogoutCurrent, At, keys, count, history
<1>18. ASSUME NEW w \in Worker, LogoutClear(w) PROVE LogoutInv'
  BY <1>18, GotoOp DEF LogoutClear, At, count, history
<1>19. ASSUME NEW w \in Worker, LogoutUnlist(w) PROVE LogoutInv'
  BY <1>19, GotoOp DEF LogoutUnlist, At, count, history
<1>20. ASSUME NEW w \in Worker, LogoutDrop(w) PROVE LogoutInv'
  BY <1>20, GotoOp DEF LogoutDrop, At, count, history
<1>21. ASSUME NEW w \in Worker, LogoutBlacklist(w) PROVE LogoutInv'
  BY <1>21, DoneOp DEF LogoutBlacklist, At, count, history
<1>22. ASSUME NEW w \in Worker, RevokeList(w) PROVE LogoutInv'
  BY <1>22, RevokeListOp DEF keys, count, history
<1>23. ASSUME NEW w \in Worker, RevokeEnd(w) PROVE LogoutInv'
  BY <1>23, RevokeEndOp DEF EndSession, count, history
<1>24. ASSUME NEW w \in Worker, RevokeClear(w) PROVE LogoutInv'
  BY <1>24, DoneOp DEF RevokeClear, At, count, history
<1>25. ASSUME NEW w \in Worker, Abandon(w) PROVE LogoutInv'
  BY <1>25, DoneOp DEF Abandon, At, keys, count, history
<1>26. ASSUME NEW w \in Worker, IgnoredError(w) PROVE LogoutInv'
  BY <1>26, GotoOp, DoneOp DEF IgnoredError, At, keys, history
<1>27. CASE UNCHANGED vars
  BY <1>27 DEF vars, keys, count, history
<1> QED
  BY <1>1, <1>2, <1>3, <1>4, <1>5, <1>6, <1>7, <1>8, <1>9, <1>10, <1>11, <1>12, <1>13, <1>14,
     <1>15, <1>16, <1>17, <1>18, <1>19, <1>20, <1>21, <1>22, <1>23, <1>24, <1>25, <1>26, <1>27
     DEF Next, Step, Quiet

-----------------------------------------------------------------------------
(* The theorems. *)

\* The invariant holds of every behaviour.
THEOREM AuthInvariance == Spec => []AuthInv
<1>1. Init => AuthInv
  <2> SUFFICES ASSUME Init PROVE AuthInv
    OBVIOUS
  <2>1. KeysOK
    BY DEF Init, KeysOK, Reason
  <2>2. FlagsOK
    BY Zenon DEF Init, FlagsOK, AuthAssumption
  <2>3. /\ OpsOK
        /\ \A w \in Worker : /\ op[w].at = "idle"
                             /\ op[w].session = NoSession /\ op[w].old = NoSession
    BY DEF Init, OpsOK, Op, Idle, Reason
  <2>4. PlaceInv /\ BornInv /\ FreshInv /\ SpentInv /\ OnceInv /\ ExchangedOnce /\ UnlistInv
    BY <2>1, <2>3 DEF Init, KeysOK, PlaceInv, BornInv, FreshInv, SpentInv, OnceInv, HasRead,
                      ExchangedOnce, UnlistInv, HasSession, HasToken, LoggingIn, Issued
  <2>5. RevokeInv /\ AloneInv /\ SingleInv /\ LogoutInv
    BY <2>3 DEF Init, RevokeInv, AloneInv, SingleInv, LogoutInv
  <2> QED
    BY <2>1, <2>2, <2>3, <2>4, <2>5 DEF AuthInv
<1>2. AuthInv /\ [Next]_vars => AuthInv'
  <2> SUFFICES ASSUME AuthInv, [Next]_vars PROVE AuthInv'
    OBVIOUS
  <2>1. /\ KeysOK /\ FlagsOK /\ OpsOK /\ PlaceInv /\ BornInv /\ FreshInv /\ SpentInv
        /\ OnceInv /\ ExchangedOnce /\ UnlistInv /\ RevokeInv /\ AloneInv /\ SingleInv /\ LogoutInv
    BY DEF AuthInv
  <2>2. KeysOK' /\ FlagsOK' /\ OpsOK' /\ PlaceInv' /\ BornInv' /\ FreshInv'
    BY <2>1, KeysStep, FlagsStep, OpsStep, PlaceStep, BornStep, FreshStep
  <2>3. SpentInv' /\ OnceInv' /\ ExchangedOnce' /\ UnlistInv' /\ RevokeInv' /\ AloneInv' /\ SingleInv' /\ LogoutInv'
    BY <2>1, SpentStep, OnceStep, UnlistStep, RevokeStep, AloneStep, SingleStep, LogoutStep
  <2> QED
    BY <2>2, <2>3 DEF AuthInv
<1> QED
  BY <1>1, <1>2, PTL DEF Spec

\* Every key, every operation and every flag has its type.
THEOREM TypeCorrect == Spec => []TypeOK
<1>1. AuthInv => TypeOK
  <2> SUFFICES ASSUME AuthInv PROVE TypeOK
    OBVIOUS
  <2>1. KeysOK /\ FlagsOK /\ OpsOK
    BY DEF AuthInv
  <2> QED
    BY <2>1, Zenon DEF TypeOK, KeysOK, FlagsOK, OpsOK
<1> QED
  BY <1>1, AuthInvariance, PTL

\* RevokeAll finds every session alive, except after the one race the code
\* has: of SMembers and Del in RevokeAll with the start of a session.
THEOREM RaceOnly == Spec => []OnlyTheRaceUnlists
<1>1. AuthInv => OnlyTheRaceUnlists
  BY DEF AuthInv, RevokeInv, OnlyTheRaceUnlists
<1> QED
  BY <1>1, AuthInvariance, PTL

\* For any number of operations and whatever they fail at: a refresh token is
\* exchanged once, unless two Refreshes had read its record before either
\* retired it.
THEOREM OnePairPerToken == Spec => []ExchangedOnce
<1>1. AuthInv => ExchangedOnce
  BY DEF AuthInv
<1> QED
  BY <1>1, AuthInvariance, PTL

\* single_session leaves one session alive, for operations that follow one
\* another, wherever they stop.
THEOREM OneAlive == Spec => []OneLiveSession
<1>1. AuthInv => OneLiveSession
  <2> SUFFICES ASSUME AuthInv, single, ~overlapped, errors = 0 PROVE Cardinality(alive) <= 1
    BY DEF OneLiveSession
  <2>1. alive = {} \/ alive = {current}
    BY DEF AuthInv, SingleInv
  <2>2. Cardinality({}) = 0 /\ Cardinality({current}) = 1
    BY FS_EmptySet, FS_Singleton
  <2> QED
    BY <2>1, <2>2
<1> QED
  BY <1>1, AuthInvariance, PTL

EndStays ==
    /\ \A s \in Session : ended[s] # "none" => ended'[s] = ended[s]
    /\ \A t \in Issued : sessionOf[t] \notin alive => ~Accepts(t)'

\* No step rewrites why a session ended or makes it live again.
LEMMA EndStep ==
    ASSUME OpsOK, KeysOK, PlaceInv, FreshInv, [Next]_vars
    PROVE  EndStays
<1> USE DEF EndStays, Accepts, KeysOK, PlaceInv, FreshInv, LoggingIn, HasSession, Issued
<1>1. ASSUME NEW w \in Worker, CallLogin(w) PROVE EndStays
  BY <1>1, CallLoginOp DEF keys
<1>2. ASSUME NEW w \in Worker, CallRefresh(w) PROVE EndStays
  BY <1>2, CallRefreshOp DEF keys
<1>3. ASSUME NEW w \in Worker, CallLogout(w) PROVE EndStays
  BY <1>3, CallLogoutOp DEF keys
<1>4. ASSUME NEW w \in Worker, CallRevokeAll(w) PROVE EndStays
  BY <1>4, CallRevokeAllOp DEF keys
<1>5. ASSUME NEW w \in Worker, LoginGet(w) PROVE EndStays
  BY <1>5, LoginGetOp DEF keys, count, history
<1>6. ASSUME NEW w \in Worker, LoginEnd(w) PROVE EndStays
  BY <1>6, GotoOp DEF LoginEnd, EndSession, At, EndedFirst, Reason
<1>7. ASSUME NEW w \in Worker, LoginUnlist(w) PROVE EndStays
  BY <1>7, GotoOp DEF LoginUnlist, At
<1>8. ASSUME NEW w \in Worker, LoginStart(w) PROVE EndStays
  BY <1>8, GotoOp DEF LoginStart, At
<1>9. ASSUME NEW w \in Worker, Issue(w) PROVE EndStays
  BY <1>9, DoneOp DEF Issue, At
<1>10. ASSUME NEW w \in Worker, RefreshGet(w) PROVE EndStays
  BY <1>10, RefreshGetOp DEF keys, count, history
<1>11. ASSUME NEW w \in Worker, RefreshUsed(w) PROVE EndStays
  BY <1>11, RefreshUsedOp DEF keys, count, history
<1>12. ASSUME NEW w \in Worker, RefreshAlive(w) PROVE EndStays
  BY <1>12, GotoOp DEF RefreshAlive, At, keys, count, history
<1>13. ASSUME NEW w \in Worker, RefreshDrop(w) PROVE EndStays
  BY <1>13, DoneOp DEF RefreshDrop, At
<1>14. ASSUME NEW w \in Worker, RefreshRotate(w) PROVE EndStays
  BY <1>14, GotoOp DEF RefreshRotate, At
<1>15. ASSUME NEW w \in Worker, LogoutGet(w) PROVE EndStays
  BY <1>15, LogoutGetOp DEF keys, count, history
<1>16. ASSUME NEW w \in Worker, LogoutEnd(w) PROVE EndStays
  BY <1>16, GotoOp DEF LogoutEnd, EndSession, At, EndedFirst, Reason
<1>17. ASSUME NEW w \in Worker, LogoutCurrent(w) PROVE EndStays
  BY <1>17, GotoOp DEF LogoutCurrent, At, keys, count, history
<1>18. ASSUME NEW w \in Worker, LogoutClear(w) PROVE EndStays
  BY <1>18, GotoOp DEF LogoutClear, At
<1>19. ASSUME NEW w \in Worker, LogoutUnlist(w) PROVE EndStays
  BY <1>19, GotoOp DEF LogoutUnlist, At
<1>20. ASSUME NEW w \in Worker, LogoutDrop(w) PROVE EndStays
  BY <1>20, GotoOp DEF LogoutDrop, At
<1>21. ASSUME NEW w \in Worker, LogoutBlacklist(w) PROVE EndStays
  BY <1>21, DoneOp DEF LogoutBlacklist, At
<1>22. ASSUME NEW w \in Worker, RevokeList(w) PROVE EndStays
  BY <1>22, RevokeListOp DEF keys, count, history
<1>23. ASSUME NEW w \in Worker, RevokeEnd(w) PROVE EndStays
  BY <1>23, RevokeEndOp, OpFields DEF EndSession, count, history, EndedFirst, Reason
<1>24. ASSUME NEW w \in Worker, RevokeClear(w) PROVE EndStays
  BY <1>24, DoneOp DEF RevokeClear, At
<1>25. ASSUME NEW w \in Worker, Abandon(w) PROVE EndStays
  BY <1>25, DoneOp DEF Abandon, At, keys, count, history
<1>26. ASSUME NEW w \in Worker, IgnoredError(w) PROVE EndStays
  BY <1>26, GotoOp, DoneOp DEF IgnoredError, At, keys, history
<1>27. CASE UNCHANGED vars
  BY <1>27 DEF vars, keys, count, history
<1> QED
  BY <1>1, <1>2, <1>3, <1>4, <1>5, <1>6, <1>7, <1>8, <1>9, <1>10, <1>11, <1>12, <1>13, <1>14,
     <1>15, <1>16, <1>17, <1>18, <1>19, <1>20, <1>21, <1>22, <1>23, <1>24, <1>25, <1>26, <1>27
     DEF Next, Step, Quiet

\* The end of a session is final: Login, Refresh, Logout and RevokeAll, in
\* whatever order their round trips come, revive none of its tokens and
\* keep the first reason endSession recorded.
THEOREM EndsAreFinal == Spec => EndIsFinal
<1>1. AuthInv /\ [Next]_vars => EndStays
  BY EndStep DEF AuthInv
<1> QED
  BY <1>1, AuthInvariance, PTL DEF Spec, EndIsFinal, EndStays

ReturnKeeps ==
    \A u \in Worker : op[u].at \in {"revoke.clear", "logout.blacklist"} /\ op'[u].at = "idle"
                      => alive' \subseteq alive

\* A revocation or a logout that returns starts no session.
LEMMA ReturnStep ==
    ASSUME OpsOK, KeysOK, [Next]_vars
    PROVE  ReturnKeeps
<1> USE DEF ReturnKeeps
<1>1. ASSUME NEW w \in Worker, CallLogin(w) PROVE ReturnKeeps
  BY <1>1, CallLoginOp DEF keys
<1>2. ASSUME NEW w \in Worker, CallRefresh(w) PROVE ReturnKeeps
  BY <1>2, CallRefreshOp DEF keys
<1>3. ASSUME NEW w \in Worker, CallLogout(w) PROVE ReturnKeeps
  BY <1>3, CallLogoutOp DEF keys
<1>4. ASSUME NEW w \in Worker, CallRevokeAll(w) PROVE ReturnKeeps
  BY <1>4, CallRevokeAllOp DEF keys
<1>5. ASSUME NEW w \in Worker, LoginGet(w) PROVE ReturnKeeps
  BY <1>5, LoginGetOp DEF keys, count, history
<1>6. ASSUME NEW w \in Worker, LoginEnd(w) PROVE ReturnKeeps
  BY <1>6, GotoOp DEF LoginEnd, EndSession, At
<1>7. ASSUME NEW w \in Worker, LoginUnlist(w) PROVE ReturnKeeps
  BY <1>7, GotoOp DEF LoginUnlist, At
<1>8. ASSUME NEW w \in Worker, LoginStart(w) PROVE ReturnKeeps
  BY <1>8, GotoOp DEF LoginStart, At
<1>9. ASSUME NEW w \in Worker, Issue(w) PROVE ReturnKeeps
  BY <1>9, DoneOp DEF Issue, At
<1>10. ASSUME NEW w \in Worker, RefreshGet(w) PROVE ReturnKeeps
  BY <1>10, RefreshGetOp DEF keys, count, history
<1>11. ASSUME NEW w \in Worker, RefreshUsed(w) PROVE ReturnKeeps
  BY <1>11, RefreshUsedOp DEF keys, count, history
<1>12. ASSUME NEW w \in Worker, RefreshAlive(w) PROVE ReturnKeeps
  BY <1>12, GotoOp DEF RefreshAlive, At, keys, count, history
<1>13. ASSUME NEW w \in Worker, RefreshDrop(w) PROVE ReturnKeeps
  BY <1>13, DoneOp DEF RefreshDrop, At
<1>14. ASSUME NEW w \in Worker, RefreshRotate(w) PROVE ReturnKeeps
  BY <1>14, GotoOp DEF RefreshRotate, At
<1>15. ASSUME NEW w \in Worker, LogoutGet(w) PROVE ReturnKeeps
  BY <1>15, LogoutGetOp DEF keys, count, history
<1>16. ASSUME NEW w \in Worker, LogoutEnd(w) PROVE ReturnKeeps
  BY <1>16, GotoOp DEF LogoutEnd, EndSession, At
<1>17. ASSUME NEW w \in Worker, LogoutCurrent(w) PROVE ReturnKeeps
  BY <1>17, GotoOp DEF LogoutCurrent, At, keys, count, history
<1>18. ASSUME NEW w \in Worker, LogoutClear(w) PROVE ReturnKeeps
  BY <1>18, GotoOp DEF LogoutClear, At
<1>19. ASSUME NEW w \in Worker, LogoutUnlist(w) PROVE ReturnKeeps
  BY <1>19, GotoOp DEF LogoutUnlist, At
<1>20. ASSUME NEW w \in Worker, LogoutDrop(w) PROVE ReturnKeeps
  BY <1>20, GotoOp DEF LogoutDrop, At
<1>21. ASSUME NEW w \in Worker, LogoutBlacklist(w) PROVE ReturnKeeps
  BY <1>21, DoneOp DEF LogoutBlacklist, At
<1>22. ASSUME NEW w \in Worker, RevokeList(w) PROVE ReturnKeeps
  BY <1>22, RevokeListOp DEF keys, count, history
<1>23. ASSUME NEW w \in Worker, RevokeEnd(w) PROVE ReturnKeeps
  BY <1>23, RevokeEndOp DEF EndSession, count, history
<1>24. ASSUME NEW w \in Worker, RevokeClear(w) PROVE ReturnKeeps
  BY <1>24, DoneOp DEF RevokeClear, At
<1>25. ASSUME NEW w \in Worker, Abandon(w) PROVE ReturnKeeps
  BY <1>25, DoneOp DEF Abandon, At, keys, count, history
<1>26. ASSUME NEW w \in Worker, IgnoredError(w) PROVE ReturnKeeps
  BY <1>26, GotoOp, DoneOp DEF IgnoredError, At, keys, history
<1>27. CASE UNCHANGED vars
  BY <1>27 DEF vars, keys, count, history
<1> QED
  BY <1>1, <1>2, <1>3, <1>4, <1>5, <1>6, <1>7, <1>8, <1>9, <1>10, <1>11, <1>12, <1>13, <1>14,
     <1>15, <1>16, <1>17, <1>18, <1>19, <1>20, <1>21, <1>22, <1>23, <1>24, <1>25, <1>26, <1>27
     DEF Next, Step, Quiet

\* RevokeAll, and the replay of a refresh token, end every session that was
\* alive when they were called, unless the race or an error unlisted one.
THEOREM RevokedForGood == Spec => RevokedUnlessUnlisted
<1> DEFINE Returned == \A w \in Worker : RevokeReturns(w) /\ ~raced /\ errors = 0
                                         => op[w].promise \cap alive' = {}
<1>1. AuthInv /\ [Next]_vars => Returned
  <2> SUFFICES ASSUME AuthInv, [Next]_vars, NEW w \in Worker,
                      RevokeReturns(w), ~raced, errors = 0
               PROVE  op[w].promise \cap alive' = {}
    OBVIOUS
  <2>1. alive' \subseteq alive
    BY ReturnStep DEF AuthInv, ReturnKeeps, RevokeReturns, At
  <2>2. alive = {}
    BY DEF AuthInv, RevokeInv, RevokeReturns, At
  <2> QED
    BY <2>1, <2>2
<1> QED
  BY <1>1, AuthInvariance, PTL DEF Spec, RevokedUnlessUnlisted

\* Logout ends the session its refresh token belongs to, for operations
\* that follow one another.
THEOREM LogoutEnds == Spec => LogoutEndsTheSession
<1> DEFINE Returned == \A w \in Worker : At(w, "logout.blacklist") /\ At(w, "idle")'
                                         /\ ~overlapped /\ errors = 0
                                         => op[w].promise \cap alive' = {}
<1>1. AuthInv /\ [Next]_vars => Returned
  <2> SUFFICES ASSUME AuthInv, [Next]_vars, NEW w \in Worker,
                      At(w, "logout.blacklist"), At(w, "idle")', ~overlapped, errors = 0
               PROVE  op[w].promise \cap alive' = {}
    OBVIOUS
  <2>1. alive' \subseteq alive
    BY ReturnStep DEF AuthInv, ReturnKeeps, At
  <2>2. op[w].promise \cap alive = {}
    BY DEF AuthInv, LogoutInv, At
  <2> QED
    BY <2>1, <2>2
<1> QED
  BY <1>1, AuthInvariance, PTL DEF Spec, LogoutEndsTheSession
=============================================================================
