---------------------------- MODULE AuthSession -----------------------------
(***************************************************************************)
(* The sessions of one principal in authx (authx/authx.go): the keys that  *)
(* Login, Refresh, Logout and RevokeAll keep in Redis, one action per round *)
(* trip (a TxPipeline is one), with any number of operations under way.    *)
(*                                                                         *)
(* An access token and the refresh token issued with it are one Token: the *)
(* access half is good while the session is alive and its jti is not       *)
(* blacklisted.  Lifetimes (RefreshTTL, AccessTTL) are not modelled.       *)
(***************************************************************************)
EXTENDS Integers, FiniteSets

CONSTANTS
    Session,        \* ids that Login may draw
    Token,          \* pairs that issue may draw
    Worker,         \* goroutines that serve the operations
    NoSession, NoToken,
    SingleSession,  \* the values of auth.single_session looked at
    GivenReason,    \* the reasons RevokeAll is called with ("none": the empty one)
    MaxCalls,       \* bound: operations called
    MaxErrors       \* bound: Redis operations that fail and are ignored

ASSUME AuthAssumption ==
    /\ NoSession \notin Session /\ NoToken \notin Token
    /\ SingleSession \subseteq BOOLEAN
    /\ MaxCalls \in Nat /\ MaxErrors \in Nat

Reason == {"none", "replaced", "logout", "refresh_replayed", "disabled"}

ASSUME ReasonAssumption == GivenReason \subseteq Reason

VARIABLES
    single,       \* auth.single_session; a configuration value, never changed
    current,      \* auth:session, the principal's latest session
    listed,       \* auth:sessions, the set RevokeAll goes through
    alive,        \* sessions whose alive key exists
    ended,        \* the recorded reason of a session's end
    refresh,      \* refresh tokens that can be exchanged
    used,         \* refresh tokens that were exchanged
    blacklist,    \* access tokens blacklisted by Logout
    sessionOf,    \* the session a token was issued for (in its claims and record)
    born,         \* sessions that were drawn
    op,           \* each worker's operation, see Op
    calls, errors,
    exchanges,    \* history: how often each refresh token was exchanged
    doubled,      \* history: tokens that two Refreshes had read before either
                  \* exchanged them
    overlapped,   \* history: two operations were under way at once
    raced         \* history: a session started while a RevokeAll was under way

keys == <<current, listed, alive, ended, refresh, used, blacklist>>
count == <<single, calls, errors>>
history == <<exchanges, doubled, overlapped, raced>>
vars == <<keys, sessionOf, born, op, count, history>>

\* at names the next round trip; promise is history: the sessions this
\* operation is to have ended when it returns.
Op == [at : {"idle",
             "login.get", "login.end", "login.unlist", "login.start",
             "issue",
             "refresh.get", "refresh.used", "refresh.alive", "refresh.drop", "refresh.rotate",
             "logout.get", "logout.end", "logout.current", "logout.clear",
             "logout.unlist", "logout.drop", "logout.blacklist",
             "revoke.list", "revoke.end", "revoke.clear"},
       session : Session \cup {NoSession},
       old : Session \cup {NoSession},
       token : Token \cup {NoToken},
       todo : SUBSET Session,
       reason : Reason,
       promise : SUBSET Session]

Idle == [at |-> "idle", session |-> NoSession, old |-> NoSession, token |-> NoToken,
         todo |-> {}, reason |-> "none", promise |-> {}]

TypeOK ==
    /\ current \in Session \cup {NoSession}
    /\ listed \subseteq Session /\ alive \subseteq Session /\ born \subseteq Session
    /\ ended \in [Session -> Reason]
    /\ refresh \subseteq Token /\ used \subseteq Token /\ blacklist \subseteq Token
    /\ sessionOf \in [Token -> Session \cup {NoSession}]
    /\ op \in [Worker -> Op]
    /\ single \in BOOLEAN /\ calls \in 0..MaxCalls /\ errors \in 0..MaxErrors
    /\ exchanges \in [Token -> Nat] /\ doubled \subseteq Token
    /\ overlapped \in BOOLEAN /\ raced \in BOOLEAN

Init ==
    /\ current = NoSession /\ listed = {} /\ alive = {} /\ born = {}
    /\ ended = [s \in Session |-> "none"]
    /\ refresh = {} /\ used = {} /\ blacklist = {}
    /\ sessionOf = [t \in Token |-> NoSession]
    /\ op = [w \in Worker |-> Idle]
    /\ single \in SingleSession /\ calls = 0 /\ errors = 0
    /\ exchanges = [t \in Token |-> 0] /\ doubled = {} /\ overlapped = FALSE /\ raced = FALSE

-----------------------------------------------------------------------------
(* Calls, and the helpers that the steps share. *)

At(w, here) == op[w].at = here

Issued == {t \in Token : sessionOf[t] # NoSession}

Call(w, o) ==
    /\ At(w, "idle")
    /\ calls < MaxCalls /\ calls' = calls + 1
    /\ op' = [op EXCEPT ![w] = o]
    /\ overlapped' = (overlapped \/ \E v \in Worker : ~At(v, "idle"))
    /\ UNCHANGED <<single, errors, exchanges, doubled, raced>>

Goto(w, there) == op' = [op EXCEPT ![w].at = there]

Done(w) == op' = [op EXCEPT ![w] = Idle]

EndedAnew(s, reason) == [ended EXCEPT ![s] = reason]

\* SetNX: the first reason recorded stays.
EndedFirst(s, reason) == [ended EXCEPT ![s] = IF @ = "none" THEN reason ELSE @]

EndSessionInNameOnly(s, reason) == UNCHANGED alive /\ ended' = EndedFirst(s, reason)

\* endSession: one TxPipeline; an empty reason ("none") is not recorded.
EndSession(s, reason) == alive' = alive \ {s} /\ ended' = EndedFirst(s, reason)

CallLogin(w) ==
    /\ \E s \in Session \ born :
         /\ born' = born \cup {s}
         /\ Call(w, [Idle EXCEPT !.at = IF single THEN "login.get" ELSE "login.start",
                                 !.session = s])
    /\ UNCHANGED <<keys, sessionOf>>

CallRefresh(w) ==
    /\ \E t \in Issued :
         Call(w, [Idle EXCEPT !.at = "refresh.get", !.token = t,
                              !.promise = IF t \in used THEN alive ELSE {}])
    /\ UNCHANGED <<keys, sessionOf, born>>

CallLogout(w) ==
    /\ \E t \in Issued :
         Call(w, [Idle EXCEPT !.at = "logout.get", !.token = t,
                              !.promise = IF t \in refresh THEN {sessionOf[t]} ELSE {}])
    /\ UNCHANGED <<keys, sessionOf, born>>

CallRevokeAll(w) ==
    /\ \E reason \in GivenReason :
         Call(w, [Idle EXCEPT !.at = "revoke.list", !.reason = reason, !.promise = alive])
    /\ UNCHANGED <<keys, sessionOf, born>>

-----------------------------------------------------------------------------
(* Login. *)

LoginGet(w) ==
    /\ At(w, "login.get")
    /\ op' = [op EXCEPT ![w].old = current,
                        ![w].at = IF current = NoSession THEN "login.start" ELSE "login.end"]
    /\ UNCHANGED <<keys, sessionOf, born, count, history>>

LoginEnd(w) ==
    /\ At(w, "login.end")
    /\ EndSession(op[w].old, "replaced")
    /\ Goto(w, "login.unlist")
    /\ UNCHANGED <<current, listed, refresh, used, blacklist, sessionOf, born, count, history>>

LoginUnlist(w) ==
    /\ At(w, "login.unlist")
    /\ listed' = listed \ {op[w].old}
    /\ Goto(w, "login.start")
    /\ UNCHANGED <<current, alive, ended, refresh, used, blacklist, sessionOf, born, count, history>>

Revoking == \E w \in Worker : op[w].at \in {"revoke.end", "revoke.clear"}

StartUnlisted(w) ==
    /\ At(w, "login.start")
    /\ current' = op[w].session
    /\ alive' = alive \cup {op[w].session}
    /\ Goto(w, "issue")
    /\ UNCHANGED <<listed, ended, refresh, used, blacklist, sessionOf, born, count, history>>

LoginStart(w) ==
    /\ At(w, "login.start")
    /\ current' = op[w].session
    /\ listed' = listed \cup {op[w].session}
    /\ alive' = alive \cup {op[w].session}
    /\ raced' = (raced \/ Revoking)
    /\ Goto(w, "issue")
    /\ UNCHANGED <<ended, refresh, used, blacklist, sessionOf, born, count,
                   exchanges, doubled, overlapped>>

\* issue: sign an access token, store the refresh token's record.
Issue(w) ==
    /\ At(w, "issue")
    /\ \E t \in Token \ Issued :
         /\ sessionOf' = [sessionOf EXCEPT ![t] = op[w].session]
         /\ refresh' = refresh \cup {t}
    /\ Done(w)
    /\ UNCHANGED <<current, listed, alive, ended, used, blacklist, born, count, history>>

-----------------------------------------------------------------------------
(* Refresh. *)

\* The operation has the token's record and will exchange the token.
HasRead(w, t) == op[w].token = t /\ op[w].at \in {"refresh.alive", "refresh.rotate"}

RefreshGet(w) ==
    LET t == op[w].token IN
    /\ At(w, "refresh.get")
    /\ IF t \in refresh
       THEN op' = [op EXCEPT ![w].at = "refresh.alive", ![w].session = sessionOf[t]]
       ELSE Goto(w, "refresh.used")
    /\ doubled' = IF t \in refresh /\ \E v \in Worker : HasRead(v, t)
                  THEN doubled \cup {t} ELSE doubled
    /\ UNCHANGED <<keys, sessionOf, born, count, exchanges, overlapped, raced>>

\* A token exchanged before: RevokeAll, then ErrRefreshReplayed.  A token
\* never seen: ErrRefreshInvalid.
RefreshUsed(w) ==
    /\ At(w, "refresh.used")
    /\ IF op[w].token \in used
       THEN op' = [op EXCEPT ![w].at = "revoke.list", ![w].reason = "refresh_replayed"]
       ELSE Done(w)
    /\ UNCHANGED <<keys, sessionOf, born, count, history>>

RefreshAlive(w) ==
    /\ At(w, "refresh.alive")
    /\ Goto(w, IF op[w].session \in alive THEN "refresh.rotate" ELSE "refresh.drop")
    /\ UNCHANGED <<keys, sessionOf, born, count, history>>

RefreshDrop(w) ==
    /\ At(w, "refresh.drop")
    /\ refresh' = refresh \ {op[w].token}
    /\ Done(w)
    /\ UNCHANGED <<current, listed, alive, ended, used, blacklist, sessionOf, born, count, history>>

RotateKeepsTheRecord(w) ==
    LET t == op[w].token IN
    /\ At(w, "refresh.rotate")
    /\ used' = used \cup {t}
    /\ exchanges' = [exchanges EXCEPT ![t] = @ + 1]
    /\ Goto(w, "issue")
    /\ UNCHANGED <<current, listed, alive, ended, refresh, blacklist, sessionOf, born, count,
                   doubled, overlapped, raced>>

RefreshRotate(w) ==
    LET t == op[w].token IN
    /\ At(w, "refresh.rotate")
    /\ refresh' = refresh \ {t}
    /\ used' = used \cup {t}
    /\ exchanges' = [exchanges EXCEPT ![t] = @ + 1]
    /\ Goto(w, "issue")
    /\ UNCHANGED <<current, listed, alive, ended, blacklist, sessionOf, born, count,
                   doubled, overlapped, raced>>

-----------------------------------------------------------------------------
(* Logout. *)

LogoutGet(w) ==
    LET t == op[w].token IN
    /\ At(w, "logout.get")
    /\ IF t \in refresh
       THEN op' = [op EXCEPT ![w].at = "logout.end", ![w].session = sessionOf[t]]
       ELSE Goto(w, "logout.blacklist")
    /\ UNCHANGED <<keys, sessionOf, born, count, history>>

LogoutEnd(w) ==
    /\ At(w, "logout.end")
    /\ EndSession(op[w].session, "logout")
    /\ Goto(w, "logout.current")
    /\ UNCHANGED <<current, listed, refresh, used, blacklist, sessionOf, born, count, history>>

LogoutClearsAnyway(w) ==
    /\ At(w, "logout.current")
    /\ Goto(w, "logout.clear")
    /\ UNCHANGED <<keys, sessionOf, born, count, history>>

LogoutCurrent(w) ==
    /\ At(w, "logout.current")
    /\ Goto(w, IF current = op[w].session THEN "logout.clear" ELSE "logout.unlist")
    /\ UNCHANGED <<keys, sessionOf, born, count, history>>

LogoutClear(w) ==
    /\ At(w, "logout.clear")
    /\ current' = NoSession
    /\ Goto(w, "logout.unlist")
    /\ UNCHANGED <<listed, alive, ended, refresh, used, blacklist, sessionOf, born, count, history>>

LogoutUnlist(w) ==
    /\ At(w, "logout.unlist")
    /\ listed' = listed \ {op[w].session}
    /\ Goto(w, "logout.drop")
    /\ UNCHANGED <<current, alive, ended, refresh, used, blacklist, sessionOf, born, count, history>>

LogoutDrop(w) ==
    /\ At(w, "logout.drop")
    /\ refresh' = refresh \ {op[w].token}
    /\ Goto(w, "logout.blacklist")
    /\ UNCHANGED <<current, listed, alive, ended, used, blacklist, sessionOf, born, count, history>>

\* The access token the client sends along, if any and not expired.
LogoutBlacklist(w) ==
    /\ At(w, "logout.blacklist")
    /\ blacklist' \in {blacklist, blacklist \cup {op[w].token}}
    /\ Done(w)
    /\ UNCHANGED <<current, listed, alive, ended, refresh, used, sessionOf, born, count, history>>

-----------------------------------------------------------------------------
(* RevokeAll, on its own or for a replayed refresh token. *)

RevokeList(w) ==
    /\ At(w, "revoke.list")
    /\ op' = [op EXCEPT ![w].todo = listed,
                        ![w].at = IF listed = {} THEN "revoke.clear" ELSE "revoke.end"]
    /\ UNCHANGED <<keys, sessionOf, born, count, history>>

RevokeEnd(w) ==
    /\ At(w, "revoke.end")
    /\ \E s \in op[w].todo :
         /\ EndSession(s, op[w].reason)
         /\ op' = [op EXCEPT ![w].todo = @ \ {s},
                             ![w].at = IF op[w].todo = {s} THEN "revoke.clear" ELSE @]
    /\ UNCHANGED <<current, listed, refresh, used, blacklist, sessionOf, born, count, history>>

RevokeClear(w) ==
    /\ At(w, "revoke.clear")
    /\ current' = NoSession /\ listed' = {}
    /\ Done(w)
    /\ UNCHANGED <<alive, ended, refresh, used, blacklist, sessionOf, born, count, history>>

-----------------------------------------------------------------------------
\* The operation gets no further: its process dies, or a round trip fails
\* whose error it returns.
Abandon(w) ==
    /\ ~At(w, "idle")
    /\ Done(w)
    /\ UNCHANGED <<keys, sessionOf, born, count, history>>

\* A round trip fails and the code goes on: a read as if it had found
\* nothing, a write as if it had been made.
IgnoredError(w) ==
    /\ errors < MaxErrors /\ errors' = errors + 1
    /\ \/ At(w, "login.get") /\ Goto(w, "login.start")
       \/ At(w, "login.unlist") /\ Goto(w, "login.start")
       \/ At(w, "refresh.used") /\ Done(w)
       \/ At(w, "refresh.alive") /\ Goto(w, "refresh.drop")
       \/ At(w, "logout.get") /\ Goto(w, "logout.blacklist")
       \/ At(w, "logout.current") /\ Goto(w, "logout.unlist")
       \/ At(w, "logout.clear") /\ Goto(w, "logout.unlist")
       \/ At(w, "logout.unlist") /\ Goto(w, "logout.drop")
       \/ At(w, "logout.drop") /\ Goto(w, "logout.blacklist")
       \/ At(w, "revoke.list") /\ Goto(w, "revoke.clear")
    /\ UNCHANGED <<keys, sessionOf, born, single, calls, history>>

\* Every operation is over and no other is called.
Quiet == (\A w \in Worker : At(w, "idle")) /\ UNCHANGED vars

Step(w) ==
    \/ CallLogin(w) \/ CallRefresh(w) \/ CallLogout(w) \/ CallRevokeAll(w)
    \/ LoginGet(w) \/ LoginEnd(w) \/ LoginUnlist(w) \/ LoginStart(w) \/ Issue(w)
    \/ RefreshGet(w) \/ RefreshUsed(w) \/ RefreshAlive(w) \/ RefreshDrop(w) \/ RefreshRotate(w)
    \/ LogoutGet(w) \/ LogoutEnd(w) \/ LogoutCurrent(w) \/ LogoutClear(w)
    \/ LogoutUnlist(w) \/ LogoutDrop(w) \/ LogoutBlacklist(w)
    \/ RevokeList(w) \/ RevokeEnd(w) \/ RevokeClear(w)
    \/ Abandon(w) \/ IgnoredError(w)

Next == Quiet \/ \E w \in Worker : Step(w)

Spec == Init /\ [][Next]_vars

-----------------------------------------------------------------------------
(* Verify: what a gateway accepts. *)

Accepts(t) == t \in Issued /\ t \notin blacklist /\ sessionOf[t] \in alive

(* Properties. *)

\* Every alive session can be found by RevokeAll, however the operations
\* interleave, except after the one race the code has: a Login that starts
\* its session between RevokeAll's SMembers and its Del.
OnlyTheRaceUnlists == (errors = 0 /\ ~raced) => alive \subseteq listed

\* A session that ended stays ended and keeps the reason it ended for: no
\* later login, refresh, logout or revocation, and none that was under way
\* when it ended, makes one of its tokens acceptable again or rewrites why.
EndIsFinal ==
    [][/\ \A s \in Session : ended[s] # "none" => ended'[s] = ended[s]
       /\ \A t \in Issued : sessionOf[t] \notin alive => ~Accepts(t)']_vars

\* "Refresh exchanges a refresh token for a new pair and retires the old
\* one": a token buys one pair, whatever the other operations do, stop
\* halfway or fail at, but for the race this code has: a second Refresh that
\* read the token's record before the first one retired it.
ExchangedOnce ==
    \A t \in Token : exchanges[t] > 1 => t \in doubled

\* single_session: "one live session per principal of this realm; a new
\* login ends the previous one".  It holds for operations that follow one
\* another, wherever they stop halfway; two logins at once may both read
\* the same previous session.
OneLiveSession ==
    (single /\ ~overlapped /\ errors = 0) => Cardinality(alive) <= 1

\* A RevokeAll, called by its name or for a replayed refresh token, is over.
RevokeReturns(w) == At(w, "revoke.clear") /\ listed' = {} /\ At(w, "idle")'

\* "RevokeAll ends every session of a principal", and so does the use of a
\* retired refresh token: every session alive when it was called is over
\* when it returns, whatever else is under way, unless a session has become
\* unlisted by the race above or the set could not be read.
RevokedUnlessUnlisted ==
    [][\A w \in Worker : RevokeReturns(w) /\ ~raced /\ errors = 0
                         => op[w].promise \cap alive' = {}]_vars

\* "Logout ends the session the refresh token belongs to": a refresh token
\* that was good when Logout was called has no live session afterwards, for
\* operations that follow one another.  (A Refresh at the same time takes
\* the token's record away, by which alone Logout finds the session.)
LogoutEndsTheSession ==
    [][\A w \in Worker : At(w, "logout.blacklist") /\ At(w, "idle")'
                         /\ ~overlapped /\ errors = 0
                         => op[w].promise \cap alive' = {}]_vars
=============================================================================
