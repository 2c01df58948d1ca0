--------------------------- MODULE LifecycleProofs ---------------------------
(***************************************************************************)
(* Proofs about the life of a process, for any features it has on: nothing *)
(* is closed underneath what still uses it, and the stop is orderly.       *)
(***************************************************************************)
EXTENDS Lifecycle, SequenceTheorems, TLAPS

(* The life of a process: the inductive invariant. *)

\* The order in which the hooks are registered.
Rank(h) ==
    CASE h = "mysql" -> 1 [] h = "tasks" -> 2 [] h = "redis" -> 3 [] h = "id" -> 4
      [] h = "relay" -> 5 [] h = "kafka" -> 6 [] h = "report" -> 7

Hook == {"mysql", "tasks", "redis", "id", "relay", "kafka", "report"}

\* The rank of the last hook that may be there when feature n is to be opened.
RankBefore(n) == IF n <= 5 THEN n - 1 ELSE n

LifeTypeOK ==
    /\ kind \in {"rpc", "http"} /\ on \subseteq Feature
    /\ phase \in {"opening", "opened", "failed", "starting", "listening", "serving", "stopping",
                  "left", "draining", "hooks", "over"}
    /\ opening \in 1..7 /\ open \subseteq Resource /\ hooks \in Seq(Hook)
    /\ hookAt \in Hook \cup {"none"}
    /\ started \subseteq Worker /\ busy \subseteq Worker /\ overdue \subseteq Worker
    /\ "tasks" \in on => "mysql" \in on
    /\ "relay" \in on => "mysql" \in on /\ "kafka" \in on

\* The hooks that have not begun, and those that are not done.
HooksLeft == {hooks[i] : i \in 1..Len(hooks)}
NotDone == HooksLeft \cup {hookAt}

\* The hooks stand in the order of their ranks, the one that runs behind.
HookOrder ==
    /\ \A i, j \in 1..Len(hooks) : i < j => Rank(hooks[i]) < Rank(hooks[j])
    /\ hookAt # "none" => phase = "hooks" /\ \A h \in HooksLeft : Rank(h) < Rank(hookAt)
    /\ phase = "opening" => \A h \in HooksLeft : Rank(h) <= RankBefore(opening)

\* What is open has a hook to close it, and what is closed was closed after
\* the hooks registered later.
ClosedInOrder ==
    /\ open \subseteq Opened
    /\ open \subseteq NotDone \cup broken
    /\ phase \notin {"hooks", "over"} => open = Opened
    /\ \A f \in Closed : \A h \in NotDone : h # "none" => Rank(h) < Rank(f)

\* The hook that stops a worker; the server is stopped by its phases.
StopHook(w) == IF w = "consumers" THEN "kafka" ELSE w

\* A worker runs only while the hook that stops it is still to come, and is
\* busy only until that hook is done, unless nobody waits for it any longer.
WorkersHaveHooks ==
    /\ phase \in {"opening", "opened"} => started = {}
    /\ phase = "opened" => opening = 7
    /\ phase \in {"opening", "opened"} =>
         /\ opening > 2 /\ "tasks" \in on => "tasks" \in HooksLeft
         /\ opening > 5 /\ "relay" \in on => "relay" \in HooksLeft
         /\ opening > 5 /\ "kafka" \in on => "kafka" \in HooksLeft
    /\ phase = "starting" /\ "kafka" \in on => "kafka" \in HooksLeft
    /\ \A w \in started \ {"requests"} : StopHook(w) \in HooksLeft
    /\ \A w \in busy \ {"requests"} : StopHook(w) \in NotDone \/ w \in overdue

ServerPhases ==
    /\ "requests" \in started => phase \in {"listening", "serving", "stopping", "left"}
    /\ "requests" \in busy => \/ phase \in {"listening", "serving", "stopping", "left", "draining"}
                              \/ "requests" \in overdue \/ gaveUp
    /\ gaveUp => /\ "requests" \notin started
                 /\ phase \notin {"opening", "opened", "starting", "listening", "serving"}
    /\ phase \in {"listening", "serving", "stopping"} => listening \/ gaveUp
    /\ registered => phase \in {"serving", "stopping"} \/ unregistering = "failed"
    /\ phase = "over" => hooks = <<>> /\ hookAt = "none"

LifeInv == LifeTypeOK /\ HookOrder /\ ClosedInOrder /\ WorkersHaveHooks /\ ServerPhases

-----------------------------------------------------------------------------
(* The life of a process: its steps preserve the invariant. *)

\* The steps of NewRuntime's caller, of the server and of the workers, which
\* open and close nothing and leave the hooks alone.
Runs ==
    \/ OpenFails \/ RunStarters \/ GateFails \/ Listen \/ ConsumersFail \/ ListenFails
    \/ Register \/ RegisterFails \/ Signal \/ ServerFails \/ Deregister \/ DeregisterFails
    \/ Shutdown \/ Drained \/ DrainTimesOut \/ HooksDone \/ ConsumersOverdue
    \/ \E w \in Worker : Works(w) \/ Finishes(w)

\* Nothing is open before NewRuntime, and no hook is registered.
LEMMA LifeInitInv == LifeInit => LifeInv
<1> SUFFICES ASSUME LifeInit PROVE LifeInv
  OBVIOUS
<1>1. Len(hooks) = 0 /\ hooks \in Seq(Hook) /\ HooksLeft = {}
  BY DEF LifeInit, HooksLeft
<1>2. Opened = {} /\ Closed = {}
  BY DEF LifeInit, Opened, Closed
<1>3. LifeTypeOK
  BY <1>1 DEF LifeInit, LifeTypeOK, Feature, Resource
<1>4. HookOrder /\ ClosedInOrder
  BY <1>1, <1>2 DEF LifeInit, HookOrder, ClosedInOrder
<1>5. WorkersHaveHooks /\ ServerPhases
  BY DEF LifeInit, WorkersHaveHooks, ServerPhases
<1> QED
  BY <1>3, <1>4, <1>5 DEF LifeInv

\* While hooks and resources stay, so does what is said of them.
LEMMA SameHooks ==
    ASSUME UNCHANGED <<on, opening, open, hooks, hookAt>>
    PROVE  HooksLeft' = HooksLeft /\ NotDone' = NotDone /\ Opened' = Opened /\ Closed' = Closed
BY DEF HooksLeft, NotDone, Opened, Closed

\* What the running of the service leaves alone, and where its phases lead.
LEMMA RunsDo ==
    ASSUME LifeTypeOK, HookOrder, Runs
    PROVE  /\ UNCHANGED <<kind, on, opening, open, hooks, hookAt, broken>>
           /\ overdue \subseteq overdue' /\ LifeTypeOK'
           /\ phase' # phase => hookAt = "none" /\ phase' # "opening"
           /\ phase' \notin {"hooks", "over"} => phase \notin {"hooks", "over"}
<1>1. /\ UNCHANGED <<kind, on, opening, open, hooks, hookAt, broken>>
      /\ overdue \subseteq overdue'
  BY DEF Runs, OpenFails, RunStarters, GateFails, Listen, ConsumersFail, ListenFails, Register,
         RegisterFails, Signal, ServerFails, Deregister, DeregisterFails, Shutdown, Drained,
         DrainTimesOut, HooksDone, ConsumersOverdue, Works, Finishes, Phase
<1>2. /\ phase' # phase => phase # "hooks" \/ hookAt = "none"
      /\ phase' # phase => phase' # "opening"
      /\ phase' \notin {"hooks", "over"} => phase \notin {"hooks", "over"}
  BY DEF Runs, OpenFails, RunStarters, GateFails, Listen, ConsumersFail, ListenFails, Register,
         RegisterFails, Signal, ServerFails, Deregister, DeregisterFails, Shutdown, Drained,
         DrainTimesOut, HooksDone, ConsumersOverdue, Works, Finishes, Phase
<1>3. started' \subseteq Worker /\ busy' \subseteq Worker /\ overdue' \subseteq Worker
  BY DEF Runs, OpenFails, RunStarters, GateFails, Listen, ConsumersFail, ListenFails, Register,
         RegisterFails, Signal, ServerFails, Deregister, DeregisterFails, Shutdown, Drained,
         DrainTimesOut, HooksDone, ConsumersOverdue, Works, Finishes, Phase, LifeTypeOK, Worker
<1>4. phase' \in {"opening", "opened", "failed", "starting", "listening", "serving", "stopping",
                  "left", "draining", "hooks", "over"}
  BY DEF Runs, OpenFails, RunStarters, GateFails, Listen, ConsumersFail, ListenFails, Register,
         RegisterFails, Signal, ServerFails, Deregister, DeregisterFails, Shutdown, Drained,
         DrainTimesOut, HooksDone, ConsumersOverdue, Works, Finishes, Phase, LifeTypeOK
<1> QED
  BY <1>1, <1>2, <1>3, <1>4 DEF LifeTypeOK, HookOrder

\* The running of the service: workers are started only with their hook to
\* come, and the hooks begin only when the server has done with its requests.
LEMMA RunsKeepLife ==
    ASSUME LifeInv, Runs
    PROVE  LifeInv'
<1> USE DEF LifeInv
<1>1. /\ UNCHANGED <<kind, on, opening, open, hooks, hookAt, broken>>
      /\ overdue \subseteq overdue' /\ LifeTypeOK'
      /\ phase' # phase => hookAt = "none" /\ phase' # "opening"
      /\ phase' \notin {"hooks", "over"} => phase \notin {"hooks", "over"}
  BY RunsDo
<1>2. HooksLeft' = HooksLeft /\ NotDone' = NotDone /\ Opened' = Opened /\ Closed' = Closed
  BY <1>1, SameHooks
<1>3. HookOrder'
  BY <1>1, <1>2 DEF HookOrder
<1>4. ClosedInOrder'
  BY <1>1, <1>2 DEF ClosedInOrder
<1>5. WorkersHaveHooks'
  <2>1. /\ phase' \in {"opening", "opened"} => phase' = phase
        /\ phase' = "starting" => phase \in {"opened", "starting"}
    BY DEF Runs, OpenFails, RunStarters, GateFails, Listen, ConsumersFail, ListenFails,
           Register,
           RegisterFails, Signal, ServerFails, Deregister, DeregisterFails, Shutdown, Drained,
           DrainTimesOut, HooksDone, ConsumersOverdue, Works, Finishes, Phase
  <2>2. phase' \in {"opening", "opened"} => started' = {}
    BY <2>1 DEF Runs, OpenFails, RunStarters, GateFails, Listen, ConsumersFail, ListenFails,
                Register,
           RegisterFails, Signal, ServerFails, Deregister, DeregisterFails, Shutdown, Drained,
           DrainTimesOut, HooksDone, ConsumersOverdue, Works, Finishes, Phase, WorkersHaveHooks
  <2>3. ASSUME NEW w \in started', w # "requests" PROVE StopHook(w) \in HooksLeft
    <3>1. \/ w \in started
          \/ phase = "opened" /\ w \in on \cap {"tasks", "relay"}
          \/ phase = "starting" /\ "kafka" \in on /\ w = "consumers"
      BY <2>3 DEF Runs, OpenFails, RunStarters, GateFails, Listen, ConsumersFail, ListenFails,
                  Register,
             RegisterFails, Signal, ServerFails, Deregister, DeregisterFails, Shutdown, Drained,
             DrainTimesOut, HooksDone, ConsumersOverdue, Works, Finishes, Phase
    <3> QED
      BY <2>3, <3>1 DEF WorkersHaveHooks, StopHook
  <2>4. ASSUME NEW w \in busy', w # "requests" PROVE StopHook(w) \in NotDone \/ w \in overdue
    <3>1. w \in busy \/ w \in started
      BY <2>4 DEF Runs, OpenFails, RunStarters, GateFails, Listen, ConsumersFail, ListenFails,
                  Register,
             RegisterFails, Signal, ServerFails, Deregister, DeregisterFails, Shutdown, Drained,
             DrainTimesOut, HooksDone, ConsumersOverdue, Works, Finishes, Phase
    <3> QED
      BY <2>4, <3>1 DEF WorkersHaveHooks, NotDone
  <2> QED
    BY <1>1, <1>2, <2>1, <2>2, <2>3, <2>4 DEF WorkersHaveHooks, StopHook
<1>6. ServerPhases'
  <2>1. CASE \E w \in Worker : Works(w) \/ Finishes(w)
    BY <2>1 DEF Works, Finishes, ServerPhases
  <2>2. CASE OpenFails \/ RunStarters \/ GateFails \/ ConsumersFail \/ ListenFails
    BY <2>2 DEF OpenFails, RunStarters, GateFails, ConsumersFail, ListenFails, Phase,
                ServerPhases
  <2>3. CASE Listen \/ Register \/ RegisterFails \/ Signal \/ ServerFails
    BY <2>3 DEF Listen, Register, RegisterFails, Signal, ServerFails, Phase, ServerPhases
  <2>4. CASE Deregister \/ DeregisterFails
    <3>1. phase = "stopping" /\ UNCHANGED <<started, busy, overdue, gaveUp>>
          /\ phase' \in {"hooks", "left"} /\ (phase' = "hooks" => gaveUp)
      BY <2>4 DEF Deregister, DeregisterFails, Phase
    <3>2. ~registered' \/ unregistering' = "failed"
      BY <2>4 DEF Deregister, DeregisterFails
    <3> QED
      BY <3>1, <3>2 DEF ServerPhases
  <2>5. CASE Shutdown \/ Drained \/ DrainTimesOut \/ HooksDone \/ ConsumersOverdue
    BY <2>5 DEF Shutdown, Drained, DrainTimesOut, HooksDone, ConsumersOverdue, Phase,
                ServerPhases
  <2> QED
    BY <2>1, <2>2, <2>3, <2>4, <2>5 DEF Runs
<1> QED
  BY <1>1, <1>3, <1>4, <1>5, <1>6

\* A list of hooks and a list put behind it: the hooks left are those of both.
LEMMA HooksJoin ==
    ASSUME LifeTypeOK, NEW more \in Seq(Hook), hooks' = hooks \o more
    PROVE  /\ hooks' \in Seq(Hook) /\ Len(hooks') = Len(hooks) + Len(more)
           /\ \A i \in 1..Len(hooks) : hooks'[i] = hooks[i]
           /\ \A i \in 1..Len(more) : hooks'[Len(hooks) + i] = more[i]
BY DEF LifeTypeOK

\* A feature that is opened registers its hooks behind those of the features
\* before it.
LEMMA OpenKeepsOrder ==
    ASSUME LifeInv, Open
    PROVE  /\ hooks' \in Seq(Hook) /\ HooksLeft \subseteq HooksLeft'
           /\ \A i, j \in 1..Len(hooks') : i < j => Rank(hooks'[i]) < Rank(hooks'[j])
           /\ \A h \in HooksLeft' : Rank(h) <= RankBefore(opening + 1)
           /\ OpenOrder[opening] \in on => OpenOrder[opening] \in HooksLeft'
           /\ OpenOrder[opening] = "kafka" /\ "kafka" \in on /\ "relay" \in on => "relay" \in HooksLeft'
<1> USE DEF LifeInv
<1>0. phase = "opening" /\ opening \in 1..6 /\ Len(hooks) \in Nat /\ hooks \in Seq(Hook)
  BY DEF Open, OpenOrder, LifeTypeOK
<1> DEFINE f == OpenOrder[opening]
<1>f. /\ f \in Hook /\ RankBefore(opening) < Rank(f) /\ Rank(f) = RankBefore(opening + 1)
      /\ f = "kafka" => RankBefore(opening) = 4
  <2>1. opening = 1 \/ opening = 2 \/ opening = 3 \/ opening = 4 \/ opening = 5 \/ opening = 6
    BY <1>0
  <2> QED
    BY <2>1 DEF OpenOrder, Hook, Rank, RankBefore
<1>r. /\ \A h \in Hook : Rank(h) \in Nat
      /\ RankBefore(opening) \in Nat /\ RankBefore(opening + 1) \in Nat
  BY <1>0 DEF Hook, Rank, RankBefore
<1>h. /\ \A i \in 1..Len(hooks) : hooks[i] \in Hook /\ Rank(hooks[i]) <= RankBefore(opening)
      /\ \A i, j \in 1..Len(hooks) : i < j => Rank(hooks[i]) < Rank(hooks[j])
  BY <1>0 DEF HookOrder, HooksLeft
<1> HIDE DEF f
<1>1. CASE f \notin on
  <2>1. hooks' = hooks
    BY <1>1 DEF Open, f
  <2>2. HooksLeft' = HooksLeft
    BY <2>1 DEF HooksLeft
  <2>3. \A h \in HooksLeft' : Rank(h) <= RankBefore(opening + 1)
    BY <1>f, <1>r, <1>h, <2>2 DEF HooksLeft
  <2> QED
    BY <1>0, <1>1, <1>h, <2>1, <2>2, <2>3 DEF f
<1>2. CASE f \in on /\ ~(f = "kafka" /\ "relay" \in on)
  <2>1. hooks' = hooks \o <<f>> /\ <<f>> \in Seq(Hook) /\ Len(<<f>>) = 1 /\ <<f>>[1] = f
    BY <1>2, <1>f DEF Open, HooksOf, f
  <2>2. /\ hooks' \in Seq(Hook) /\ Len(hooks') = Len(hooks) + 1
        /\ \A i \in 1..Len(hooks) : hooks'[i] = hooks[i]
        /\ hooks'[Len(hooks) + 1] = f
    <3>1. 1 \in 1..Len(<<f>>)
      BY <2>1
    <3> QED
      BY <2>1, <3>1, HooksJoin
  <2>3. \A i \in 1..Len(hooks') : (i \in 1..Len(hooks) /\ hooks'[i] = hooks[i]) \/ (i = Len(hooks) + 1 /\ hooks'[i] = f)
    BY <1>0, <2>2
  <2>4. \A h \in HooksLeft' : h \in HooksLeft \/ h = f
    BY <2>3 DEF HooksLeft
  <2>5. HooksLeft \subseteq HooksLeft' /\ f \in HooksLeft'
    BY <1>0, <2>2 DEF HooksLeft
  <2>6. \A h \in HooksLeft' : Rank(h) <= RankBefore(opening + 1)
    BY <1>f, <1>r, <1>h, <2>4 DEF HooksLeft
  <2>7. ASSUME NEW i \in 1..Len(hooks'), NEW j \in 1..Len(hooks'), i < j
        PROVE  Rank(hooks'[i]) < Rank(hooks'[j])
    <3>1. i \in Nat /\ j \in Nat /\ i \in 1..Len(hooks) /\ hooks'[i] = hooks[i]
      BY <1>0, <2>2, <2>3, <2>7
    <3>2. CASE j \in 1..Len(hooks) /\ hooks'[j] = hooks[j]
      BY <1>h, <2>7, <3>1, <3>2
    <3>3. CASE hooks'[j] = f
      <4>1. Rank(hooks[i]) <= RankBefore(opening) /\ Rank(hooks[i]) \in Nat /\ Rank(f) \in Nat
        BY <1>f, <1>r, <1>h, <3>1
      <4> QED
        BY <1>f, <1>r, <3>1, <3>3, <4>1
    <3> QED
      BY <2>3, <3>2, <3>3
  <2> QED
    BY <1>2, <2>2, <2>5, <2>6, <2>7 DEF f
<1>3. CASE f \in on /\ f = "kafka" /\ "relay" \in on
  <2> DEFINE more == <<"relay", "kafka">>
  <2>1. hooks' = hooks \o more /\ more \in Seq(Hook) /\ Len(more) = 2 /\ more[1] = "relay" /\ more[2] = "kafka"
    BY <1>3 DEF Open, HooksOf, f, Hook
  <2> HIDE DEF more
  <2>2. /\ hooks' \in Seq(Hook) /\ Len(hooks') = Len(hooks) + 2
        /\ \A i \in 1..Len(hooks) : hooks'[i] = hooks[i]
        /\ hooks'[Len(hooks) + 1] = "relay" /\ hooks'[Len(hooks) + 2] = "kafka"
    <3>1. 1 \in 1..Len(more) /\ 2 \in 1..Len(more)
      BY <2>1
    <3> QED
      BY <2>1, <3>1, HooksJoin
  <2>3. \A i \in 1..Len(hooks') : \/ i \in 1..Len(hooks) /\ hooks'[i] = hooks[i]
                                  \/ i = Len(hooks) + 1 /\ hooks'[i] = "relay"
                                  \/ i = Len(hooks) + 2 /\ hooks'[i] = "kafka"
    BY <1>0, <2>2
  <2>4. \A h \in HooksLeft' : h \in HooksLeft \/ h = "relay" \/ h = "kafka"
    BY <2>3 DEF HooksLeft
  <2>5. HooksLeft \subseteq HooksLeft' /\ "relay" \in HooksLeft' /\ "kafka" \in HooksLeft'
    BY <1>0, <2>2 DEF HooksLeft
  <2>r. Rank("relay") = 5 /\ Rank("kafka") = 6 /\ RankBefore(opening) = 4
    BY <1>3, <1>f DEF Rank
  <2>6. ASSUME NEW h \in HooksLeft' PROVE Rank(h) <= RankBefore(opening + 1)
    <3>1. RankBefore(opening + 1) = 6
      BY <1>3, <1>f, <2>r
    <3>2. CASE h \in HooksLeft
      <4>1. h \in Hook /\ Rank(h) <= 4
        BY <1>h, <2>r, <3>2 DEF HooksLeft
      <4> QED
        BY <1>r, <3>1, <4>1
    <3> QED
      BY <2>4, <2>r, <3>1, <3>2
  <2>7. ASSUME NEW i \in 1..Len(hooks'), NEW j \in 1..Len(hooks'), i < j
        PROVE  Rank(hooks'[i]) < Rank(hooks'[j])
    <3>0. i \in Nat /\ j \in Nat
      BY <1>0, <2>2
    <3>1. CASE i \in 1..Len(hooks) /\ hooks'[i] = hooks[i]
      <4>1. Rank(hooks[i]) <= 4 /\ Rank(hooks[i]) \in Nat
        BY <1>r, <1>h, <2>r, <3>1
      <4>2. CASE j \in 1..Len(hooks) /\ hooks'[j] = hooks[j]
        BY <1>h, <2>7, <3>1, <4>2
      <4>3. CASE hooks'[j] = "relay" \/ hooks'[j] = "kafka"
        BY <2>r, <3>1, <4>1, <4>3
      <4> QED
        BY <2>3, <4>2, <4>3
    <3>2. CASE i = Len(hooks) + 1 /\ hooks'[i] = "relay"
      <4>1. hooks'[j] = "kafka"
        BY <1>0, <2>3, <2>7, <3>0, <3>2
      <4> QED
        BY <2>r, <3>2, <4>1
    <3>3. CASE i = Len(hooks) + 2
      BY <1>0, <2>2, <2>7, <3>0, <3>3
    <3> QED
      BY <2>3, <3>1, <3>2, <3>3
  <2> QED
    BY <1>3, <2>2, <2>5, <2>6, <2>7 DEF f
<1> QED
  BY <1>1, <1>2, <1>3

\* NewRuntime opens the next feature.
LEMMA OpenKeepsLife ==
    ASSUME LifeInv, Open
    PROVE  LifeInv'
<1> USE DEF LifeInv
<1>0. phase = "opening" /\ opening \in 1..6 /\ opening' = opening + 1 /\ opening' \in 1..7
      /\ phase' \in {"opening", "opened"} /\ (phase' = "opened" => opening' = 7)
      /\ UNCHANGED <<kind, on, started, busy, listening, registered, overdue, hookAt, gaveUp,
                     unregistering, broken>>
  BY DEF Open, OpenOrder, LifeTypeOK
<1>n. hookAt = "none"
  BY <1>0 DEF HookOrder
<1>1. /\ hooks' \in Seq(Hook) /\ HooksLeft \subseteq HooksLeft'
      /\ \A i, j \in 1..Len(hooks') : i < j => Rank(hooks'[i]) < Rank(hooks'[j])
      /\ \A h \in HooksLeft' : Rank(h) <= RankBefore(opening + 1)
      /\ OpenOrder[opening] \in on => OpenOrder[opening] \in HooksLeft'
      /\ OpenOrder[opening] = "kafka" /\ "kafka" \in on /\ "relay" \in on => "relay" \in HooksLeft'
  BY OpenKeepsOrder
<1>2. open' = open \cup ({OpenOrder[opening]} \cap Resource \cap on)
  BY DEF Open
<1>3. Opened' = Opened \cup ({OpenOrder[opening]} \cap Resource \cap on)
  BY <1>0 DEF Opened
<1>4. LifeTypeOK'
  BY <1>0, <1>1, <1>2 DEF LifeTypeOK
<1>5. HookOrder'
  BY <1>0, <1>n, <1>1 DEF HookOrder
<1>6. open' = Opened' /\ Closed' = {}
  BY <1>0, <1>2, <1>3 DEF ClosedInOrder, Closed
<1>7. ClosedInOrder'
  <2>1. open' \subseteq NotDone' \cup broken'
    BY <1>0, <1>1, <1>2 DEF ClosedInOrder, NotDone
  <2> QED
    BY <1>6, <2>1 DEF ClosedInOrder
<1>8. WorkersHaveHooks'
  <2>1. /\ opening' > 2 /\ "tasks" \in on => "tasks" \in HooksLeft'
        /\ opening' > 5 /\ "relay" \in on => "relay" \in HooksLeft'
        /\ opening' > 5 /\ "kafka" \in on => "kafka" \in HooksLeft'
    <3>1. opening = 1 \/ opening = 2 \/ opening = 3 \/ opening = 4 \/ opening = 5 \/ opening = 6
      BY <1>0
    <3>2. OpenOrder[2] = "tasks" /\ OpenOrder[5] = "kafka"
      BY DEF OpenOrder
    <3> QED
      BY <1>0, <1>1, <3>1, <3>2 DEF WorkersHaveHooks, LifeTypeOK
  <2>2. started' = {} /\ \A w \in busy' \ {"requests"} : StopHook(w) \in NotDone' \/ w \in overdue'
    BY <1>0, <1>1 DEF WorkersHaveHooks, NotDone, StopHook
  <2> QED
    BY <1>0, <2>1, <2>2 DEF WorkersHaveHooks
<1>9. ServerPhases'
  BY <1>0 DEF ServerPhases
<1> QED
  BY <1>4, <1>5, <1>7, <1>8, <1>9

\* All but the last of a sequence's elements, in their order.
LEMMA AllButTheLast ==
    ASSUME NEW S, NEW s \in Seq(S), NEW m \in Nat, Len(s) = m + 1
    PROVE  /\ SubSeq(s, 1, m) \in Seq(S) /\ Len(SubSeq(s, 1, m)) = m
           /\ \A i \in 1..m : SubSeq(s, 1, m)[i] = s[i]
<1>1. 1 \in Int /\ m \in Int /\ \A i \in 1..m : s[i] \in S
  OBVIOUS
<1>2. /\ SubSeq(s, 1, m) \in Seq(S)
      /\ Len(SubSeq(s, 1, m)) = IF 1 <= m THEN m - 1 + 1 ELSE 0
      /\ \A i \in 1..(m - 1 + 1) : SubSeq(s, 1, m)[i] = s[1 + i - 1]
  BY <1>1, SubSeqProperties
<1>3. Len(SubSeq(s, 1, m)) = m
  BY <1>2
<1>4. ASSUME NEW i \in 1..m PROVE SubSeq(s, 1, m)[i] = s[i]
  <2>1. i \in 1..(m - 1 + 1) /\ 1 + i - 1 = i
    OBVIOUS
  <2> QED
    BY <1>2, <2>1
<1> QED
  BY <1>2, <1>3, <1>4

\* The last hook registered begins: the others stay, and rank before it.
LEMMA HookBeginsLast ==
    ASSUME LifeInv, HookBegins
    PROVE  /\ hooks' \in Seq(Hook) /\ hookAt' \in Hook /\ hookAt = "none"
           /\ HooksLeft = HooksLeft' \cup {hookAt'}
           /\ \A i, j \in 1..Len(hooks') : i < j => Rank(hooks'[i]) < Rank(hooks'[j])
           /\ \A h \in HooksLeft' : Rank(h) < Rank(hookAt')
<1> USE DEF LifeInv
<1> DEFINE n == Len(hooks)
<1>1. /\ hooks \in Seq(Hook) /\ n \in Nat /\ n >= 1 /\ n - 1 \in Nat /\ hookAt = "none"
      /\ hookAt' = hooks[n] /\ hooks' = SubSeq(hooks, 1, n - 1)
  BY DEF HookBegins, LifeTypeOK
<1>2. /\ hooks' \in Seq(Hook) /\ Len(hooks') = n - 1
      /\ \A i \in 1..n - 1 : hooks'[i] = hooks[i]
  <2>1. Len(hooks) = (n - 1) + 1
    BY <1>1
  <2> HIDE DEF n
  <2> QED
    BY <1>1, <2>1, AllButTheLast
<1>3. hookAt' \in Hook
  BY <1>1
<1>4. \A i, j \in 1..n : i < j => Rank(hooks[i]) < Rank(hooks[j])
  BY DEF HookOrder
<1> HIDE DEF n
<1>5. \A i, j \in 1..Len(hooks') : i < j => Rank(hooks'[i]) < Rank(hooks'[j])
  BY <1>1, <1>2, <1>4
<1>6. \A h \in HooksLeft' : \E i \in 1..n - 1 : h = hooks[i]
  BY <1>2 DEF HooksLeft
<1>7. \A h \in HooksLeft' : Rank(h) < Rank(hookAt')
  BY <1>1, <1>4, <1>6
<1>8. HooksLeft = HooksLeft' \cup {hookAt'}
  <2>1. HooksLeft = {hooks[i] : i \in 1..n} /\ HooksLeft' = {hooks[i] : i \in 1..n - 1}
    BY <1>2 DEF HooksLeft, n
  <2>2. 1..n = (1..n - 1) \cup {n}
    BY <1>1
  <2> QED
    BY <1>1, <2>1, <2>2
<1> QED
  BY <1>1, <1>2, <1>3, <1>5, <1>7, <1>8

\* A hook begins, and tells its worker to stop.
LEMMA HookBeginsKeepsLife ==
    ASSUME LifeInv, HookBegins
    PROVE  LifeInv'
<1> USE DEF LifeInv
<1>1. /\ hooks' \in Seq(Hook) /\ hookAt' \in Hook /\ hookAt = "none"
      /\ HooksLeft = HooksLeft' \cup {hookAt'}
      /\ \A i, j \in 1..Len(hooks') : i < j => Rank(hooks'[i]) < Rank(hooks'[j])
      /\ \A h \in HooksLeft' : Rank(h) < Rank(hookAt')
  BY HookBeginsLast
<1>2. /\ phase = "hooks" /\ started' = started \ (IF hookAt' = "kafka" THEN {"consumers"} ELSE {hookAt'})
      /\ UNCHANGED <<kind, on, phase, opening, open, busy, listening, registered, overdue,
                     gaveUp, unregistering, broken>>
  BY DEF HookBegins
<1>3. NotDone' = HooksLeft /\ NotDone \subseteq NotDone' \cup {"none"} /\ "none" \notin HooksLeft'
      /\ Opened' = Opened /\ Closed' = Closed
  <2>1. NotDone' = HooksLeft /\ NotDone = HooksLeft \cup {"none"}
    BY <1>1 DEF NotDone
  <2>2. HooksLeft' \subseteq Hook
    BY <1>1 DEF HooksLeft
  <2> QED
    BY <1>2, <2>1, <2>2 DEF Opened, Closed, Hook
<1>4. LifeTypeOK'
  BY <1>1, <1>2 DEF LifeTypeOK
<1>5. HookOrder'
  BY <1>1, <1>2 DEF HookOrder
<1>6. ClosedInOrder'
  <2>1. "none" \notin Resource
    BY DEF Resource
  <2>2. open \subseteq Resource
    BY DEF LifeTypeOK
  <2>3. open \subseteq NotDone' \cup broken
    BY <1>3, <2>1, <2>2 DEF ClosedInOrder
  <2>4. \A f \in Closed : \A h \in NotDone' : h # "none" => Rank(h) < Rank(f)
    BY <1>3 DEF ClosedInOrder, NotDone
  <2> QED
    BY <1>2, <1>3, <2>3, <2>4 DEF ClosedInOrder
<1>7. WorkersHaveHooks'
  <2>1. ASSUME NEW w \in started', w # "requests" PROVE StopHook(w) \in HooksLeft'
    <3>1. w \in started /\ w \in Worker /\ StopHook(w) \in HooksLeft
      BY <1>2, <2>1 DEF WorkersHaveHooks, LifeTypeOK
    <3>2. StopHook(w) # hookAt'
      BY <1>2, <2>1, <3>1 DEF StopHook, Worker
    <3> QED
      BY <1>1, <3>1, <3>2
  <2>2. ASSUME NEW w \in busy', w # "requests" PROVE StopHook(w) \in NotDone' \/ w \in overdue'
    <3>1. w \in Worker /\ (StopHook(w) \in NotDone \/ w \in overdue)
      BY <1>2, <2>2 DEF WorkersHaveHooks, LifeTypeOK
    <3>2. StopHook(w) # "none"
      BY <3>1 DEF StopHook, Worker
    <3> QED
      BY <1>2, <1>3, <3>1, <3>2
  <2> QED
    BY <1>2, <2>1, <2>2 DEF WorkersHaveHooks, StopHook
<1>8. ServerPhases'
  BY <1>1, <1>2 DEF ServerPhases
<1> QED
  BY <1>4, <1>5, <1>6, <1>7, <1>8

\* A hook is done: its worker is at rest, and its resource closed; or it
\* failed, which is on record.
LEMMA HookEndsKeepsLife ==
    ASSUME LifeInv, HookDone \/ HookFails
    PROVE  LifeInv'
<1> USE DEF LifeInv
<1>1. /\ hookAt # "none" /\ hookAt' = "none"
      /\ UNCHANGED <<kind, on, phase, opening, hooks, started, busy, listening, registered,
                     overdue, gaveUp, unregistering>>
      /\ open' \subseteq open /\ broken \subseteq broken' /\ open \ open' \subseteq {hookAt}
      /\ hookAt \in open' => hookAt \in broken'
  BY DEF HookDone, HookFails, Resource
<1>2. phase = "hooks" /\ \A h \in HooksLeft : Rank(h) < Rank(hookAt)
  BY <1>1 DEF HookOrder
<1>3. HooksLeft' = HooksLeft /\ NotDone' = HooksLeft \cup {"none"} /\ NotDone = HooksLeft \cup {hookAt}
      /\ Opened' = Opened
  BY <1>1 DEF HooksLeft, NotDone, Opened
<1>4. LifeTypeOK'
  BY <1>1 DEF LifeTypeOK
<1>5. HookOrder'
  BY <1>1, <1>2, <1>3 DEF HookOrder
<1>6. ClosedInOrder'
  <2>1. open' \subseteq Opened' /\ open' \subseteq NotDone' \cup broken'
    BY <1>1, <1>3 DEF ClosedInOrder
  <2>2. Closed' \subseteq Closed \cup {hookAt}
    BY <1>1, <1>3 DEF Closed
  <2>3. \A f \in Closed' : \A h \in NotDone' : h # "none" => Rank(h) < Rank(f)
    BY <1>2, <1>3, <2>2 DEF ClosedInOrder
  <2> QED
    BY <1>1, <1>2, <2>1, <2>3 DEF ClosedInOrder
<1>7. WorkersHaveHooks'
  <2>1. ASSUME NEW w \in busy, w # "requests" PROVE StopHook(w) \in HooksLeft \/ w \in overdue
    <3>1. w \in Worker /\ (StopHook(w) \in HooksLeft \/ StopHook(w) = hookAt \/ w \in overdue)
      BY <1>3, <2>1 DEF WorkersHaveHooks, LifeTypeOK
    <3>2. CASE StopHook(w) = hookAt /\ w \notin overdue
      <4>1. w \in WaitsFor(hookAt)
        BY <2>1, <3>1, <3>2 DEF StopHook, WaitsFor, Worker
      <4>2. HookFails
        BY <2>1, <3>2, <4>1 DEF HookDone
      <4> QED
        BY <2>1, <3>1, <3>2, <4>2 DEF HookFails, StopHook, Worker, Resource
    <3> QED
      BY <3>1, <3>2
  <2> QED
    BY <1>1, <1>2, <1>3, <2>1 DEF WorkersHaveHooks, StopHook
<1>8. ServerPhases'
  BY <1>1, <1>2 DEF ServerPhases
<1> QED
  BY <1>4, <1>5, <1>6, <1>7, <1>8

\* Every step of a process's life preserves the invariant.
LEMMA LifeStepInv == LifeInv /\ [LifeNext]_lifeVars => LifeInv'
<1> SUFFICES ASSUME LifeInv, [LifeNext]_lifeVars PROVE LifeInv'
  OBVIOUS
<1>1. CASE UNCHANGED lifeVars
  <2>1. HooksLeft' = HooksLeft /\ NotDone' = NotDone /\ Opened' = Opened /\ Closed' = Closed
    BY <1>1, SameHooks DEF lifeVars
  <2> QED
    BY <1>1, <2>1 DEF lifeVars, LifeInv, LifeTypeOK, HookOrder, ClosedInOrder, WorkersHaveHooks,
                      ServerPhases
<1>2. CASE Runs \/ Open \/ HookBegins \/ HookDone \/ HookFails
  BY <1>2, RunsKeepLife, OpenKeepsLife, HookBeginsKeepsLife, HookEndsKeepsLife
<1> QED
  BY <1>1, <1>2 DEF LifeNext, Runs, ProcessOver

\* The life of a process keeps its invariant, with any features and failures.
THEOREM LifeInvariance == LifeSpec => []LifeInv
BY LifeInitInv, LifeStepInv, PTL DEF LifeSpec

\* No resource is closed under work that may use it, but for the work that
\* nobody waits for and the three that the order of the hooks leaves behind.
THEOREM NothingClosed == LifeSpec => []NothingClosedUnderneath
<1>1. LifeInv => NothingClosedUnderneath
  <2> SUFFICES ASSUME LifeInv, NEW w \in busy, NEW f \in Uses(w) \cap Closed
               PROVE  \/ w \in overdue \/ (w = "requests" /\ gaveUp)
                      \/ w = "relay" /\ f = "kafka"
                      \/ w = "consumers" /\ f = "report"
                      \/ w = "tasks" /\ f # "mysql"
    BY DEF NothingClosedUnderneath
  <2>1. w \in Worker /\ f \in Resource /\ f \in Opened /\ f \notin open
    BY DEF LifeInv, LifeTypeOK, Closed, Opened
  <2>2. phase \in {"hooks", "over"}
    BY <2>1 DEF LifeInv, ClosedInOrder
  <2>3. CASE w = "requests"
    BY <2>2, <2>3 DEF LifeInv, ServerPhases
  <2>4. CASE w # "requests" /\ w \notin overdue
    <3>1. StopHook(w) \in NotDone /\ StopHook(w) # "none"
      BY <2>1, <2>4 DEF LifeInv, WorkersHaveHooks, StopHook, Worker
    <3>2. Rank(StopHook(w)) < Rank(f)
      BY <3>1 DEF LifeInv, ClosedInOrder
    <3>3. CASE w = "relay"
      <4>1. f \in {"mysql", "kafka"}
        BY <3>3 DEF Uses
      <4> QED
        BY <3>2, <3>3, <4>1 DEF StopHook, Rank
    <3>4. CASE w = "consumers"
      BY <2>1, <3>2, <3>4 DEF StopHook, Rank, Resource
    <3>5. CASE w = "tasks"
      BY <3>2, <3>5 DEF StopHook, Rank
    <3> QED
      BY <2>1, <2>4, <3>3, <3>4, <3>5 DEF Worker
  <2> QED
    BY <2>3, <2>4
<1> QED
  BY LifeInvariance, <1>1, PTL

\* Callers find the service only while it listens with everything open, and
\* when the hooks are through nothing runs and nothing is open, but for the
\* failures on record.
THEOREM StopsInOrder == LifeSpec => []OrderlyStop
<1>1. LifeInv => OrderlyStop
  <2> SUFFICES ASSUME LifeInv PROVE OrderlyStop
    OBVIOUS
  <2>1. registered => \/ listening /\ open = Opened
                      \/ gaveUp \/ unregistering = "failed"
    BY DEF LifeInv, ServerPhases, ClosedInOrder
  <2>2. ASSUME phase = "over"
        PROVE  /\ open \subseteq broken /\ started = {}
               /\ busy \subseteq overdue \cup (IF gaveUp THEN {"requests"} ELSE {})
    <3>1. HooksLeft = {} /\ NotDone = {"none"}
      BY <2>2 DEF LifeInv, ServerPhases, HooksLeft, NotDone
    <3>2. open \subseteq broken
      BY <3>1 DEF LifeInv, LifeTypeOK, ClosedInOrder, Resource
    <3>3. started = {}
      BY <2>2, <3>1 DEF LifeInv, WorkersHaveHooks, ServerPhases
    <3>4. ASSUME NEW w \in busy PROVE w \in overdue \/ (w = "requests" /\ gaveUp)
      BY <2>2, <3>1 DEF LifeInv, LifeTypeOK, WorkersHaveHooks, ServerPhases, StopHook, Worker
    <3> QED
      BY <3>2, <3>3, <3>4
  <2> QED
    BY <2>1, <2>2 DEF OrderlyStop
<1> QED
  BY LifeInvariance, <1>1, PTL
=============================================================================
