----------------------------- MODULE Lifecycle ------------------------------
(***************************************************************************)
(* The life of a service: NewRuntime opens what the configuration enables  *)
(* (kitexx/runtime.go), Run starts the workers and serves (kitexx.go,      *)
(* hertzx.go), a signal drains it, and the OnShutdown hooks run in reverse *)
(* order (shutdown.go).                                                    *)
(***************************************************************************)
EXTENDS Integers, Sequences, FiniteSets

VARIABLES
    kind,            \* "rpc" (kitexx.Run) or "http" (hertzx.Run)
    on,              \* the features the configuration enables
    phase, opening,  \* where the process is; the next feature NewRuntime opens
    open,            \* the resources that are open
    hooks,           \* the OnShutdown hooks, in order of registration
    started,         \* the workers that have been started and not stopped
    busy,            \* the workers in the middle of a piece of work
    listening, registered,
    overdue,         \* workers that were not waited for any longer
    hookAt,          \* the hook that is running, if any
    gaveUp,          \* the server failed by itself
    unregistering,   \* history: "failed" if the deregistration failed
    broken           \* history: resources whose hook failed or panicked

lifeVars == <<kind, on, phase, opening, open, hooks, started, busy, listening, registered,
              overdue, hookAt, gaveUp, unregistering, broken>>

Resource == {"mysql", "redis", "id", "kafka", "report"}
Worker == {"requests", "consumers", "tasks", "relay"}
Feature == Resource \cup {"tasks", "relay", "registry"}

\* What the work of a worker may touch: a handler, anything that is on.
Uses(w) == IF w = "relay" THEN {"mysql", "kafka"} ELSE Resource

OpenOrder == <<"mysql", "tasks", "redis", "id", "kafka", "report">>

\* The hooks a feature registers, in order.  Without the relay, or without
\* MySQL, there is no "outbox relay stop".
HooksOf(f) ==
    IF f = "kafka" /\ "relay" \in on THEN <<"relay", "kafka">> ELSE <<f>>

LifeInit ==
    /\ kind \in {"rpc", "http"}
    /\ on \in {s \in SUBSET Feature :
                 /\ "tasks" \in s => "mysql" \in s
                 /\ "relay" \in s => "mysql" \in s /\ "kafka" \in s
                 /\ "id" \in s}
    /\ phase = "opening" /\ opening = 1 /\ open = {} /\ hooks = <<>>
    /\ started = {} /\ busy = {} /\ listening = FALSE /\ registered = FALSE
    /\ overdue = {} /\ hookAt = "none" /\ gaveUp = FALSE /\ unregistering = "no" /\ broken = {}

-----------------------------------------------------------------------------
(* NewRuntime. *)

Open ==
    /\ phase = "opening" /\ opening <= Len(OpenOrder)
    /\ LET f == OpenOrder[opening] IN
       IF f \in on
       THEN /\ open' = open \cup ({f} \cap Resource)
            /\ hooks' = hooks \o HooksOf(f)
       ELSE UNCHANGED <<open, hooks>>
    /\ opening' = opening + 1
    /\ phase' = IF opening = Len(OpenOrder) THEN "opened" ELSE phase
    /\ UNCHANGED <<kind, on, started, busy, listening, registered, overdue, hookAt, gaveUp,
                   unregistering, broken>>

\* An error is returned as it is: the hooks registered so far are not run.
OpenFails ==
    /\ phase = "opening" /\ OpenOrder[opening] \in on \cap Resource
    /\ phase' = "failed"
    /\ UNCHANGED <<kind, on, opening, open, hooks, started, busy, listening, registered,
                   overdue, hookAt, gaveUp, unregistering, broken>>

-----------------------------------------------------------------------------
(* Runtime.Run and hertzx run. *)

Phase(p) == /\ phase' = p
            /\ UNCHANGED <<kind, on, opening, open, hooks, overdue, hookAt, broken>>

\* The dependency gate (WaitIDLDeps) and, of an RPC service, what OnStart
\* registered.  A gateway's starters are not run by anyone.
RunStarters ==
    /\ phase = "opened" /\ Phase("starting")
    /\ started' = IF kind = "rpc" THEN on \cap {"tasks", "relay"} ELSE {}
    /\ UNCHANGED <<busy, listening, registered, gaveUp, unregistering>>

\* The gate is not passed: hertzx runs the hooks, Runtime.Run only returns.
GateFails ==
    /\ phase = "opened" /\ Phase(IF kind = "http" THEN "hooks" ELSE "failed")
    /\ UNCHANGED <<started, busy, listening, registered, gaveUp, unregistering>>

\* Kafka.Start (RPC), then the server listens.
Listen ==
    /\ phase = "starting" /\ Phase("listening") /\ listening' = TRUE
    /\ started' = started \cup {"requests"}
                  \cup IF kind = "rpc" /\ "kafka" \in on THEN {"consumers"} ELSE {}
    /\ UNCHANGED <<busy, registered, gaveUp, unregistering>>

\* A consumer cannot be made: Runtime.Run returns, with the workers running.
ConsumersFail ==
    /\ phase = "starting" /\ kind = "rpc" /\ "kafka" \in on /\ Phase("failed")
    /\ UNCHANGED <<started, busy, listening, registered, gaveUp, unregistering>>

\* The port is taken: both kinds run the hooks.
ListenFails ==
    /\ phase = "starting" /\ Phase("hooks")
    /\ started' = started
                  \cup IF kind = "rpc" /\ "kafka" \in on THEN {"consumers"} ELSE {}
    /\ UNCHANGED <<busy, listening, registered, gaveUp, unregistering>>

\* Once the service really listens, it is registered.
Register ==
    /\ phase = "listening" /\ Phase("serving") /\ registered' = ("registry" \in on)
    /\ UNCHANGED <<started, busy, listening, gaveUp, unregistering>>

\* The server is shut down, waiting for its requests, before the hooks run.
RegisterFails ==
    /\ phase = "listening" /\ "registry" \in on /\ "requests" \notin busy /\ Phase("hooks")
    /\ listening' = FALSE /\ started' = started \ {"requests"}
    /\ UNCHANGED <<busy, registered, gaveUp, unregistering>>

Signal ==
    /\ phase = "serving" /\ Phase("stopping")
    /\ UNCHANGED <<started, busy, listening, registered, gaveUp, unregistering>>

ServerFails ==
    /\ phase = "serving" /\ Phase("stopping") /\ gaveUp' = TRUE
    /\ listening' = FALSE /\ started' = started \ {"requests"}
    /\ UNCHANGED <<busy, registered, unregistering>>

\* deregister, and deregister_wait, in which requests still come.
Deregister ==
    /\ phase = "stopping" /\ registered' = FALSE
    /\ Phase(IF gaveUp THEN "hooks" ELSE "left")
    /\ UNCHANGED <<started, busy, listening, gaveUp, unregistering>>

DeregisterFails ==
    /\ phase = "stopping" /\ "registry" \in on
    /\ Phase(IF gaveUp THEN "hooks" ELSE "left") /\ unregistering' = "failed"
    /\ UNCHANGED <<started, busy, listening, registered, gaveUp>>

\* The listener is closed and requests in progress get drain_timeout.
Shutdown ==
    /\ phase = "left" /\ Phase("draining")
    /\ listening' = FALSE /\ started' = started \ {"requests"}
    /\ UNCHANGED <<busy, registered, gaveUp, unregistering>>

Drained ==
    /\ phase = "draining" /\ "requests" \notin busy /\ Phase("hooks")
    /\ UNCHANGED <<started, busy, listening, registered, gaveUp, unregistering>>

DrainTimesOut ==
    /\ phase = "draining" /\ "requests" \in busy /\ phase' = "hooks"
    /\ overdue' = overdue \cup {"requests"}
    /\ UNCHANGED <<kind, on, opening, open, hooks, started, busy, listening, registered,
                   hookAt, gaveUp, unregistering, broken>>

-----------------------------------------------------------------------------
(* RunShutdownHooks: the last one registered first, whatever the others did. *)

HookBeginsForward ==
    /\ phase = "hooks" /\ hookAt = "none" /\ hooks # <<>>
    /\ hookAt' = Head(hooks) /\ hooks' = Tail(hooks)
    /\ started' = started \ (IF Head(hooks) = "kafka" THEN {"consumers"} ELSE {Head(hooks)})
    /\ UNCHANGED <<kind, on, phase, opening, open, busy, listening, registered, overdue,
                   gaveUp, unregistering, broken>>

\* The hook of a worker tells it to stop; "kafka close" tells the consumers.
HookBegins ==
    /\ phase = "hooks" /\ hookAt = "none" /\ hooks # <<>>
    /\ LET h == hooks[Len(hooks)] IN
       /\ hookAt' = h /\ hooks' = SubSeq(hooks, 1, Len(hooks) - 1)
       /\ started' = started \ (IF h = "kafka" THEN {"consumers"} ELSE {h})
    /\ UNCHANGED <<kind, on, phase, opening, open, busy, listening, registered, overdue,
                   gaveUp, unregistering, broken>>

WaitsFor(h) == IF h = "kafka" THEN {"consumers"} ELSE {h} \cap Worker

\* Stop and StopOutbox wait for their goroutine, Close for the consumers.
HookDone ==
    /\ hookAt # "none" /\ WaitsFor(hookAt) \cap (busy \ overdue) = {}
    /\ open' = open \ {hookAt} /\ hookAt' = "none"
    /\ UNCHANGED <<kind, on, phase, opening, hooks, started, busy, listening, registered,
                   overdue, gaveUp, unregistering, broken>>

\* Close of Kafka gives the consumers 15 seconds.
ConsumersOverdue ==
    /\ hookAt = "kafka" /\ "consumers" \in busy
    /\ overdue' = overdue \cup {"consumers"}
    /\ UNCHANGED <<kind, on, phase, opening, open, hooks, started, busy, listening, registered,
                   hookAt, gaveUp, unregistering, broken>>

HookFailsEndsIt ==
    /\ hookAt \in Resource \ {"kafka"}
    /\ broken' = broken \cup {hookAt} /\ hookAt' = "none" /\ hooks' = <<>>
    /\ UNCHANGED <<kind, on, phase, opening, open, started, busy, listening, registered,
                   overdue, gaveUp, unregistering>>

\* A hook that fails or panics is logged; the next one runs.
HookFails ==
    /\ hookAt \in Resource \ {"kafka"}
    /\ broken' = broken \cup {hookAt} /\ hookAt' = "none"
    /\ UNCHANGED <<kind, on, phase, opening, open, hooks, started, busy, listening, registered,
                   overdue, gaveUp, unregistering>>

HooksDone ==
    /\ phase = "hooks" /\ hookAt = "none" /\ hooks = <<>> /\ phase' = "over"
    /\ UNCHANGED <<kind, on, opening, open, hooks, started, busy, listening, registered,
                   overdue, hookAt, gaveUp, unregistering, broken>>

-----------------------------------------------------------------------------
(* The workers: a request, a record, a due task, a batch of the outbox. *)

Works(w) ==
    /\ w \in started \ busy /\ phase \notin {"failed", "over"}
    /\ busy' = busy \cup {w}
    /\ UNCHANGED <<kind, on, phase, opening, open, hooks, started, listening, registered,
                   overdue, hookAt, gaveUp, unregistering, broken>>

Finishes(w) ==
    /\ w \in busy /\ busy' = busy \ {w}
    /\ UNCHANGED <<kind, on, phase, opening, open, hooks, started, listening, registered,
                   overdue, hookAt, gaveUp, unregistering, broken>>

ProcessOver == phase \in {"failed", "over"} /\ UNCHANGED lifeVars

LifeNext ==
    \/ Open \/ OpenFails \/ RunStarters \/ GateFails \/ Listen \/ ConsumersFail \/ ListenFails
    \/ Register \/ RegisterFails \/ Signal \/ ServerFails \/ Deregister \/ DeregisterFails
    \/ Shutdown \/ Drained \/ DrainTimesOut
    \/ HookBegins \/ HookDone \/ ConsumersOverdue \/ HookFails \/ HooksDone \/ ProcessOver
    \/ \E w \in Worker : Works(w) \/ Finishes(w)

LifeSpec == LifeInit /\ [][LifeNext]_lifeVars

-----------------------------------------------------------------------------
(* Properties. *)

Opened == {f \in Resource : \E i \in 1..(opening - 1) : OpenOrder[i] = f} \cap on
Closed == Opened \ open

\* "a handler never sees its database closed underneath it": no resource is
\* closed under work that may use it, but for work nobody waited for any
\* longer (drain_timeout, the 15 seconds of the consumers, a server that gave
\* up), the relay, whose producer is closed first, the consumers, which
\* outlive the report database, and delayed tasks, which outlive everything
\* but MySQL.
NothingClosedUnderneath ==
    \A w \in busy : \A f \in Uses(w) \cap Closed :
        \/ w \in overdue \/ (w = "requests" /\ gaveUp)
        \/ w = "relay" /\ f = "kafka"
        \/ w = "consumers" /\ f = "report"
        \/ w = "tasks" /\ f # "mysql"

\* "stops in the order that loses no request" and "runs every hook even if an
\* earlier one fails or panics": callers find the service in Nacos only while
\* it listens with everything open, unless the server failed by itself or the
\* deregistration did; and when the hooks are through no worker is left
\* running and every resource is closed, or its failure is on record.
OrderlyStop ==
    /\ registered => \/ listening /\ open = Opened
                     \/ gaveUp \/ unregistering = "failed"
    /\ phase = "over" => /\ open \subseteq broken /\ started = {}
                         /\ busy \subseteq overdue \cup (IF gaveUp THEN {"requests"} ELSE {})
=============================================================================
