------------------------------- MODULE Lease --------------------------------
(***************************************************************************)
(* What one Redis key gives the calls that compete for it: a lease.  It is *)
(* granted only while nobody holds it, and a call that held it, or was     *)
(* turned away, never holds it again: every call draws a token of its own, *)
(* so what follows a lapse is another call's lease, never the old one      *)
(* revived.  RedisLock (redisx.WithLock) is shown to implement this.       *)
(***************************************************************************)
CONSTANTS Call,     \* the calls competing for one key
          NoCall    \* nobody

VARIABLES holder,   \* the call whose lease is running, or NoCall
          spent     \* calls that can never hold the lease (again)

vars == <<holder, spent>>

Init == holder = NoCall /\ spent = {}

Grant(c) ==
    /\ holder = NoCall
    /\ c \notin spent
    /\ holder' = c
    /\ UNCHANGED spent

\* The lease ends: given back, run out, or removed by somebody.
Lapse ==
    /\ holder # NoCall
    /\ holder' = NoCall
    /\ spent' = spent \cup {holder}

\* A call leaves without ever having held the lease.
Refuse(c) ==
    /\ holder # c
    /\ c \notin spent
    /\ spent' = spent \cup {c}
    /\ UNCHANGED holder

Next == Lapse \/ \E c \in Call : Grant(c) \/ Refuse(c)

Spec == Init /\ [][Next]_vars
=============================================================================
