------------------------------ MODULE IdLease -------------------------------
(***************************************************************************)
(* The id generator (idx/idx.go): the instance number leased in Redis by   *)
(* each replica, its keeper, and Next.  An id is <<ms, instance, seq>>,    *)
(* compared as the integer it is the layout of.                            *)
(***************************************************************************)
EXTENDS Integers

CONSTANTS
    Replica, NoReplica,   \* a replica is one Generator with its token
    MaxInstance, MaxSeq,  \* the fields' largest values
    MaxMs,                \* bound: how far the clock runs
    MaxIds,               \* bound: ids made
    MaxIdFaults           \* bound: failed calls of Redis, keys that run out,
                          \* clocks that go back

ASSUME IdAssumption ==
    /\ NoReplica \notin Replica
    /\ MaxInstance \in Nat /\ MaxSeq \in Nat /\ MaxMs \in Nat
    /\ MaxIds \in Nat /\ MaxIdFaults \in Nat

Number == 0..MaxInstance

VARIABLES
    lessee,               \* the key of each number: whose token it holds
    genAt,                \* the keeper's place in each replica
    trying,               \* the number lease is about to ask for
    instance, lastMs, seq,
    ms, behind,           \* true time; how far a replica's clock is behind it
    made, count,          \* the ids made, each with its maker and its place among
                          \* them; how many
    keyLost,              \* history: a replica whose key ran out or was given
                          \* up since it took its number
    lastUse,              \* history: the last millisecond an id was made in with
                          \* each number
    taken,                \* history: lastUse of its number when the replica took it
    idFaults

genVars == <<instance, lastMs, seq, made, count, lastUse>>
idVars == <<lessee, genAt, trying, ms, behind, keyLost, taken, idFaults, genVars>>

GenPlace == {"new", "kept", "retake", "move", "closing", "closed", "refused"}

IdInit ==
    /\ lessee = [n \in Number |-> NoReplica]
    /\ genAt = [g \in Replica |-> "new"] /\ trying = [g \in Replica |-> 0]
    /\ instance = [g \in Replica |-> 0]
    /\ lastMs = [g \in Replica |-> 0] /\ seq = [g \in Replica |-> 0]
    /\ ms = 1 /\ behind = [g \in Replica |-> 0]
    /\ made = {} /\ count = 0 /\ lastUse = [n \in Number |-> 0] /\ keyLost = {}
    /\ taken = [g \in Replica |-> 0] /\ idFaults = 0

IdFault == idFaults < MaxIdFaults /\ idFaults' = idFaults + 1

\* The number n is g's, from this clock reading on.
Takes(g, n) ==
    /\ lessee' = [lessee EXCEPT ![n] = g]
    /\ keyLost' = keyLost \ {g}
    /\ taken' = [taken EXCEPT ![g] = lastUse[n]]

KeeperAt(g, place) == genAt' = [genAt EXCEPT ![g] = place]

-----------------------------------------------------------------------------
\* In New ("new"), and in the keeper when it moves to another number.
Leasing(g) == genAt[g] \in {"new", "move"}

\* New with a Redis: lease asks for the numbers one after the other with
\* SetNX.  None free: New fails, the keeper logs it and goes on with the
\* number it had.
LeaseNumber(g) ==
    /\ Leasing(g)
    /\ \/ /\ lessee[trying[g]] = NoReplica
          /\ Takes(g, trying[g]) /\ KeeperAt(g, "kept")
          /\ instance' = [instance EXCEPT ![g] = trying[g]]
          /\ trying' = [trying EXCEPT ![g] = 0]
       \/ /\ lessee[trying[g]] # NoReplica /\ trying[g] < MaxInstance
          /\ trying' = [trying EXCEPT ![g] = @ + 1]
          /\ UNCHANGED <<lessee, keyLost, taken, instance, genAt>>
       \/ /\ lessee[trying[g]] # NoReplica /\ trying[g] = MaxInstance
          /\ KeeperAt(g, IF genAt[g] = "new" THEN "refused" ELSE "kept")
          /\ trying' = [trying EXCEPT ![g] = 0]
          /\ UNCHANGED <<lessee, keyLost, taken, instance>>
    /\ UNCHANGED <<ms, behind, idFaults, lastMs, seq, made, count, lastUse>>

\* SetNX fails, before or after it reached Redis.
LeaseNumberError(g) ==
    /\ Leasing(g) /\ IdFault
    /\ lessee' \in {lessee, [lessee EXCEPT ![trying[g]] = IF @ = NoReplica THEN g ELSE @]}
    /\ KeeperAt(g, IF genAt[g] = "new" THEN "refused" ELSE "kept")
    /\ trying' = [trying EXCEPT ![g] = 0]
    /\ UNCHANGED <<ms, behind, keyLost, taken, genVars>>

\* keep, every renewEvery: renewScript finds its token (the key lives on) or
\* answers 0.  A failed renewal is retried at the next tick.
RenewFails(g) ==
    /\ genAt[g] = "kept" /\ lessee[instance[g]] # g
    /\ KeeperAt(g, "retake")
    /\ UNCHANGED <<lessee, trying, ms, behind, keyLost, taken, idFaults, genVars>>

\* SetNX of the same number; taken by another replica: lease one.
Retake(g) ==
    /\ genAt[g] = "retake"
    /\ IF lessee[instance[g]] = NoReplica
       THEN Takes(g, instance[g]) /\ KeeperAt(g, "kept")
       ELSE UNCHANGED <<lessee, keyLost, taken>> /\ KeeperAt(g, "move")
    /\ UNCHANGED <<trying, ms, behind, idFaults, genVars>>

RetakeError(g) ==
    /\ genAt[g] = "retake" /\ IdFault
    /\ lessee' \in {lessee, [lessee EXCEPT ![instance[g]] = IF @ = NoReplica THEN g ELSE @]}
    /\ KeeperAt(g, "kept")
    /\ UNCHANGED <<trying, ms, behind, keyLost, taken, genVars>>

\* Close stops the keeper, then releaseScript deletes the key if it holds the
\* token.  Nothing stops Next: who still runs keeps the number in use.
Close(g) ==
    /\ genAt[g] = "kept" /\ KeeperAt(g, "closing")
    /\ UNCHANGED <<lessee, trying, ms, behind, keyLost, taken, idFaults, genVars>>

ReleaseUnchecked(g) ==
    /\ genAt[g] = "closing" /\ KeeperAt(g, "closed")
    /\ lessee' = [lessee EXCEPT ![instance[g]] = NoReplica]
    /\ keyLost' = keyLost \cup {g}
    /\ UNCHANGED <<trying, ms, behind, taken, idFaults, genVars>>

Release(g) ==
    /\ genAt[g] = "closing" /\ KeeperAt(g, "closed")
    /\ lessee' = [lessee EXCEPT ![instance[g]] = IF @ = g THEN NoReplica ELSE @]
    /\ keyLost' = keyLost \cup {g}
    /\ UNCHANGED <<trying, ms, behind, taken, idFaults, genVars>>

ReleaseError(g) ==
    /\ genAt[g] = "closing" /\ IdFault /\ KeeperAt(g, "closed")
    /\ UNCHANGED <<lessee, trying, ms, behind, keyLost, taken, genVars>>

-----------------------------------------------------------------------------
Id(t, n, s) == (t * (MaxInstance + 1) + n) * (MaxSeq + 1) + s

HasNumber(g) == genAt[g] \in {"kept", "retake", "move", "closing", "closed"}

Makes(g, t, s) ==
    /\ lastMs' = [lastMs EXCEPT ![g] = t] /\ seq' = [seq EXCEPT ![g] = s]
    /\ count' = count + 1
    /\ made' = made \cup {[ms |-> t, instance |-> instance[g], seq |-> s, by |-> g,
                           nth |-> count + 1,
                           sound |-> g \notin keyLost /\ t > taken[g]]}
    /\ lastUse' = [lastUse EXCEPT ![instance[g]] = IF t > @ THEN t ELSE @]
    /\ UNCHANGED <<lessee, genAt, trying, instance, ms, behind, keyLost, taken, idFaults>>

NextOverfills(g) ==
    /\ HasNumber(g) /\ count < MaxIds
    /\ LET now == ms - behind[g] IN
       \/ now > lastMs[g] /\ Makes(g, now, 0)
       \/ now <= lastMs[g] /\ Makes(g, lastMs[g], (seq[g] + 1) % (MaxSeq + 1))

\* Next, under mu.  A clock that went back, or a full millisecond, is waited
\* out: the time of the id is then lastMs, or a later reading.
NextId(g) ==
    /\ HasNumber(g) /\ count < MaxIds
    /\ LET now == ms - behind[g] IN
       \/ now > lastMs[g] /\ Makes(g, now, 0)
       \/ now <= lastMs[g] /\ seq[g] < MaxSeq /\ Makes(g, lastMs[g], seq[g] + 1)

-----------------------------------------------------------------------------
(* The world. *)

\* The key runs out, its renewals having failed for leaseTTL, or Redis is
\* flushed, or its replica is gone.
KeyRunsOut(n) ==
    /\ lessee[n] # NoReplica /\ IdFault
    /\ lessee' = [lessee EXCEPT ![n] = NoReplica]
    /\ keyLost' = IF instance[lessee[n]] = n THEN keyLost \cup {lessee[n]} ELSE keyLost
    /\ UNCHANGED <<genAt, trying, ms, behind, taken, genVars>>

ClockGoesBack(g) ==
    /\ behind[g] = 0 /\ ms > 1 /\ IdFault
    /\ behind' = [behind EXCEPT ![g] = 1]
    /\ UNCHANGED <<lessee, genAt, trying, ms, keyLost, taken, genVars>>

\* A millisecond goes by.
TimePasses ==
    /\ ms < MaxMs /\ ms' = ms + 1
    /\ UNCHANGED <<lessee, genAt, trying, behind, keyLost, taken, idFaults, genVars>>

IdQuiet ==
    /\ ms = MaxMs /\ (count = MaxIds \/ \A g \in Replica : ~HasNumber(g)
                      \/ (seq[g] = MaxSeq /\ lastMs[g] >= ms - behind[g]))
    /\ UNCHANGED idVars

IdNext ==
    \/ TimePasses \/ IdQuiet
    \/ \E n \in Number : KeyRunsOut(n)
    \/ \E g \in Replica :
         \/ LeaseNumber(g) \/ LeaseNumberError(g) \/ RenewFails(g) \/ Retake(g)
         \/ RetakeError(g) \/ Close(g) \/ Release(g) \/ ReleaseError(g)
         \/ NextId(g) \/ ClockGoesBack(g)

IdSpec == IdInit /\ [][IdNext]_idVars

-----------------------------------------------------------------------------
(* Properties. *)

Value(i) == Id(i.ms, i.instance, i.seq)

\* "unique across every replica": no replica makes an id twice, and two make
\* the same one only if one of them did not hold the key of its number, or
\* took the number when its clock was not past the last id made with it.
\* (The code checks neither: an id made after the key ran out, or after
\* Close, or by a successor whose clock is behind, may be a duplicate.)
IdsAreUnique ==
    \A i, j \in made :
        i # j /\ (i.by = j.by \/ (i.sound /\ j.sound)) => Value(i) # Value(j)

\* "greater than every id this instance made before", whatever its clock
\* does and however full the millisecond is, but for one case of this code:
\* a replica that moves to a smaller number within the millisecond of its
\* last id.
IdsGrow ==
    \A i, j \in made :
        i.by = j.by /\ j.nth < i.nth
        => Value(i) > Value(j) \/ (i.ms = j.ms /\ i.instance < j.instance)
=============================================================================
