--------------------------- MODULE RedisLockProofs --------------------------
(***************************************************************************)
(* Proofs about RedisLock for any number of calls, any ttl and any bounds. *)
(***************************************************************************)
EXTENDS RedisLock, TLAPS

\* Where the pieces of a call's state can be together.
PhaseInv ==
    /\ left = 0 <=> owner = NoCall
    /\ \A c \in Call :
         /\ pc[c] = "trying" => owner # c
         /\ pc[c] \in {"trying", "won"} => keeper[c] = "off"
         /\ pc[c] \in {"fn", "ending"} => keeper[c] \in {"on", "lost"}
         /\ pc[c] \in {"release", "done", "crashed"} => keeper[c] # "on"
         /\ keeper[c] = "lost" => cancelled[c]
         /\ pc[c] = "trying" => missed[c] = 0
         /\ pc[c] = "won" => timer[c] <= 0 /\ missed[c] \in {0, 2}
         /\ keeper[c] = "on" => timer[c] <= Period

\* What the key still has, while nobody deleted it: a call that just won has
\* all but the time its answer has taken so far, and a keeper that missed at
\* most one extension has left what takes it to its next one and MaxLag more.
HoldInv ==
    deletes = 0 => \A c \in Call :
        /\ pc[c] = "won" /\ missed[c] = 0 /\ timer[c] >= -(Period + MaxLag) =>
             owner = c /\ left >= TTL + timer[c]
        /\ keeper[c] = "on" /\ missed[c] = 0 /\ timer[c] >= -(Period + MaxLag) =>
             owner = c /\ left >= TTL - MaxLag - Period + timer[c]
        /\ keeper[c] = "on" /\ missed[c] = 1 /\ timer[c] >= -MaxLag =>
             owner = c /\ left >= TTL - MaxLag - 2 * Period + timer[c]

IInv == TypeOK /\ PhaseInv /\ HoldInv

-----------------------------------------------------------------------------
USE DEF Phase, Result

\* Facts about Behind, by which the rest reasons about it.
LEMMA BehindCases ==
    ASSUME TypeOK, NEW c \in Call
    PROVE  /\ Behind(c) \in {0, 1, 2}
           /\ Behind(c) = 0 <=> timer[c] >= -MaxLag
           /\ Behind(c) <= 1 <=> timer[c] >= -(Period + MaxLag)
BY TimeAssumption DEF TypeOK, Behind

\* The type invariant is inductive.
LEMMA TypeStep == TypeOK /\ [Next]_vars => TypeOK'
<1> SUFFICES ASSUME TypeOK, [Next]_vars PROVE TypeOK'
  OBVIOUS
<1> USE CallAssumption, TimeAssumption, BoundAssumption DEF TypeOK
<1>1. CASE Tick
  BY <1>1 DEF Tick, Timed, Drops, Passes
<1>2. CASE DeleteKey
  BY <1>2 DEF DeleteKey, OneMoreFault
<1>3. ASSUME NEW c \in Call, CallStep(c) PROVE TypeOK'
  <2>1. CASE Acquire(c)
    BY <2>1 DEF Acquire, Stored
  <2>2. CASE Busy(c)
    BY <2>2 DEF Busy, Return
  <2>3. CASE WaitCancelled(c)
    BY <2>3 DEF WaitCancelled, Return
  <2>4. CASE AcquireError(c)
    BY <2>4 DEF AcquireError, OneMoreError, OneMoreFault, Stored, Return
  <2>5. CASE StartFn(c)
    BY <2>5, BehindCases DEF StartFn
  <2>6. CASE FnReturn(c)
    BY <2>6 DEF FnReturn
  <2>7. CASE FnPanic(c)
    BY <2>7 DEF FnPanic, OneMoreFault
  <2>8. CASE StopKeeper(c)
    BY <2>8 DEF StopKeeper, Return
  <2>9. CASE Release(c)
    BY <2>9 DEF Release, Released, Return
  <2>10. CASE ReleaseError(c)
    BY <2>10 DEF ReleaseError, Released, OneMoreError, OneMoreFault, Return
  <2> QED
    BY <1>3, <2>1, <2>2, <2>3, <2>4, <2>5, <2>6, <2>7, <2>8, <2>9, <2>10 DEF CallStep
<1>4. ASSUME NEW c \in Call, KeeperStep(c) PROVE TypeOK'
  <2>1. CASE Extend(c)
    BY <2>1 DEF Extend, NextTick
  <2>2. CASE Lost(c)
    BY <2>2 DEF Lost
  <2>3. CASE ExtendError(c)
    BY <2>3 DEF ExtendError, NextTick, OneMoreError, OneMoreFault
  <2> QED
    BY <1>4, <2>1, <2>2, <2>3 DEF KeeperStep
<1>5. ASSUME NEW c \in Call, CallerCancels(c) PROVE TypeOK'
  BY <1>5 DEF CallerCancels
<1>6. ASSUME NEW c \in Call, Crash(c) PROVE TypeOK'
  BY <1>6 DEF Crash, OneMoreFault
<1>7. CASE UNCHANGED vars
  BY <1>7 DEF vars
<1> QED
  BY <1>1, <1>2, <1>3, <1>4, <1>5, <1>6, <1>7 DEF Next

\* A step keeps PhaseInv and HoldInv: only a tick takes time from the key,
\* and it brings every step that is due as much nearer, or makes it later.
LEMMA HoldStep == IInv /\ [Next]_vars => PhaseInv' /\ HoldInv'
<1> SUFFICES ASSUME IInv, [Next]_vars PROVE PhaseInv' /\ HoldInv'
  OBVIOUS
<1>0. TypeOK'
  BY TypeStep DEF IInv
<1> USE <1>0, CallAssumption, TimeAssumption, BoundAssumption DEF IInv, TypeOK, PhaseInv, HoldInv
<1>1. CASE Tick
  <2>1. PhaseInv'
    BY <1>1 DEF Tick, Timed, Drops, Passes
  <2>2. HoldInv'
    BY <1>1 DEF Tick, Timed, Drops, Passes
  <2> QED
    BY <2>1, <2>2
<1>2. CASE DeleteKey
  BY <1>2 DEF DeleteKey
<1>3. ASSUME NEW c \in Call, CallStep(c) PROVE PhaseInv' /\ HoldInv'
  <2>1. CASE Acquire(c)
    BY <2>1 DEF Acquire, Stored
  <2>2. CASE Busy(c)
    BY <2>2 DEF Busy, Return
  <2>3. CASE WaitCancelled(c)
    BY <2>3 DEF WaitCancelled, Return
  <2>4. CASE AcquireError(c)
    BY <2>4 DEF AcquireError, OneMoreError, OneMoreFault, Stored, Return
  <2>5. CASE StartFn(c)
    BY <2>5, BehindCases DEF StartFn
  <2>6. CASE FnReturn(c)
    BY <2>6 DEF FnReturn
  <2>7. CASE FnPanic(c)
    BY <2>7 DEF FnPanic, OneMoreFault
  <2>8. CASE StopKeeper(c)
    BY <2>8 DEF StopKeeper, Return
  <2>9. CASE Release(c)
    BY <2>9 DEF Release, Released, Return, Mine
  <2>10. CASE ReleaseError(c)
    BY <2>10 DEF ReleaseError, Released, OneMoreError, OneMoreFault, Return, Mine
  <2> QED
    BY <1>3, <2>1, <2>2, <2>3, <2>4, <2>5, <2>6, <2>7, <2>8, <2>9, <2>10 DEF CallStep
<1>4. ASSUME NEW c \in Call, KeeperStep(c) PROVE PhaseInv' /\ HoldInv'
  <2>1. CASE Extend(c)
    BY <2>1 DEF Extend, NextTick, KeeperTicks, Mine
  <2>2. CASE Lost(c)
    BY <2>2 DEF Lost, KeeperTicks
  <2>3. CASE ExtendError(c)
    BY <2>3 DEF ExtendError, NextTick, OneMoreError, OneMoreFault, KeeperTicks, Mine
  <2> QED
    BY <1>4, <2>1, <2>2, <2>3 DEF KeeperStep
<1>5. ASSUME NEW c \in Call, CallerCancels(c) PROVE PhaseInv' /\ HoldInv'
  BY <1>5 DEF CallerCancels
<1>6. ASSUME NEW c \in Call, Crash(c) PROVE PhaseInv' /\ HoldInv'
  BY <1>6 DEF Crash
<1>7. CASE UNCHANGED vars
  BY <1>7 DEF vars
<1> QED
  BY <1>1, <1>2, <1>3, <1>4, <1>5, <1>6, <1>7 DEF Next

\* Before any call the key is free and nobody holds it.
LEMMA InitIInv == Init => IInv
BY CallAssumption, TimeAssumption, BoundAssumption
   DEF Init, IInv, TypeOK, PhaseInv, HoldInv

\* The strengthened invariant holds in every reachable state.
THEOREM Invariance == Spec => []IInv
<1>1. IInv /\ [Next]_vars => IInv'
  BY TypeStep, HoldStep DEF IInv
<1> QED
  BY InitIInv, <1>1, PTL DEF Spec

\* Every variable of WithLock's model keeps its type.
THEOREM TypeCorrect == Spec => []TypeOK
<1>1. IInv => TypeOK
  BY DEF IInv
<1> QED
  BY Invariance, <1>1, PTL

\* A keeper that misses one extension ("Redis hiccup"), by an error or because
\* the call hangs, costs nothing: unless somebody deletes the key or a working
\* call misses two extensions in a row, no two calls run fn at once with a live
\* ctx.
THEOREM MutualExclusion == Spec => []HiccupSurvived
<1>1. IInv => HiccupSurvived
  <2> SUFFICES ASSUME IInv, deletes = 0,
                      \A e \in Call : Working(e) => missed[e] + Behind(e) <= 1,
                      NEW c \in Call, NEW d \in Call, Working(c), Working(d)
               PROVE c = d
    BY DEF HiccupSurvived
  <2>1. ASSUME NEW e \in Call, Working(e) PROVE owner = e
    <3>1. keeper[e] = "on"
      BY <2>1 DEF Working, IInv, PhaseInv, TypeOK
    <3>2. missed[e] \in Nat /\ Behind(e) \in {0, 1, 2} /\ missed[e] + Behind(e) <= 1
      BY <2>1, BehindCases DEF IInv, TypeOK
    <3>3. \/ missed[e] = 0 /\ timer[e] >= -(Period + MaxLag)
          \/ missed[e] = 1 /\ timer[e] >= -MaxLag
      BY <3>2, BehindCases DEF IInv
    <3> QED
      BY <3>1, <3>3 DEF IInv, HoldInv
  <2> QED
    BY <2>1
<1> QED
  BY Invariance, <1>1, PTL

\* The token comparison of the two scripts: no call ever takes away or
\* prolongs a key that is another call's.
THEOREM TokenDiscipline == Spec => OnlyTheHolderTouchesTheKey
<1>1. IInv /\ [Next]_vars => [HolderStep]_vars
  <2> SUFFICES ASSUME IInv, Next PROVE HolderStep
    OBVIOUS
  <2> SUFFICES ASSUME NEW h \in Call, owner = h
               PROVE /\ owner' # h => /\ owner' = NoCall
                                      /\ \/ left = 1
                                         \/ pc[h] = "release" /\ pc'[h] = "done"
                                         \/ deletes' = deletes + 1
                     /\ owner' = h /\ left' > left => KeeperTicks(h)
    BY Zenon DEF HolderStep
  <2> USE CallAssumption, TimeAssumption DEF IInv, TypeOK, PhaseInv
  <2>1. CASE Tick
    BY <2>1 DEF Tick
  <2>2. CASE DeleteKey
    BY <2>2 DEF DeleteKey
  <2>3. ASSUME NEW c \in Call, Release(c) \/ ReleaseError(c)
        PROVE /\ owner' # h => owner' = NoCall /\ pc[h] = "release" /\ pc'[h] = "done"
              /\ owner' = h => left' = left
    BY <2>3 DEF Release, ReleaseError, Released, Return, Mine
  <2>4. ASSUME NEW c \in Call,
               \/ Acquire(c) \/ Busy(c) \/ WaitCancelled(c) \/ AcquireError(c)
               \/ StartFn(c) \/ FnReturn(c) \/ FnPanic(c) \/ StopKeeper(c)
               \/ Lost(c) \/ CallerCancels(c) \/ Crash(c)
        PROVE owner' = owner /\ left' = left
    BY <2>4 DEF Acquire, Busy, WaitCancelled, AcquireError, StartFn, FnReturn, FnPanic,
                StopKeeper, Lost, CallerCancels, Crash
  <2>5. ASSUME NEW c \in Call, Extend(c) \/ ExtendError(c)
        PROVE owner' = owner /\ (left' > left => KeeperTicks(h))
    BY <2>5 DEF Extend, ExtendError, Mine
  <2>6. left \in Int /\ ~(left > left)
    OBVIOUS
  <2> HIDE DEF IInv
  <2>7. \/ Tick \/ DeleteKey
        \/ \E c \in Call :
             \/ Release(c) \/ ReleaseError(c) \/ Extend(c) \/ ExtendError(c)
             \/ Acquire(c) \/ Busy(c) \/ WaitCancelled(c) \/ AcquireError(c)
             \/ StartFn(c) \/ FnReturn(c) \/ FnPanic(c) \/ StopKeeper(c)
             \/ Lost(c) \/ CallerCancels(c) \/ Crash(c)
    BY Zenon DEF Next, CallStep, KeeperStep
  <2>8. CASE Tick \/ DeleteKey
    BY <2>1, <2>2, <2>8
  <2>9. ASSUME NEW c \in Call, Release(c) \/ ReleaseError(c)
        PROVE /\ owner' # h => owner' = NoCall /\ pc[h] = "release" /\ pc'[h] = "done"
              /\ ~(owner' = h /\ left' > left)
    BY <2>3, <2>6, <2>9
  <2>10. ASSUME NEW c \in Call, ~(Release(c) \/ ReleaseError(c)),
               \/ Extend(c) \/ ExtendError(c)
               \/ Acquire(c) \/ Busy(c) \/ WaitCancelled(c) \/ AcquireError(c)
               \/ StartFn(c) \/ FnReturn(c) \/ FnPanic(c) \/ StopKeeper(c)
               \/ Lost(c) \/ CallerCancels(c) \/ Crash(c)
         PROVE owner' = owner /\ (left' > left => KeeperTicks(h))
    BY <2>4, <2>5, <2>6, <2>10
  <2>11. CASE ~(Tick \/ DeleteKey)
    <3>1. PICK c \in Call :
             \/ Release(c) \/ ReleaseError(c) \/ Extend(c) \/ ExtendError(c)
             \/ Acquire(c) \/ Busy(c) \/ WaitCancelled(c) \/ AcquireError(c)
             \/ StartFn(c) \/ FnReturn(c) \/ FnPanic(c) \/ StopKeeper(c)
             \/ Lost(c) \/ CallerCancels(c) \/ Crash(c)
      BY <2>7, <2>11
    <3>2. CASE Release(c) \/ ReleaseError(c)
      BY <2>9, <3>2
    <3>3. CASE ~(Release(c) \/ ReleaseError(c))
      BY <2>10, <3>1, <3>3
    <3> QED
      BY <3>2, <3>3
  <2> QED
    BY <2>8, <2>11
<1> QED
  BY Invariance, <1>1, PTL DEF Spec, OnlyTheHolderTouchesTheKey

\* WithLock implements the lease: with owner as the holder, and the calls that
\* left the SetNX loop without the key as the spent ones, each step of the
\* code is a step of Lease or changes nothing there.
THEOREM LeaseRefinement == Spec => ImplementsLease
<1> DEFINE spent == {c \in Call : pc[c] # "trying" /\ owner # c}
<1>1. Init => L!Init
  BY CallAssumption DEF Init, L!Init
<1>2. IInv /\ [Next]_vars => [L!Next]_(L!vars)
  <2> SUFFICES ASSUME IInv, [Next]_vars
               PROVE L!Next \/ (owner' = owner /\ spent' = spent)
    BY DEF L!vars
  <2> USE CallAssumption DEF IInv, TypeOK, PhaseInv
  <2>1. ASSUME owner # NoCall, owner' = NoCall, pc' = pc \/ pc'[owner] # "trying",
               \A d \in Call \ {owner} : pc'[d] = pc[d]
        PROVE L!Lapse
    BY <2>1 DEF L!Lapse
  <2>2. ASSUME UNCHANGED owner,
               \A d \in Call : pc'[d] = "trying" <=> pc[d] = "trying"
        PROVE owner' = owner /\ spent' = spent
    BY <2>2
  <2>3. ASSUME NEW c \in Call, owner = NoCall, owner' = c, pc[c] = "trying", pc'[c] # "trying",
               \A d \in Call \ {c} : pc'[d] = pc[d]
        PROVE L!Grant(c)
    BY <2>3 DEF L!Grant
  <2>4. ASSUME NEW c \in Call, UNCHANGED owner, pc[c] = "trying", pc'[c] # "trying",
               \A d \in Call \ {c} : pc'[d] = pc[d]
        PROVE L!Refuse(c)
    BY <2>4 DEF L!Refuse
  <2>5. CASE Tick
    <3>1. CASE owner' = owner
      BY <2>2, <2>5, <3>1 DEF Tick
    <3>2. CASE owner' # owner
      BY <2>1, <2>5, <3>2 DEF Tick, L!Next
    <3> QED
      BY <3>1, <3>2
  <2>6. CASE DeleteKey
    BY <2>1, <2>6 DEF DeleteKey, L!Next
  <2>7. ASSUME NEW c \in Call, Acquire(c) PROVE L!Next
    BY <2>3, <2>7 DEF Acquire, Stored, L!Next
  <2>8. ASSUME NEW c \in Call, Busy(c) \/ WaitCancelled(c) PROVE L!Next
    BY <2>4, <2>8 DEF Busy, WaitCancelled, Return, L!Next
  <2>9. ASSUME NEW c \in Call, AcquireError(c) PROVE L!Next
    <3>1. CASE UNCHANGED owner
      BY <2>4, <2>9, <3>1 DEF AcquireError, Return, L!Next
    <3>2. CASE ~UNCHANGED owner
      BY <2>3, <2>9, <3>2 DEF AcquireError, Stored, Return, L!Next
    <3> QED
      BY <3>1, <3>2
  <2>10. ASSUME NEW c \in Call, Release(c) \/ ReleaseError(c)
         PROVE L!Next \/ (owner' = owner /\ spent' = spent)
    <3>1. pc[c] = "release" /\ pc' = [pc EXCEPT ![c] = "done"]
      BY <2>10 DEF Release, ReleaseError, Return
    <3>2. CASE owner' = owner
      BY <2>2, <3>1, <3>2
    <3>3. CASE owner' # owner
      BY <2>1, <2>10, <3>1, <3>3 DEF Release, ReleaseError, Released, Mine, L!Next
    <3> QED
      BY <3>2, <3>3
  <2>11. ASSUME NEW c \in Call,
                StartFn(c) \/ FnReturn(c) \/ FnPanic(c) \/ StopKeeper(c)
         PROVE owner' = owner /\ spent' = spent
    <3>1. UNCHANGED owner /\ pc[c] # "trying"
      BY <2>11 DEF StartFn, FnReturn, FnPanic, StopKeeper
    <3>2. \E p \in Phase \ {"trying"} : pc' = [pc EXCEPT ![c] = p]
      BY <2>11 DEF StartFn, FnReturn, FnPanic, StopKeeper, Return
    <3> QED
      BY <2>2, <3>1, <3>2
  <2>12. ASSUME NEW c \in Call, KeeperStep(c) \/ CallerCancels(c)
         PROVE owner' = owner /\ spent' = spent
    BY <2>2, <2>12 DEF KeeperStep, Extend, Lost, ExtendError, CallerCancels
  <2>13. ASSUME NEW c \in Call, Crash(c)
         PROVE L!Next \/ (owner' = owner /\ spent' = spent)
    <3>1. CASE pc[c] = "trying"
      BY <2>4, <2>13, <3>1 DEF Crash, L!Next
    <3>2. CASE pc[c] # "trying"
      BY <2>2, <2>13, <3>2 DEF Crash
    <3> QED
      BY <3>1, <3>2
  <2>14. CASE UNCHANGED vars
    BY <2>2, <2>14 DEF vars
  <2> QED
    BY <2>5, <2>6, <2>7, <2>8, <2>9, <2>10, <2>11, <2>12, <2>13, <2>14
       DEF Next, CallStep
<1> QED
  BY Invariance, <1>1, <1>2, PTL DEF Spec, ImplementsLease, L!Spec
=============================================================================
