---------------------------- MODULE OutboxProofs -----------------------------
(***************************************************************************)
(* Proofs about Outbox: for any number of rows and relays, any batch size  *)
(* and any failures, a row is marked sent only when its event is on the    *)
(* topic, an event is there twice only because somebody had to send it     *)
(* again, rows go out in the order of their ids unless one was delayed,    *)
(* and the outbox is an EventStream.                                       *)
(***************************************************************************)
EXTENDS Outbox, SequenceTheorems, FiniteSetTheorems, TLAPS

\* What a sequence holds after an Append.
LEMMA RangeAppend ==
    ASSUME NEW S, NEW q \in Seq(S), NEW e \in S
    PROVE  Range(Append(q, e)) = Range(q) \cup {e}
  <1>1. Append(q, e) \in Seq(S) /\ Len(Append(q, e)) = Len(q) + 1
    OBVIOUS
  <1>2. DOMAIN q = 1..Len(q) /\ DOMAIN Append(q, e) = 1..(Len(q) + 1) /\ Len(q) \in Nat
    OBVIOUS
  <1>3. \A i \in 1..Len(q) : Append(q, e)[i] = q[i]
    OBVIOUS
  <1>4. Append(q, e)[Len(q) + 1] = e
    OBVIOUS
  <1>5. \A i \in 1..(Len(q) + 1) : i \in 1..Len(q) \/ i = Len(q) + 1
    BY <1>2
  <1>6. Range(Append(q, e)) \subseteq Range(q) \cup {e}
    BY <1>2, <1>3, <1>4, <1>5 DEF Range
  <1>7. e \in Range(Append(q, e))
    BY <1>2, <1>4 DEF Range
  <1>8. Range(q) \subseteq Range(Append(q, e))
    <2> SUFFICES ASSUME NEW x \in Range(q) PROVE x \in Range(Append(q, e))
      OBVIOUS
    <2>1. PICK i \in 1..Len(q) : x = q[i]
      BY <1>2 DEF Range
    <2>2. i \in 1..(Len(q) + 1) /\ Append(q, e)[i] = x
      BY <1>2, <1>3, <2>1
    <2> QED BY <1>2, <2>2 DEF Range
  <1> QED BY <1>6, <1>7, <1>8

\* The rows a round has in its transaction are rows that were committed.
HeldAreQueued == \A r \in Relay : \A e \in Held(r) : state[e] # "absent"

\* A row a round will mark sent has been produced.
MarksAreProduced == \A r \in Relay : sent[r] \subseteq Range(log)

\* What is on the topic was queued.
LogIsQueued == \A e \in Range(log) : e \in Event /\ state[e] # "absent"

IInv == TypeOK /\ SentIsPublished /\ MarksAreProduced /\ HeldAreQueued /\ LogIsQueued

\* The initial states satisfy the inductive invariant.
LEMMA InitIInv == Init => IInv
  <1> SUFFICES ASSUME Init PROVE IInv
    OBVIOUS
  <1>1. Range(log) = {} /\ log \in Seq(Event)
    BY DEF Init, Range
  <1>2. TypeOK
    BY <1>1, OutboxAssumption DEF Init, TypeOK, RowState
  <1>3. SentIsPublished /\ MarksAreProduced /\ HeldAreQueued /\ LogIsQueued
    BY <1>1 DEF Init, SentIsPublished, MarksAreProduced, HeldAreQueued, LogIsQueued, Held
  <1> QED BY <1>2, <1>3 DEF IInv

\* Every step of the outbox keeps the inductive invariant.
LEMMA NextIInv == IInv /\ [Next]_vars => IInv'
  <1> SUFFICES ASSUME IInv, [Next]_vars PROVE IInv'
    OBVIOUS
  <1> USE OutboxAssumption
  <1>0. TypeOK /\ SentIsPublished /\ MarksAreProduced /\ HeldAreQueued /\ LogIsQueued
    BY DEF IInv
  <1>1. ASSUME NEW e \in Event, PublishTx(e) \/ BackoffOver(e) \/ Cleanup(e) PROVE IInv'
    <2>1. TypeOK'
      BY <1>0, <1>1 DEF TypeOK, PublishTx, BackoffOver, Cleanup, round, RowState
    <2>2. SentIsPublished'
      BY <1>0, <1>1 DEF TypeOK, SentIsPublished, PublishTx, BackoffOver, Cleanup, round,
                        RowState
    <2>3. MarksAreProduced'
      BY <1>0, <1>1 DEF MarksAreProduced, PublishTx, BackoffOver, Cleanup, round
    <2>4. HeldAreQueued'
      <3> SUFFICES ASSUME NEW r \in Relay, NEW f \in Held(r)' PROVE state'[f] # "absent"
        BY DEF HeldAreQueued
      <3>1. f \in Held(r) /\ f \in Event
        BY <1>0, <1>1 DEF Held, PublishTx, BackoffOver, Cleanup, round, TypeOK
      <3> QED BY <1>0, <1>1, <3>1 DEF HeldAreQueued, TypeOK, PublishTx, BackoffOver, Cleanup,
                                      round, RowState
    <2>5. LogIsQueued'
      BY <1>0, <1>1 DEF LogIsQueued, TypeOK, PublishTx, BackoffOver, Cleanup, round, RowState
    <2> QED BY <2>1, <2>2, <2>3, <2>4, <2>5 DEF IInv
  <1>2. ASSUME NEW r \in Relay, Take(r) PROVE IInv'
    <2> DEFINE free == {e \in Event : state[e] = "due" /\ ~Locked(e)}
    <2>1. todo' = [todo EXCEPT ![r] = FirstById(free)]
      BY <1>2 DEF Take
    <2>2. FirstById(free) \subseteq Event /\ \A f \in FirstById(free) : state[f] = "due"
      BY DEF FirstById
    <2> HIDE DEF free
    <2>3. TypeOK'
      BY <1>0, <1>2, <2>1, <2>2 DEF TypeOK, Take
    <2>4. SentIsPublished' /\ LogIsQueued' /\ MarksAreProduced'
      BY <1>0, <1>2 DEF SentIsPublished, LogIsQueued, MarksAreProduced, Take
    <2>5. HeldAreQueued'
      BY <1>0, <1>2, <2>1, <2>2 DEF HeldAreQueued, Held, Take, TypeOK
    <2> QED BY <2>3, <2>4, <2>5 DEF IInv
  <1>3. ASSUME NEW r \in Relay, NEW e \in Event, Produce(r, e) \/ ProduceFails(r, e) PROVE IInv'
    <2>1. state[e] # "absent"
      BY <1>0, <1>3 DEF Produce, ProduceFails, IsNext, HeldAreQueued, Held
    <2>2. log' = log \/ log' = Append(log, e)
      BY <1>3 DEF Produce, ProduceFails
    <2>3. log \in Seq(Event) /\ log' \in Seq(Event)
      <3>1. log \in Seq(Event)
        BY <1>0 DEF TypeOK
      <3>2. Append(log, e) \in Seq(Event)
        BY <3>1
      <3> QED BY <2>2, <3>1, <3>2
    <2>4. Range(log) \subseteq Range(log)' /\ Range(log)' \subseteq Range(log) \cup {e}
      <3>1. CASE log' = log
        BY <3>1 DEF Range
      <3>2. CASE log' = Append(log, e)
        <4>1. Range(Append(log, e)) = Range(log) \cup {e}
          BY <2>3, RangeAppend
        <4> QED BY <3>2, <4>1 DEF Range
      <3> QED BY <2>2, <3>1, <3>2
    <2>5. Produce(r, e) => e \in Range(log)'
      BY <2>3, RangeAppend DEF Produce
    <2>6. TypeOK'
      <3>1. CASE Produce(r, e)
        BY <1>0, <3>1, <2>3 DEF TypeOK, Produce
      <3>2. CASE ProduceFails(r, e)
        BY <1>0, <3>2, <2>3 DEF TypeOK, ProduceFails
      <3> QED BY <1>3, <3>1, <3>2
    <2>7. SentIsPublished'
      BY <1>0, <1>3, <2>4 DEF SentIsPublished, Produce, ProduceFails
    <2>8. LogIsQueued'
      BY <1>0, <1>3, <2>1, <2>4 DEF LogIsQueued, Produce, ProduceFails
    <2>9. MarksAreProduced'
      <3>1. CASE Produce(r, e)
        BY <1>0, <3>1, <2>4, <2>5 DEF MarksAreProduced, Produce, TypeOK
      <3>2. CASE ProduceFails(r, e)
        BY <1>0, <3>2, <2>4 DEF MarksAreProduced, ProduceFails
      <3> QED BY <1>3, <3>1, <3>2
    <2>10. HeldAreQueued'
      <3> SUFFICES ASSUME NEW s \in Relay, NEW f \in Held(s)' PROVE state'[f] # "absent"
        BY DEF HeldAreQueued
      <3>1. f \in Held(s)
        <4>1. CASE Produce(r, e)
          BY <1>0, <4>1 DEF Held, Produce, IsNext, TypeOK
        <4>2. CASE ProduceFails(r, e)
          BY <1>0, <4>2 DEF Held, ProduceFails, IsNext, TypeOK
        <4> QED BY <1>3, <4>1, <4>2
      <3>2. state' = state
        BY <1>3 DEF Produce, ProduceFails
      <3> QED BY <1>0, <3>1, <3>2 DEF HeldAreQueued
    <2> QED BY <2>6, <2>7, <2>8, <2>9, <2>10 DEF IInv
  <1>4. ASSUME NEW r \in Relay, CommitRound(r) PROVE IInv'
    <2>1. \A e \in Event : state'[e] = (IF e \in sent[r] THEN "sent"
                                        ELSE IF e \in failed[r] THEN "waiting" ELSE state[e])
      BY <1>4 DEF CommitRound
    <2>2. TypeOK'
      BY <1>0, <1>4 DEF TypeOK, CommitRound, Ends, RowState
    <2>3. SentIsPublished'
      BY <1>0, <1>4, <2>1 DEF SentIsPublished, MarksAreProduced, CommitRound
    <2>4. LogIsQueued'
      BY <1>0, <1>4, <2>1 DEF LogIsQueued, CommitRound
    <2>5. MarksAreProduced'
      BY <1>0, <1>4 DEF MarksAreProduced, CommitRound, Ends, TypeOK
    <2>6. HeldAreQueued'
      <3> SUFFICES ASSUME NEW s \in Relay, NEW f \in Held(s)' PROVE state'[f] # "absent"
        BY DEF HeldAreQueued
      <3>1. f \in Held(s) /\ f \in Event
        BY <1>0, <1>4 DEF Held, CommitRound, Ends, TypeOK
      <3> QED BY <1>0, <2>1, <3>1 DEF HeldAreQueued
    <2> QED BY <2>2, <2>3, <2>4, <2>5, <2>6 DEF IInv
  <1>5. ASSUME NEW r \in Relay, RollBack(r) PROVE IInv'
    <2>1. TypeOK'
      <3>1. todo[r] \subseteq Event /\ sent[r] \subseteq Event /\ failed[r] \subseteq Event
        BY <1>0 DEF TypeOK
      <3>2. delayed' \subseteq Event
        BY <1>0, <1>5, <3>1 DEF TypeOK, RollBack, Held
      <3> QED BY <1>0, <1>5, <3>2 DEF TypeOK, RollBack, Ends
    <2>2. SentIsPublished' /\ LogIsQueued'
      BY <1>0, <1>5 DEF SentIsPublished, LogIsQueued, RollBack
    <2>3. MarksAreProduced' /\ HeldAreQueued'
      BY <1>0, <1>5 DEF MarksAreProduced, HeldAreQueued, Held, RollBack, Ends, TypeOK
    <2> QED BY <2>1, <2>2, <2>3 DEF IInv
  <1>6. ASSUME NEW r \in Relay, StopOutbox(r) \/ StartOutbox(r) PROVE IInv'
    <2>1. TypeOK'
      <3>1. CASE StopOutbox(r)
        BY <1>0, <3>1 DEF TypeOK, StopOutbox, round
      <3>2. CASE StartOutbox(r)
        BY <1>0, <3>2 DEF TypeOK, StartOutbox, round
      <3> QED BY <1>6, <3>1, <3>2
    <2>2. UNCHANGED <<state, log, round>>
      BY <1>6 DEF StopOutbox, StartOutbox, round
    <2> QED BY <1>0, <2>1, <2>2 DEF round, IInv, SentIsPublished, MarksAreProduced,
                                    HeldAreQueued, Held, LogIsQueued
  <1>7. CASE UNCHANGED vars
    BY <1>0, <1>7 DEF vars, round, IInv, TypeOK, SentIsPublished, MarksAreProduced,
                      HeldAreQueued, Held, LogIsQueued
  <1> QED BY <1>1, <1>2, <1>3, <1>4, <1>5, <1>6, <1>7 DEF Next, AllSent

\* The inductive invariant holds in every reachable state.
THEOREM Invariance == Spec => []IInv
  BY InitIInv, NextIInv, PTL DEF Spec

\* TypeOK: every variable keeps its type (rows, rounds and the topic of
\* kafkax/outbox.go).
THEOREM TypeCorrect == Spec => []TypeOK
  BY Invariance, PTL DEF IInv

\* SentIsPublished: relayOnce marks a row sent only after the topic has its
\* event, so that no crash, rollback or failed produce loses one.
THEOREM NoEventIsLost == Spec => []SentIsPublished
  BY Invariance, PTL DEF IInv

\* PublishTx and the relays implement EventStream: an event is on the topic
\* only if the transaction that queued it committed.
THEOREM StreamRefinement == Spec => Stream!StreamSpec
  <1> DEFINE queued == {e \in Event : state[e] # "absent"}
  <1>1. Init => Stream!StreamInit
    BY DEF Init, Stream!StreamInit
  <1>2. IInv /\ IInv' /\ [Next]_vars => [Stream!StreamNext]_(Stream!stream)
    <2> SUFFICES ASSUME IInv, IInv', [Next]_vars
                 PROVE  Stream!StreamNext \/ (queued' = queued /\ log' = log)
      BY DEF Stream!stream
    <2> USE DEF IInv
    <2>1. ASSUME NEW e \in Event, PublishTx(e) PROVE Stream!StreamNext
      <3>1. e \notin queued /\ queued' = queued \cup {e} /\ log' = log
        BY <2>1 DEF PublishTx, TypeOK
      <3> QED BY <3>1 DEF Stream!StreamNext, Stream!Queue
    <2>2. ASSUME NEW e \in Event, BackoffOver(e) \/ Cleanup(e)
          PROVE queued' = queued /\ log' = log
      BY <2>2 DEF BackoffOver, Cleanup, TypeOK
    <2>3. ASSUME NEW r \in Relay, NEW e \in Event, Produce(r, e) \/ ProduceFails(r, e)
          PROVE Stream!StreamNext \/ (queued' = queued /\ log' = log)
      <3>1. e \in queued /\ queued' = queued
        BY <2>3 DEF Produce, ProduceFails, IsNext, HeldAreQueued, Held
      <3>2. log' = log \/ log' = Append(log, e)
        BY <2>3 DEF Produce, ProduceFails
      <3> QED BY <3>1, <3>2 DEF Stream!StreamNext, Stream!Deliver
    <2>4. ASSUME NEW r \in Relay, CommitRound(r) PROVE queued' = queued /\ log' = log
      <3>1. log' = log /\ \A e \in Event : state'[e] # "absent" <=> state[e] # "absent"
        BY <2>4 DEF CommitRound, HeldAreQueued, Held
      <3> QED BY <3>1
    <2>5. ASSUME NEW r \in Relay, Take(r) \/ RollBack(r) \/ StopOutbox(r) \/ StartOutbox(r)
          PROVE queued' = queued /\ log' = log
      BY <2>5 DEF Take, RollBack, StopOutbox, StartOutbox, round
    <2>6. CASE UNCHANGED vars
      BY <2>6 DEF vars
    <2> QED BY <2>1, <2>2, <2>3, <2>4, <2>5, <2>6 DEF Next, AllSent
  <1> QED BY <1>1, <1>2, Invariance, PTL DEF Spec, Stream!StreamSpec
-----------------------------------------------------------------------------
(* Copies. *)

\* A row is in one list of one round, and due while it is: the lock of FOR
\* UPDATE SKIP LOCKED.
LockInv ==
    /\ \A r \in Relay :
         /\ ~open[r] => Held(r) = {}
         /\ todo[r] \cap sent[r] = {} /\ failed[r] \cap (todo[r] \cup sent[r]) = {}
         /\ \A e \in Held(r) : state[e] = "due"
    /\ \A r, s \in Relay : r # s => Held(r) \cap Held(s) = {}

\* The last copy of the row counts as its only one: nobody will send it again.
Final(e) == state[e] \in {"sent", "deleted"} \/ \E r \in Relay : e \in sent[r]

CopyInv == \A e \in Event : Copies(e) <= again[e] + (IF Final(e) THEN 1 ELSE 0)

\* The copies of an event are counted in Nat; an Append adds one to those of
\* its own event.
LEMMA CopiesCount ==
    ASSUME log \in Seq(Event), NEW f \in Event
    PROVE  /\ Copies(f) \in Nat
           /\ \A e \in Event : log' = Append(log, e) =>
                Copies(f)' = Copies(f) + (IF e = f THEN 1 ELSE 0)
  <1> DEFINE at(q) == {i \in DOMAIN q : q[i] = f}
  <1>1. Len(log) \in Nat /\ DOMAIN log = 1..Len(log)
    OBVIOUS
  <1>2. IsFiniteSet(1..Len(log))
    BY <1>1, FS_Interval
  <1>3. IsFiniteSet(at(log)) /\ at(log) \subseteq 1..Len(log)
    BY <1>1, <1>2, FS_Subset
  <1>4. Cardinality(at(log)) \in Nat
    BY <1>3, FS_CardinalityType
  <1>5. ASSUME NEW e \in Event, log' = Append(log, e)
        PROVE  Copies(f)' = Copies(f) + (IF e = f THEN 1 ELSE 0)
    <2> DEFINE n == Len(log) + 1
    <2>1. DOMAIN log' = 1..n /\ log'[n] = e /\ \A i \in 1..Len(log) : log'[i] = log[i]
      BY <1>5
    <2>2. n \notin 1..Len(log) /\ 1..n = (1..Len(log)) \cup {n}
      BY <1>1
    <2>3. at(log') = IF e = f THEN at(log) \cup {n} ELSE at(log)
      BY <1>1, <2>1, <2>2
    <2>4. n \notin at(log)
      BY <1>3, <2>2
    <2>5. Cardinality(at(log) \cup {n}) = Cardinality(at(log)) + 1
      BY <1>3, <2>4, FS_AddElement
    <2>6. Copies(f) = Cardinality(at(log)) /\ Copies(f)' = Cardinality(at(log'))
      BY DEF Copies
    <2> HIDE DEF at, n
    <2> QED BY <1>4, <2>3, <2>5, <2>6
  <1> QED BY <1>4, <1>5 DEF Copies

\* Every step keeps the locks apart.
LEMMA LocksStay == TypeOK /\ LockInv /\ [Next]_vars => LockInv'
  <1> SUFFICES ASSUME TypeOK, LockInv, [Next]_vars PROVE LockInv'
    OBVIOUS
  <1>1. ASSUME NEW e \in Event, PublishTx(e) \/ BackoffOver(e) \/ Cleanup(e) PROVE LockInv'
    BY <1>1 DEF TypeOK, LockInv, Held, PublishTx, BackoffOver, Cleanup, round
  <1>2. ASSUME NEW r \in Relay, Take(r) PROVE LockInv'
    <2> DEFINE free == {e \in Event : state[e] = "due" /\ ~Locked(e)}
    <2>1. todo' = [todo EXCEPT ![r] = FirstById(free)] /\ open' = [open EXCEPT ![r] = TRUE]
          /\ sent' = sent /\ failed' = failed /\ state' = state /\ ~open[r]
      BY <1>2 DEF Take
    <2>2. \A f \in FirstById(free) : state[f] = "due" /\ \A s \in Relay : f \notin Held(s)
      BY DEF FirstById, Locked
    <2> HIDE DEF free
    <2> QED BY <2>1, <2>2 DEF TypeOK, LockInv, Held
  <1>3. ASSUME NEW r \in Relay, NEW e \in Event, Produce(r, e) PROVE LockInv'
    BY <1>3 DEF TypeOK, LockInv, Held, Produce, IsNext
  <1>4. ASSUME NEW r \in Relay, NEW e \in Event, ProduceFails(r, e) PROVE LockInv'
    BY <1>4 DEF TypeOK, LockInv, Held, ProduceFails, IsNext
  <1>5. ASSUME NEW r \in Relay, CommitRound(r) PROVE LockInv'
    <2>1. \A s \in Relay : Held(s)' = IF s = r THEN {} ELSE Held(s)
      BY <1>5 DEF TypeOK, CommitRound, Ends, Held
    <2>2. \A s \in Relay : s # r => \A f \in Held(s) : f \in Event /\ f \notin Held(r)
      BY DEF LockInv, TypeOK, Held
    <2>3. \A f \in Event : f \notin Held(r) => state'[f] = state[f]
      BY <1>5 DEF CommitRound, Held
    <2>4. \A s \in Relay : (~open[s] => Held(s) = {})' /\ \A f \in Held(s)' : state'[f] = "due"
      BY <1>5, <2>1, <2>2, <2>3 DEF TypeOK, LockInv, CommitRound, Ends
    <2>5. \A s \in Relay : /\ (todo[s] \cap sent[s] = {})'
                          /\ (failed[s] \cap (todo[s] \cup sent[s]) = {})'
      BY <1>5 DEF TypeOK, LockInv, CommitRound, Ends
    <2>6. \A s, t \in Relay : s # t => Held(s)' \cap Held(t)' = {}
      BY <2>1 DEF LockInv
    <2> QED BY <2>4, <2>5, <2>6 DEF LockInv
  <1>6. ASSUME NEW r \in Relay, RollBack(r) PROVE LockInv'
    BY <1>6 DEF TypeOK, LockInv, Held, RollBack, Ends
  <1>7. ASSUME NEW r \in Relay, StopOutbox(r) \/ StartOutbox(r) PROVE LockInv'
    BY <1>7 DEF LockInv, Held, StopOutbox, StartOutbox, round
  <1>8. CASE UNCHANGED vars
    BY <1>8 DEF LockInv, Held, vars, round
  <1> QED BY <1>1, <1>2, <1>3, <1>4, <1>5, <1>6, <1>7, <1>8 DEF Next, AllSent

\* Every step keeps the count of copies.
LEMMA CopiesStay == TypeOK /\ LockInv /\ CopyInv /\ [Next]_vars => CopyInv'
  <1> SUFFICES ASSUME TypeOK, LockInv, CopyInv, [Next]_vars, NEW f \in Event
               PROVE  Copies(f)' <= again'[f] + (IF Final(f)' THEN 1 ELSE 0)
    BY DEF CopyInv
  <1>0. /\ Copies(f) \in Nat /\ again[f] \in Nat /\ log \in Seq(Event)
        /\ Copies(f) <= again[f] + (IF Final(f) THEN 1 ELSE 0)
    BY CopiesCount DEF TypeOK, CopyInv
  <1>1. ASSUME log' = log, again'[f] = again[f], Final(f) => Final(f)'
        PROVE  Copies(f)' <= again'[f] + (IF Final(f)' THEN 1 ELSE 0)
    <2>1. Copies(f)' = Copies(f)
      BY <1>1 DEF Copies
    <2> QED BY <1>0, <1>1, <2>1
  <1>2. ASSUME NEW e \in Event, PublishTx(e) \/ BackoffOver(e) \/ Cleanup(e)
        PROVE  Copies(f)' <= again'[f] + (IF Final(f)' THEN 1 ELSE 0)
    <2>1. log' = log /\ again' = again /\ (Final(f) => Final(f)')
      BY <1>2 DEF TypeOK, Final, PublishTx, BackoffOver, Cleanup, round
    <2> QED BY <1>1, <2>1
  <1>3. ASSUME NEW r \in Relay, Take(r) \/ StopOutbox(r) \/ StartOutbox(r)
        PROVE  Copies(f)' <= again'[f] + (IF Final(f)' THEN 1 ELSE 0)
    <2>1. log' = log /\ again' = again /\ (Final(f) => Final(f)')
      BY <1>3 DEF Final, Take, StopOutbox, StartOutbox, round
    <2> QED BY <1>1, <2>1
  <1>4. ASSUME NEW r \in Relay, NEW e \in Event, Produce(r, e)
        PROVE  Copies(f)' <= again'[f] + (IF Final(f)' THEN 1 ELSE 0)
    <2>1. /\ again' = again /\ log' = Append(log, e) /\ e \in todo[r] /\ state' = state
          /\ sent' = [sent EXCEPT ![r] = @ \cup {e}]
      BY <1>4 DEF Produce, IsNext
    <2>2. Copies(f)' = Copies(f) + (IF e = f THEN 1 ELSE 0)
      BY <1>0, <2>1, CopiesCount
    <2>3. Final(f) => Final(f)'
      BY <2>1 DEF Final, TypeOK
    <2>4. CASE e = f
      <3>1. ~Final(f)
        BY <2>1, <2>4 DEF LockInv, Held, Final
      <3>2. Final(f)'
        BY <2>1, <2>4 DEF Final, TypeOK
      <3> QED BY <1>0, <2>1, <2>2, <2>4, <3>1, <3>2
    <2>5. CASE e # f
      BY <1>0, <2>1, <2>2, <2>3, <2>5
    <2> QED BY <2>4, <2>5
  <1>5. ASSUME NEW r \in Relay, NEW e \in Event, ProduceFails(r, e)
        PROVE  Copies(f)' <= again'[f] + (IF Final(f)' THEN 1 ELSE 0)
    <2>1. /\ log' \in {log, Append(log, e)} /\ (Final(f)' <=> Final(f))
          /\ again'[f] = again[f] + (IF e = f THEN 1 ELSE 0)
      BY <1>0, <1>5 DEF ProduceFails, Final, TypeOK
    <2>2. Copies(f)' = Copies(f) \/ Copies(f)' = Copies(f) + (IF e = f THEN 1 ELSE 0)
      <3>1. CASE log' = log
        BY <3>1 DEF Copies
      <3>2. CASE log' = Append(log, e)
        BY <1>0, <3>2, CopiesCount
      <3> QED BY <2>1, <3>1, <3>2
    <2> QED BY <1>0, <2>1, <2>2
  <1>6. ASSUME NEW r \in Relay, CommitRound(r)
        PROVE  Copies(f)' <= again'[f] + (IF Final(f)' THEN 1 ELSE 0)
    <2>1. log' = log /\ again' = again
      BY <1>6 DEF CommitRound
    <2>2. ASSUME Final(f) PROVE Final(f)'
      <3>1. CASE f \in sent[r]
        BY <1>6, <3>1 DEF CommitRound, Final
      <3>2. CASE f \notin sent[r] /\ state[f] \in {"sent", "deleted"}
        <4>1. f \notin failed[r]
          BY <3>2 DEF LockInv, Held
        <4> QED BY <1>6, <3>2, <4>1 DEF CommitRound, Final
      <3>3. ASSUME NEW s \in Relay, f \in sent[s], s # r PROVE Final(f)'
        BY <1>6, <3>3 DEF CommitRound, Ends, Final, TypeOK
      <3> QED BY <2>2, <3>1, <3>2, <3>3 DEF Final
    <2> QED BY <1>1, <2>1, <2>2
  <1>7. ASSUME NEW r \in Relay, RollBack(r)
        PROVE  Copies(f)' <= again'[f] + (IF Final(f)' THEN 1 ELSE 0)
    <2>1. log' = log /\ state' = state
      BY <1>7 DEF RollBack
    <2>2. CASE f \in sent[r]
      <3>1. again'[f] = again[f] + 1 /\ Copies(f)' = Copies(f)
        BY <1>7, <2>1, <2>2 DEF RollBack, Copies
      <3> QED BY <1>0, <3>1
    <2>3. CASE f \notin sent[r]
      <3>1. again'[f] = again[f] /\ (Final(f) => Final(f)')
        BY <1>7, <2>1, <2>3 DEF RollBack, Ends, Final, TypeOK
      <3> QED BY <1>1, <2>1, <3>1
    <2> QED BY <2>2, <2>3
  <1>8. CASE UNCHANGED vars
    BY <1>1, <1>8 DEF vars, round, Final
  <1> QED BY <1>2, <1>3, <1>4, <1>5, <1>6, <1>7, <1>8 DEF Next, AllSent

\* CopiesAreRetries: however many replicas relay side by side, an event is on
\* the topic once, and once more for each failed produce and each rolled back
\* round that made somebody send it again.
THEOREM CopiesBounded == Spec => []CopiesAreRetries
  <1>1. Init => LockInv /\ CopyInv
    <2> SUFFICES ASSUME Init PROVE LockInv /\ CopyInv
      OBVIOUS
    <2>1. LockInv
      BY DEF Init, LockInv, Held
    <2>2. \A e \in Event : Copies(e) = 0 /\ again[e] = 0
      BY FS_EmptySet DEF Init, Copies
    <2> QED BY <2>1, <2>2 DEF CopyInv
  <1>2. TypeOK /\ LockInv /\ CopyInv /\ [Next]_vars => LockInv' /\ CopyInv'
    BY LocksStay, CopiesStay
  <1>3. TypeOK /\ CopyInv => CopiesAreRetries
    <2> SUFFICES ASSUME TypeOK, CopyInv, NEW e \in Event PROVE Copies(e) <= 1 + again[e]
      BY DEF CopiesAreRetries
    <2>1. Copies(e) \in Nat /\ again[e] \in Nat
      BY CopiesCount DEF TypeOK
    <2> QED BY <2>1 DEF CopyInv
  <1> QED BY <1>1, <1>2, <1>3, TypeCorrect, PTL DEF Spec
-----------------------------------------------------------------------------
(* Order. *)

\* Nothing needs to be said of the row: it is on the topic, or was delayed.
Excused(e) == e \in Range(log) \/ e \in delayed

\* The strengthening of RelayedInIdOrder: a row that failed was delayed, and
\* before a row that a round took or sent there is none that is not excused,
\* but for the ones the same round is still to send before it.
OrderInv ==
    /\ \A e \in Event : state[e] = "waiting" => e \in delayed
    /\ \A r \in Relay : failed[r] \subseteq delayed
    /\ \A e, f \in Event :
         e < f /\ state[e] # "absent" /\ (f \in Range(log) \/ Locked(f))
         => \/ Excused(e)
            \/ f \notin Range(log) /\ \E r \in Relay : e \in todo[r] /\ f \in todo[r]

\* ORDER BY id LIMIT: what is before a row of the batch is in the batch.
LEMMA BatchIsFirst ==
    ASSUME NEW es \in SUBSET Event, NEW e \in es, NEW f \in FirstById(es), e < f
    PROVE  e \in FirstById(es)
  <1> DEFINE below(x) == {g \in es : g < x}
  <1>1. f \in es /\ f \in Nat /\ e \in Nat /\ Cardinality(below(f)) < Batch
    BY OutboxAssumption DEF FirstById
  <1>2. below(f) \subseteq 0..f /\ below(e) \subseteq below(f)
    <2>1. \A g \in es : g \in Nat /\ (g < e => g < f) /\ (g < f => g \in 0..f)
      BY <1>1, OutboxAssumption
    <2> QED BY <2>1
  <1>f. f \in Int /\ 0 \in Int
    BY <1>1
  <1> HIDE DEF below
  <1>3. IsFiniteSet(below(f))
    <2>1. IsFiniteSet(0..f)
      BY <1>f, FS_Interval
    <2> QED BY <1>2, <2>1, FS_Subset
  <1>4. /\ Cardinality(below(e)) <= Cardinality(below(f))
        /\ Cardinality(below(e)) \in Nat /\ Cardinality(below(f)) \in Nat
    BY <1>2, <1>3, FS_Subset, FS_CardinalityType
  <1>5. Cardinality(below(e)) < Batch
    BY <1>1, <1>4, OutboxAssumption
  <1> QED BY <1>5 DEF FirstById, below

\* A step that neither takes nor sends a row, nor takes an excuse away.
LEMMA QuietKeepsOrder ==
    ASSUME OrderInv, Range(log)' = Range(log), delayed \subseteq delayed',
           \A e \in Event : state'[e] = "waiting" => e \in delayed',
           \A r \in Relay : failed'[r] \subseteq failed[r],
           \A f \in Event : Locked(f)' => Locked(f),
           \A e \in Event : state'[e] # "absent" => state[e] # "absent",
           \A r \in Relay : todo'[r] = todo[r] \/ todo[r] \subseteq delayed'
    PROVE  OrderInv'
  <1>1. ASSUME NEW e \in Event, NEW f \in Event, e < f, state'[e] # "absent",
               f \in Range(log)' \/ Locked(f)'
        PROVE  \/ Excused(e)'
               \/ f \notin Range(log)' /\ \E r \in Relay : e \in todo'[r] /\ f \in todo'[r]
    <2>1. \/ Excused(e)
          \/ f \notin Range(log) /\ \E r \in Relay : e \in todo[r] /\ f \in todo[r]
      BY <1>1 DEF OrderInv
    <2>2. CASE Excused(e)
      BY <2>2 DEF Excused
    <2>3. ASSUME f \notin Range(log), NEW r \in Relay, e \in todo[r], f \in todo[r]
          PROVE  \/ Excused(e)'
                 \/ f \notin Range(log)' /\ \E s \in Relay : e \in todo'[s] /\ f \in todo'[s]
      BY <2>3 DEF Excused
    <2> QED BY <2>1, <2>2, <2>3
  <1> QED BY <1>1 DEF OrderInv

\* Every step keeps the rows in order.
LEMMA OrderStays == IInv /\ LockInv /\ OrderInv /\ [Next]_vars => OrderInv'
  <1> SUFFICES ASSUME IInv, LockInv, OrderInv, [Next]_vars PROVE OrderInv'
    OBVIOUS
  <1>0. TypeOK /\ SentIsPublished /\ HeldAreQueued
    BY DEF IInv
  <1>1. ASSUME NEW g \in Event, PublishTx(g) PROVE OrderInv'
    <2>1. /\ state' = [state EXCEPT ![g] = "due"] /\ log' = log /\ todo' = todo /\ failed' = failed
          /\ delayed \subseteq delayed' /\ \A f \in Event : Locked(f)' <=> Locked(f)
      BY <1>1 DEF PublishTx, round, Locked, Held
    <2>2. \A f \in Event : g < f /\ (f \in Range(log) \/ Locked(f)) => g \in delayed'
      BY <1>1 DEF PublishTx
    <2>3. Range(log)' = Range(log)
      BY <2>1 DEF Range
    <2>4. \A e \in Event : e # g => state'[e] = state[e]
      BY <1>0, <2>1 DEF TypeOK
    <2>5. state'[g] = "due"
      BY <1>0, <2>1 DEF TypeOK
    <2>6. ASSUME NEW e \in Event, NEW f \in Event, e < f, state'[e] # "absent",
                 f \in Range(log)' \/ Locked(f)'
          PROVE  \/ Excused(e)'
                 \/ f \notin Range(log)' /\ \E r \in Relay : e \in todo'[r] /\ f \in todo'[r]
      <3>1. CASE e = g
        BY <2>1, <2>2, <2>3, <2>6, <3>1 DEF Excused
      <3>2. CASE e # g
        BY <2>1, <2>3, <2>4, <2>6, <3>2 DEF OrderInv, Excused
      <3> QED BY <3>1, <3>2
    <2> QED BY <2>1, <2>4, <2>5, <2>6 DEF OrderInv
  <1>2. ASSUME NEW g \in Event, BackoffOver(g) \/ Cleanup(g) PROVE OrderInv'
    <2>1. /\ log' = log /\ todo' = todo /\ failed' = failed /\ delayed' = delayed
          /\ \A f \in Event : Locked(f)' <=> Locked(f)
      BY <1>2 DEF BackoffOver, Cleanup, round, Locked, Held
    <2>2. \A e \in Event : /\ state'[e] = "waiting" => state[e] = "waiting"
                           /\ state'[e] # "absent" => state[e] # "absent"
      BY <1>0, <1>2 DEF BackoffOver, Cleanup, TypeOK
    <2>3. Range(log)' = Range(log)
      BY <2>1 DEF Range
    <2>4. \A e \in Event : state'[e] = "waiting" => e \in delayed'
      BY <2>1, <2>2 DEF OrderInv
    <2> QED BY <2>1, <2>2, <2>3, <2>4, QuietKeepsOrder
  <1>3. ASSUME NEW r \in Relay, Take(r) PROVE OrderInv'
    <2> DEFINE free == {e \in Event : state[e] = "due" /\ ~Locked(e)}
    <2>1. /\ todo' = [todo EXCEPT ![r] = FirstById(free)] /\ ~open[r]
          /\ sent' = sent /\ failed' = failed /\ state' = state /\ log' = log
          /\ delayed' = delayed \cup {e \in Event : Locked(e) /\ \E f \in FirstById(free) : e < f}
      BY <1>3 DEF Take
    <2>2. free \in SUBSET Event /\ FirstById(free) \subseteq free
      BY DEF FirstById
    <2>3. todo[r] = {} /\ \A s \in Relay : todo'[s] = IF s = r THEN FirstById(free) ELSE todo[s]
      BY <1>0, <2>1 DEF TypeOK, LockInv, Held
    <2>4. Range(log)' = Range(log)
      BY <2>1 DEF Range
    <2>5. \A f \in Event : Locked(f)' => Locked(f) \/ f \in FirstById(free)
      BY <2>1, <2>3 DEF Locked, Held
    <2>6. ASSUME NEW e \in Event, NEW f \in Event, e < f, state[e] # "absent",
                 f \in FirstById(free)
          PROVE  \/ Excused(e)'
                 \/ f \notin Range(log)' /\ \E s \in Relay : e \in todo'[s] /\ f \in todo'[s]
      <3>1. CASE state[e] \in {"sent", "deleted"}
        BY <1>0, <2>4, <3>1 DEF SentIsPublished, Excused
      <3>2. CASE state[e] = "waiting" \/ Locked(e)
        BY <2>1, <2>6, <3>2 DEF OrderInv, Excused
      <3>3. CASE state[e] = "due" /\ ~Locked(e)
        <4>1. e \in FirstById(free)
          <5>1. e \in free
            BY <3>3
          <5> HIDE DEF free
          <5> QED BY <2>2, <2>6, <5>1, BatchIsFirst
        <4>2. e \in todo'[r] /\ f \in todo'[r]
          BY <2>3, <2>6, <4>1
        <4>3. ~Locked(f)
          BY <2>2, <2>6
        <4>4. CASE f \in Range(log)
          BY <2>1, <2>4, <2>6, <4>3, <4>4, <3>3 DEF OrderInv, Excused, Locked, Held
        <4> QED BY <2>4, <4>2, <4>4
      <3> QED BY <1>0, <2>6, <3>1, <3>2, <3>3 DEF TypeOK, RowState
    <2>7. ASSUME NEW e \in Event, NEW f \in Event, e < f, state[e] # "absent",
                 f \in Range(log) \/ Locked(f)
          PROVE  \/ Excused(e)'
                 \/ f \notin Range(log)' /\ \E s \in Relay : e \in todo'[s] /\ f \in todo'[s]
      <3>1. \/ Excused(e)
            \/ f \notin Range(log) /\ \E s \in Relay : e \in todo[s] /\ f \in todo[s]
        BY <2>7 DEF OrderInv
      <3>2. Excused(e) => Excused(e)'
        BY <2>1, <2>4 DEF Excused
      <3> HIDE DEF free
      <3> QED BY <2>3, <2>4, <3>1, <3>2
    <2> HIDE DEF free
    <2>8. ASSUME NEW e \in Event, NEW f \in Event, e < f, state'[e] # "absent",
                 f \in Range(log)' \/ Locked(f)'
          PROVE  \/ Excused(e)'
                 \/ f \notin Range(log)' /\ \E s \in Relay : e \in todo'[s] /\ f \in todo'[s]
      BY <2>1, <2>4, <2>5, <2>6, <2>7, <2>8
    <2> QED BY <2>1, <2>8 DEF OrderInv
  <1>4. ASSUME NEW r \in Relay, NEW g \in Event, Produce(r, g) \/ ProduceFails(r, g)
        PROVE  OrderInv'
    <2>1. /\ IsNext(r, g) /\ state' = state /\ todo' = [todo EXCEPT ![r] = @ \ {g}]
          /\ delayed \subseteq delayed' /\ log' \in {log, Append(log, g)}
      BY <1>4 DEF Produce, ProduceFails
    <2>2. Range(log) \subseteq Range(log)' /\ Range(log)' \subseteq Range(log) \cup {g}
      <3>1. log \in Seq(Event)
        BY <1>0 DEF TypeOK
      <3>2. CASE log' = log
        BY <3>2 DEF Range
      <3>3. CASE log' = Append(log, g)
        <4>1. Range(Append(log, g)) = Range(log) \cup {g}
          BY <3>1, RangeAppend
        <4> QED BY <3>3, <4>1 DEF Range
      <3> QED BY <2>1, <3>2, <3>3
    <2>3. Excused(g)'
      <3>1. CASE Produce(r, g)
        BY <1>0, <3>1, RangeAppend DEF Produce, TypeOK, Excused
      <3>2. CASE ProduceFails(r, g)
        BY <3>2 DEF ProduceFails, Excused
      <3> QED BY <1>4, <3>1, <3>2
    <2>4. \A s \in Relay : failed'[s] \subseteq delayed'
      <3>1. CASE Produce(r, g)
        BY <3>1, <2>1 DEF Produce, OrderInv
      <3>2. CASE ProduceFails(r, g)
        BY <1>0, <3>2 DEF ProduceFails, OrderInv, TypeOK
      <3> QED BY <1>4, <3>1, <3>2
    <2>5. \A f \in Event : Locked(f)' => Locked(f)
      <3>1. CASE Produce(r, g)
        BY <1>0, <3>1 DEF Produce, IsNext, Locked, Held, TypeOK
      <3>2. CASE ProduceFails(r, g)
        BY <1>0, <3>2 DEF ProduceFails, IsNext, Locked, Held, TypeOK
      <3> QED BY <1>4, <3>1, <3>2
    <2>6. /\ g \in todo[r] /\ Locked(g) /\ \A e \in todo[r] : g <= e
          /\ \A s \in Relay : g \in todo[s] => s = r
      BY <2>1 DEF IsNext, Locked, Held, LockInv
    <2>7. \A s \in Relay : todo'[s] = IF s = r THEN todo[r] \ {g} ELSE todo[s]
      BY <1>0, <2>1 DEF TypeOK
    <2>8. ASSUME NEW e \in Event, NEW f \in Event, e < f, state'[e] # "absent",
                 f \in Range(log)' \/ Locked(f)'
          PROVE  \/ Excused(e)'
                 \/ f \notin Range(log)' /\ \E s \in Relay : e \in todo'[s] /\ f \in todo'[s]
      <3>1. CASE e = g
        BY <2>3, <3>1
      <3>2. CASE e # g
        <4>1. state[e] # "absent" /\ (f \in Range(log) \/ Locked(f))
          BY <2>1, <2>2, <2>5, <2>6, <2>8
        <4>2. \/ Excused(e)
              \/ f \notin Range(log) /\ \E s \in Relay : e \in todo[s] /\ f \in todo[s]
          BY <2>8, <4>1 DEF OrderInv
        <4>3. CASE Excused(e)
          BY <2>1, <2>2, <4>3 DEF Excused
        <4>4. ASSUME f \notin Range(log), NEW s \in Relay, e \in todo[s], f \in todo[s]
              PROVE  f \notin Range(log)' /\ e \in todo'[s] /\ f \in todo'[s]
          <5>1. f # g
            <6>1. f = g => s = r /\ g <= e
              BY <2>6, <4>4
            <6>2. e \in Nat /\ f \in Nat
              BY OutboxAssumption
            <6> QED BY <2>8, <6>1, <6>2, OutboxAssumption
          <5> QED BY <2>2, <2>7, <3>2, <4>4, <5>1
        <4> QED BY <4>2, <4>3, <4>4
      <3> QED BY <3>1, <3>2
    <2>9. \A e \in Event : state'[e] = "waiting" => e \in delayed'
      BY <2>1 DEF OrderInv
    <2> QED BY <2>4, <2>8, <2>9 DEF OrderInv
  <1>5. ASSUME NEW r \in Relay, CommitRound(r) PROVE OrderInv'
    <2>1. /\ log' = log /\ delayed' = delayed /\ todo[r] = {} /\ todo' = [todo EXCEPT ![r] = {}]
          /\ failed' = [failed EXCEPT ![r] = {}] /\ sent' = [sent EXCEPT ![r] = {}]
      BY <1>5 DEF CommitRound, Ends
    <2>2. \A e \in Event : state'[e] = (IF e \in sent[r] THEN "sent"
                                        ELSE IF e \in failed[r] THEN "waiting" ELSE state[e])
      BY <1>5 DEF CommitRound
    <2>3. Range(log)' = Range(log)
      BY <2>1 DEF Range
    <2>4. /\ \A s \in Relay : todo'[s] = todo[s] /\ failed'[s] \subseteq failed[s]
          /\ \A f \in Event : Locked(f)' => Locked(f)
      BY <1>0, <2>1 DEF TypeOK, Locked, Held
    <2>5. \A e \in Event : /\ state'[e] = "waiting" => e \in delayed'
                           /\ state'[e] # "absent" => state[e] # "absent"
      BY <1>0, <2>1, <2>2 DEF OrderInv, HeldAreQueued, Held
    <2> QED BY <2>1, <2>3, <2>4, <2>5, QuietKeepsOrder
  <1>6. ASSUME NEW r \in Relay, RollBack(r) PROVE OrderInv'
    <2>1. /\ log' = log /\ state' = state /\ delayed' = delayed \cup Held(r)
          /\ todo' = [todo EXCEPT ![r] = {}]
          /\ failed' = [failed EXCEPT ![r] = {}] /\ sent' = [sent EXCEPT ![r] = {}]
      BY <1>6 DEF RollBack, Ends
    <2>2. Range(log)' = Range(log)
      BY <2>1 DEF Range
    <2>3. /\ \A s \in Relay : /\ todo'[s] = todo[s] \/ todo[s] \subseteq delayed'
                              /\ failed'[s] \subseteq failed[s]
          /\ \A f \in Event : Locked(f)' => Locked(f)
      BY <1>0, <2>1 DEF TypeOK, Locked, Held
    <2>4. \A e \in Event : state'[e] = "waiting" => e \in delayed'
      BY <2>1 DEF OrderInv
    <2> QED BY <2>1, <2>2, <2>3, <2>4, QuietKeepsOrder
  <1>7. CASE UNCHANGED <<state, log, round, delayed>>
    BY <1>7 DEF round, OrderInv, Excused, Locked, Held, Range
  <1>8. ASSUME NEW r \in Relay, StopOutbox(r) \/ StartOutbox(r) PROVE OrderInv'
    BY <1>7, <1>8 DEF StopOutbox, StartOutbox
  <1> QED BY <1>1, <1>2, <1>3, <1>4, <1>5, <1>6, <1>7, <1>8 DEF Next, AllSent, vars

\* RelayedInIdOrder: for any rows, replicas and batch size, a row is ahead of
\* an earlier one on the topic only when the earlier one was delayed.
THEOREM InOrder == Spec => []RelayedInIdOrder
  <1>1. Init => LockInv /\ OrderInv
    <2> SUFFICES ASSUME Init PROVE LockInv /\ OrderInv
      OBVIOUS
    <2>1. Range(log) = {}
      BY DEF Init, Range
    <2> QED BY <2>1 DEF Init, LockInv, OrderInv, Locked, Held
  <1>2. OrderInv => RelayedInIdOrder
    BY DEF OrderInv, RelayedInIdOrder, Excused
  <1>3. IInv => TypeOK
    BY DEF IInv
  <1> QED BY <1>1, <1>2, <1>3, Invariance, LocksStay, OrderStays, PTL DEF Spec
=============================================================================
