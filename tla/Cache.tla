------------------------------- MODULE Cache --------------------------------
(***************************************************************************)
(* The read-through cache (redisx/cache.go) for one id: Get of readers in  *)
(* several processes, each with its single flight, and writers that commit *)
(* to the database and call Del or Set.  A value is the version of the row *)
(* it was read from; version 0 is the row that is not there (a loader      *)
(* error matching notFound, kept as a tombstone).                          *)
(***************************************************************************)
EXTENDS Integers, FiniteSets

CONSTANTS
    Reader, Writer,  \* calls of Get; writers, one write each
    Process, Home,   \* Home[r] is the process the reader runs in
    NoReader,        \* no load in flight
    MaxCacheFaults   \* bound: Redis and loader errors, panics

ASSUME CacheAssumption ==
    /\ Home \in [Reader -> Process] /\ NoReader \notin Reader
    /\ MaxCacheFaults \in Nat /\ IsFiniteSet(Writer)

VARIABLES
    cacheOn,         \* rdb is not nil
    row,             \* the committed version
    entry,           \* the Redis key
    flight,          \* per process, the reader whose load is in the map
    getAt, val,      \* each reader's place, the value it loaded
    leader,          \* whom a reader waits for
    released,        \* the readers whose call is Done
    answer,          \* what Get returned
    putAt, put,      \* each writer's place, the version it committed
    cacheFaults,
    settled,         \* history: the newest version whose Del or Set succeeded
    floor,           \* history: settled when the reader's Get began
    landed,          \* history: the load of its process that had read the row by then
    stale,           \* history: entry was put there, by a load or by a writer's Set,
                     \* after a newer commit
    excused          \* history: readers answered from such an entry or load

readerVars == <<flight, getAt, val, leader, released, answer, floor, landed, excused>>
writerVars == <<row, putAt, put, settled>>
cacheVars == <<cacheOn, entry, stale, cacheFaults, readerVars, writerVars>>

NoEntry == -1
Garbled == -2        \* stored by a version of the type that does not decode
Failed == -3
Version == 0..Cardinality(Writer)

GetPlace == {"start", "plain", "fly", "wait", "load", "loaded", "done", "store",
             "returned", "panicked"}

CacheInit ==
    /\ cacheOn \in BOOLEAN /\ row = 0
    /\ entry \in IF cacheOn THEN {NoEntry, Garbled} ELSE {NoEntry}
    /\ flight = [p \in Process |-> NoReader]
    /\ getAt = [r \in Reader |-> "start"] /\ val = [r \in Reader |-> Failed]
    /\ released = {} /\ leader = [r \in Reader |-> NoReader] /\ answer = [r \in Reader |-> Failed]
    /\ putAt = [w \in Writer |-> "commit"] /\ put = [w \in Writer |-> 0]
    /\ cacheFaults = 0 /\ settled = 0 /\ floor = [r \in Reader |-> 0]
    /\ landed = [r \in Reader |-> NoReader] /\ stale = FALSE /\ excused = {}

CacheFault == cacheFaults < MaxCacheFaults /\ cacheFaults' = cacheFaults + 1

Answered(r, v) == /\ getAt' = [getAt EXCEPT ![r] = "returned"]
                  /\ answer' = [answer EXCEPT ![r] = v]

-----------------------------------------------------------------------------
(* Get. *)

\* The Redis Get comes first, so that the call begins where it is answered.
Begin(r) ==
    /\ getAt[r] = "start"
    /\ floor' = [floor EXCEPT ![r] = settled]

\* A decodable value, or the tombstone.
CacheHit(r) ==
    /\ Begin(r) /\ cacheOn /\ entry \in Version
    /\ Answered(r, entry)
    /\ excused' = IF stale THEN excused \cup {r} ELSE excused
    /\ UNCHANGED <<cacheOn, entry, stale, cacheFaults, flight, val, leader, released, landed,
                   writerVars>>

CacheMiss(r) ==
    /\ Begin(r) /\ (cacheOn => entry \in {NoEntry, Garbled})
    /\ getAt' = [getAt EXCEPT ![r] = "fly"]
    /\ landed' = IF \E l \in Reader : Home[l] = Home[r] /\ getAt[l] \in {"loaded", "done"}
                 THEN [landed EXCEPT ![r] = flight[Home[r]]] ELSE landed
    /\ UNCHANGED <<cacheOn, entry, stale, cacheFaults, flight, val, leader, released, answer,
                   excused, writerVars>>

\* Redis cannot be asked: a plain call of the loader, nothing shared or kept.
CacheGetError(r) ==
    /\ Begin(r) /\ cacheOn /\ CacheFault
    /\ getAt' = [getAt EXCEPT ![r] = "plain"]
    /\ UNCHANGED <<cacheOn, entry, stale, flight, val, leader, released, answer, landed,
                   excused, writerVars>>

PlainLoad(r) ==
    /\ getAt[r] = "plain" /\ Answered(r, row)
    /\ UNCHANGED <<cacheOn, entry, stale, cacheFaults, flight, val, leader, released, floor, landed,
                   excused, writerVars>>

\* flight.LoadOrStore: the first loads, the others wait for it.
Fly(r) ==
    /\ getAt[r] = "fly"
    /\ LET p == Home[r] IN
       IF flight[p] = NoReader
       THEN /\ flight' = [flight EXCEPT ![p] = r]
            /\ getAt' = [getAt EXCEPT ![r] = "load"] /\ UNCHANGED leader
       ELSE /\ leader' = [leader EXCEPT ![r] = flight[p]]
            /\ getAt' = [getAt EXCEPT ![r] = "wait"] /\ UNCHANGED flight
    /\ UNCHANGED <<cacheOn, entry, stale, cacheFaults, val, released, answer, floor, landed,
                   excused, writerVars>>

Load(r) ==
    /\ getAt[r] = "load"
    /\ getAt' = [getAt EXCEPT ![r] = "loaded"]
    /\ val' = [val EXCEPT ![r] = row]
    /\ UNCHANGED <<cacheOn, entry, stale, cacheFaults, flight, leader, released, answer, floor, landed,
                   excused, writerVars>>

LoadErrorReturns(r) ==
    /\ getAt[r] = "load" /\ CacheFault /\ Answered(r, Failed)
    /\ flight' = [flight EXCEPT ![Home[r]] = NoReader]
    /\ UNCHANGED <<cacheOn, entry, stale, val, leader, released, floor, landed, excused, writerVars>>

LoadError(r) ==
    /\ getAt[r] = "load" /\ CacheFault
    /\ getAt' = [getAt EXCEPT ![r] = "loaded"]
    /\ UNCHANGED <<cacheOn, entry, stale, flight, val, leader, released, answer, floor, landed, excused,
                   writerVars>>

\* Done and Delete are not deferred: both are skipped, the middleware above
\* recovers, and the entry stays in the map.
LoadPanic(r) ==
    /\ getAt[r] = "load" /\ CacheFault
    /\ getAt' = [getAt EXCEPT ![r] = "panicked"]
    /\ UNCHANGED <<cacheOn, entry, stale, flight, val, leader, released, answer, floor, landed, excused,
                   writerVars>>

\* wg.Done: the waiters may take val.
Done(r) ==
    /\ getAt[r] = "loaded"
    /\ getAt' = [getAt EXCEPT ![r] = "done"] /\ released' = released \cup {r}
    /\ UNCHANGED <<cacheOn, entry, stale, cacheFaults, flight, val, leader, answer, floor,
                   landed, excused, writerVars>>

LandStays(r) ==
    /\ getAt[r] = "done"
    /\ IF val[r] = Failed \/ ~cacheOn
       THEN Answered(r, val[r])
       ELSE getAt' = [getAt EXCEPT ![r] = "store"] /\ UNCHANGED answer
    /\ UNCHANGED <<cacheOn, entry, stale, cacheFaults, flight, val, leader, released, floor, landed,
                   excused, writerVars>>

\* flight.Delete; an error other than notFound is returned as it is.
Land(r) ==
    /\ getAt[r] = "done"
    /\ flight' = [flight EXCEPT ![Home[r]] = NoReader]
    /\ IF val[r] = Failed \/ ~cacheOn
       THEN Answered(r, val[r])
       ELSE getAt' = [getAt EXCEPT ![r] = "store"] /\ UNCHANGED answer
    /\ UNCHANGED <<cacheOn, entry, stale, cacheFaults, val, leader, released, floor, landed, excused,
                   writerVars>>

\* Set of the value or of the tombstone.
Store(r) ==
    /\ getAt[r] = "store" /\ Answered(r, val[r])
    /\ entry' = val[r] /\ stale' = (val[r] < row)
    /\ UNCHANGED <<cacheOn, cacheFaults, flight, val, leader, released, floor, landed, excused,
                   writerVars>>

\* Set fails, or the value cannot be encoded: nothing is kept.
StoreError(r) ==
    /\ getAt[r] = "store" /\ CacheFault /\ Answered(r, val[r])
    /\ UNCHANGED <<cacheOn, entry, stale, flight, val, leader, released, floor, landed, excused,
                   writerVars>>

\* wg.Wait returns; the loader may have read the row before this Get began.
Waited(r) ==
    /\ getAt[r] = "wait" /\ leader[r] \in released /\ Answered(r, val[leader[r]])
    /\ excused' = IF leader[r] = landed[r] THEN excused \cup {r} ELSE excused
    /\ UNCHANGED <<cacheOn, entry, stale, cacheFaults, flight, val, leader, released, floor, landed,
                   writerVars>>

-----------------------------------------------------------------------------
(* A write: its transaction, then Del, or Set of the value it has. *)

Commit(w) ==
    /\ putAt[w] = "commit"
    /\ row' = row + 1 /\ put' = [put EXCEPT ![w] = row + 1]
    /\ putAt' = [putAt EXCEPT ![w] = "invalidate"]
    /\ UNCHANGED <<cacheOn, entry, stale, cacheFaults, readerVars, settled>>

\* Redis is told, and settled is what every later Get should see.
Invalidated(w) ==
    /\ putAt[w] = "invalidate" /\ cacheOn
    /\ putAt' = [putAt EXCEPT ![w] = "over"]
    /\ settled' = IF put[w] > settled THEN put[w] ELSE settled
    /\ UNCHANGED <<cacheOn, cacheFaults, readerVars, row, put>>

Del(w) == Invalidated(w) /\ entry' = NoEntry /\ stale' = FALSE

\* Nothing orders the Sets: a writer that was overtaken puts its version back.
Set(w) == Invalidated(w) /\ entry' = put[w] /\ stale' = (put[w] < row)

\* The error of Del is logged; the caller of Set has it and can do no more.
InvalidateError(w) ==
    /\ putAt[w] = "invalidate" /\ (cacheOn => CacheFault)
    /\ putAt' = [putAt EXCEPT ![w] = "over"]
    /\ ~cacheOn => UNCHANGED cacheFaults
    /\ UNCHANGED <<cacheOn, entry, stale, readerVars, row, put, settled>>

\* ttl or negativeTTL.
EntryExpires ==
    /\ entry # NoEntry
    /\ entry' = NoEntry /\ stale' = FALSE
    /\ UNCHANGED <<cacheOn, cacheFaults, readerVars, writerVars>>

Loading(r) == getAt[r] \in {"load", "loaded"}

Stuck(r) == getAt[r] = "wait" /\ getAt[leader[r]] = "panicked"

CacheQuiet ==
    /\ \A r \in Reader : getAt[r] \in {"returned", "panicked"} \/ Stuck(r)
    /\ \A w \in Writer : putAt[w] = "over"
    /\ UNCHANGED cacheVars

CacheNext ==
    \/ EntryExpires \/ CacheQuiet
    \/ \E r \in Reader :
         \/ CacheHit(r) \/ CacheMiss(r) \/ CacheGetError(r) \/ PlainLoad(r) \/ Fly(r)
         \/ Load(r) \/ LoadError(r) \/ LoadPanic(r) \/ Done(r) \/ Land(r)
         \/ Store(r) \/ StoreError(r) \/ Waited(r)
    \/ \E w \in Writer : Commit(w) \/ Del(w) \/ Set(w) \/ InvalidateError(w)

CacheSpec == CacheInit /\ [][CacheNext]_cacheVars

-----------------------------------------------------------------------------
(* Properties. *)

\* "Writes to the thing cached call Del after their transaction commits": a
\* Get that begins after Del or Set succeeded is not answered with an older
\* version, but for three races of this code: a load that had read the row
\* before and stored it after, a writer whose Set comes after the commit of
\* a newer one and puts its older version back, and a flight whose load had
\* read the row before.
CacheReadsAreFresh ==
    \A r \in Reader :
        getAt[r] = "returned" /\ answer[r] # Failed
        => answer[r] >= floor[r] \/ r \in excused

\* "once per key per process at a time", and the others "wait for its
\* result": one reader of a process loads, and whoever waits has a loader
\* that is still going to finish, unless that one panicked.
CacheWaitersAreServed ==
    /\ \A r, s \in Reader : Loading(r) /\ Loading(s) /\ Home[r] = Home[s] => r = s
    /\ \A r \in Reader :
         getAt[r] = "wait" =>
            \/ leader[r] \in released
            \/ getAt[leader[r]] \in {"load", "loaded", "panicked"}
=============================================================================
