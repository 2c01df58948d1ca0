-------------------------------- MODULE Parts --------------------------------
(***************************************************************************)
(* The smaller parts of a process that share no state: what keeps a key in *)
(* the service's Redis (the idempotency middleware, the cache, the id      *)
(* generator's lease, the callbacks' dedupe key, the lock of a job), what  *)
(* follows Nacos (a configuration, the instances of a service, the records *)
(* of all services), and the process's own life.  Their keys have          *)
(* different prefixes, their locks are their own and none calls another,   *)
(* so that every interleaving of two of them is one behaviour of each: a   *)
(* behaviour of this specification is a behaviour of one part, chosen at   *)
(* the start, with the others at rest.                                     *)
(***************************************************************************)
EXTENDS Idempotency, Cache, IdLease, Callback, Job,
        NacosConfig, Discovery, Services, Lifecycle

VARIABLE part

partsVars == <<part, vars, cacheVars, idVars, callbackVars, jobVars,
               configVars, discoveryVars, servicesVars, lifeVars>>

\* The parts but p stay as they are.
OnlyMoves(p) ==
    /\ part = p /\ UNCHANGED part
    /\ p # "idempotency" => UNCHANGED vars
    /\ p # "cache" => UNCHANGED cacheVars
    /\ p # "id" => UNCHANGED idVars
    /\ p # "callback" => UNCHANGED callbackVars
    /\ p # "job" => UNCHANGED jobVars
    /\ p # "configuration" => UNCHANGED configVars
    /\ p # "discovery" => UNCHANGED discoveryVars
    /\ p # "services" => UNCHANGED servicesVars
    /\ p # "life" => UNCHANGED lifeVars

\* A part at rest is in one of its initial states; which one does not matter.
PartsInit ==
    /\ part \in {"idempotency", "cache", "id", "callback", "job",
                 "configuration", "discovery", "services", "life"}
    /\ Init /\ CacheInit /\ IdInit /\ CallbackInit /\ JobInit
    /\ ConfigInit /\ DiscoveryInit /\ ServicesInit /\ LifeInit
    /\ part # "cache" => cacheOn /\ entry = NoEntry
    /\ part # "callback" => deduped /\ archiving
    /\ part # "job" => jobLocked
    /\ part # "configuration" => ~offline /\ doc = <<"good">>
    /\ part # "discovery" => instances = "empty"
    /\ part # "services" => names = {}
    /\ part # "life" => kind = "rpc" /\ on = {"id"}

PartsNext ==
    \/ OnlyMoves("idempotency") /\ Next
    \/ OnlyMoves("cache") /\ CacheNext
    \/ OnlyMoves("id") /\ IdNext
    \/ OnlyMoves("callback") /\ CallbackNext
    \/ OnlyMoves("job") /\ JobNext
    \/ OnlyMoves("configuration") /\ ConfigNext
    \/ OnlyMoves("discovery") /\ DiscoveryNext
    \/ OnlyMoves("services") /\ ServicesNext
    \/ OnlyMoves("life") /\ LifeNext

PartsSpec == PartsInit /\ [][PartsNext]_partsVars
=============================================================================
