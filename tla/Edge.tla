-------------------------------- MODULE Edge --------------------------------
(***************************************************************************)
(* The parts of nolu around its registry: the negotiator, the tenant       *)
(* directory, the proxy and the event bus, each with constants and         *)
(* variables of its own.  They share no state here: part is the component  *)
(* that runs, and the others stay in an initial state of theirs.  The      *)
(* values the configurations give the constants are at the end.            *)
(***************************************************************************)
EXTENDS Negotiator, TLC

CONSTANTS
    Places, Moves, NumericName, ChanCap, DirectoryProtocols, DirectoryHistory,
    Instances, RequestIDs, Menus, Deployments, CacheTTL, CacheSize, MaxRedirects, DirectoryTTL, UnstableTTL,
    MaxMoves, MaxProxyFaults, MaxProxyTime,
    Buses, Consumers, Events, MaxDeliver, MaxBusFaults

VARIABLES drecords, phase, chan, skewed, byKey, byName

D == INSTANCE TenantDirectory WITH
        LocalRefs <- Places, Protocols <- DirectoryProtocols, MaxHistory <- DirectoryHistory,
        records <- drecords

dvars == <<drecords, phase, chan, skewed, byKey, byName>>

VARIABLES deploy, requests, serving, dir, changed, pcache, preq, pnow, moves, pfaults

P == INSTANCE Proxy WITH
        MaxFaults <- MaxProxyFaults, MaxTime <- MaxProxyTime,
        cache <- pcache, req <- preq, now <- pnow, faults <- pfaults

pvars == <<deploy, requests, serving, dir, changed, pcache, preq, pnow, moves, pfaults>>

VARIABLES bus, member, array, length, pub, present, quiet, durable, tries, acked, got, bfaults

B == INSTANCE EventBus WITH MaxFaults <- MaxBusFaults, faults <- bfaults

bvars == <<bus, member, array, length, pub, present, quiet, durable, tries, acked, got, bfaults>>

-----------------------------------------------------------------------------
ASSUME EdgeAssumption == D!DirectoryAssumption /\ P!ProxyAssumption /\ P!MenuAssumption /\ B!BusAssumption

VARIABLE part

evars == <<part, vars, dvars, pvars, bvars>>

EdgeInit ==
    /\ part \in {"negotiator", "directory", "proxy", "bus"}
    /\ Init /\ D!Init /\ P!Init /\ B!Init

NegotiatorRuns(A) == part = "negotiator" /\ A /\ UNCHANGED <<part, dvars, pvars, bvars>>
DirectoryRuns(A)  == part = "directory"  /\ A /\ UNCHANGED <<part, vars, pvars, bvars>>
ProxyRuns(A)      == part = "proxy"      /\ A /\ UNCHANGED <<part, vars, dvars, bvars>>
BusRuns(A)        == part = "bus"        /\ A /\ UNCHANGED <<part, vars, dvars, pvars>>

EdgeNext == NegotiatorRuns(Next) \/ DirectoryRuns(D!Next) \/ ProxyRuns(P!Next) \/ BusRuns(B!Next)

-----------------------------------------------------------------------------
\* The two maps of the directory point at the same entries after any events,
\* and its counts are those of the registry unless an event was dropped
\* (updateByNameLocked, rebuildByNameLocked, handleEvent).
DirectoryExact == D!DirectoryExact

\* However many events are pending or lost, the directory empties its channel
\* (the goroutine of Start).
CatchesUp == part = "directory" => D!CatchesUp

\* A read whose tenant stays put succeeds, whatever stale answers other
\* requests put back into the cache, and a location outlives the directory's
\* knowledge by a bounded time (ServeHTTP, locationCache).
ProxyReads == P!ProxyReads

\* Every request of the proxy is answered, whatever the directory and the
\* instances do (the redirect limit of ServeHTTP).
EveryRequestAnswered == part = "proxy" => P!EveryRequestAnswered

\* A publication on MemoryBus during which nobody subscribes calls every
\* matching handler once; JetStream keeps an event for every durable consumer
\* until it was handled or its attempts are used up.
BusDelivers == B!BusDelivers

\* What the comments of the proxy's configuration and of events.go promise, and
\* the code does not keep.
MountReachable == P!MountReachable
AtLeastOnce == B!AtLeastOnce

-----------------------------------------------------------------------------
(* The values of the configurations *)

CONSTANTS g1, g2, order

place(instance, tenant, name, local) ==
    [instance |-> instance, tenant |-> tenant, name |-> name, local |-> local]

\* The negotiator: two competing proposals for one entity, and clients that
\* bypass it.
MCLocalRefs == {place("a", 1, "acme", 1), place("b", 1, "bolt", 1)}

OneEntity == g1 :> NewRecord(place("a", 1, "acme", 1))

\* The directory: a tenant known by name on one instance and by number on the
\* other; moves between the instances, to the name a hotswap leaves, out of
\* the tenants and back.
Named == place("a", 1, "acme", 1)
Moved == place("b", 2, "acme", 1)
Unnamed == place("b", 2, "", 1)
Unscoped == place("c", 0, "", 1)

MCPlaces == {Named, Moved, Unnamed, Unscoped}

MCMoves == {<<Named, Moved>>, <<Moved, Named>>, <<Moved, Unnamed>>, <<Named, Unscoped>>, <<Unscoped, Moved>>}

MCNumericName == (1 :> "tenant-1") @@ (2 :> "tenant-2")

\* The proxy: a read and a write through a handler under /proxy, and two reads
\* through a sidecar; Mounted is as the server mounts it, under /proxy with the
\* prefix stripped.
Sidecar == [prefix |-> <<>>, strip |-> FALSE, MountPath |-> "/", embedded |-> FALSE]
Handler == [prefix |-> <<"proxy">>, strip |-> FALSE, MountPath |-> "proxy", embedded |-> TRUE]
Mounted == [prefix |-> <<"proxy">>, strip |-> TRUE, MountPath |-> "proxy", embedded |-> TRUE]

MCDeployments == {Sidecar, Handler, Mounted}

get(path) == [path |-> path, write |-> FALSE]
Acme == <<"tenant", "acme">>
MCMenus == {<<get(Acme), [path |-> Acme, write |-> TRUE]>>, <<get(Acme), get(<<"tenant", "bolt">>)>>,
            <<get(Acme), get(<<"acme">>)>>}

\* The bus: y subscribes twice, and x and y have a subject in common.
consumer(name, subject) == [name |-> name, subject |-> subject]
MCConsumers == <<consumer("x", <<"events", ">">>), consumer("y", <<"events", ">">>),
                 consumer("y", <<"events", "retired", "users">>)>>
MCEvents == << <<"events", "retired", "users">> >>

\* One initial state of a component is enough while another one runs.
MCEdgeInit ==
    /\ EdgeInit
    /\ deploy = IF requests[2].write THEN Handler ELSE Sidecar
    /\ part # "proxy" => requests = <<get(Acme), get(<<"acme">>)>>
    /\ part # "bus" => bus = "memory"

\* The fairness of the components' own specifications.
MCEdgeSpec ==
    /\ MCEdgeInit /\ [][EdgeNext]_evars
    /\ WF_evars(DirectoryRuns(D!Subscribe)) /\ WF_evars(DirectoryRuns(D!Seed))
    /\ WF_evars(DirectoryRuns(D!HandleEvent))
    /\ \A r \in RequestIDs : WF_evars(ProxyRuns(P!Step(r)))

\* The bus alone and the proxy as it is mounted, for the configurations that
\* show what the code's comments do not hold of.
BusAlone == MCEdgeInit /\ part = "bus" /\ bus = "memory" /\ [][EdgeNext]_evars
ProxyMounted ==
    /\ part = "proxy" /\ deploy = Mounted /\ bus = "memory"
    /\ EdgeInit /\ [][EdgeNext]_evars
=============================================================================
