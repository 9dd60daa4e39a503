-------------------------------- MODULE Xolu --------------------------------
(***************************************************************************)
(* The parts of xolu around its entity store: the process and its graph    *)
(* persister, the graph, the time series of a tenant and the query jobs,   *)
(* each with constants and variables of its own.  They share no state      *)
(* here: running is the component that runs, and the others stay in an     *)
(* initial state of theirs.  The values the configurations give the        *)
(* constants are at the end.                                               *)
(***************************************************************************)
CONSTANTS
    Documents, Requests, MaxChanges, MaxProcessFaults,
    NodeIDs, GraphTenants, Relationships, Modes, Limit, MaxEdges, MaxQueryDepth,
    MaxDim, MaxDay, MaxNums, Config, Timelines, Dims, RetentionDays, Batches, Writers, purgeBatchSize,
    MaxWrites, MaxConfigs, MaxSeriesFaults,
    Managers, Jobs, EntityTypes, Missing, TTL, MaxQuery, MaxTime

VARIABLES docs, nodes, file, changes, dirty, req, about, loop, snap, final, signal, main, faults

L == INSTANCE Lifecycle WITH Entities <- Documents, MaxFaults <- MaxProcessFaults

lvars == <<docs, nodes, file, changes, dirty, req, about, loop, snap, final, signal, main, faults>>

VARIABLE graph

G == INSTANCE GraphMachine WITH Tenants <- GraphTenants

VARIABLES reg, defaultRetention, regFile, known, open, events, counters, meta, writing, purge,
          day, writes, configs, tfaults, stored, horizon, crashed

T == INSTANCE TimeSeriesStore WITH
        MaxTime <- MaxDay, MaxFaults <- MaxSeriesFaults, now <- day, faults <- tfaults

tvars == <<reg, defaultRetention, regFile, known, open, events, counters, meta, writing, purge,
           day, writes, configs, tfaults, stored, horizon, crashed>>

VARIABLES manager, now, jobs, pc, asked, ended, store, cache

J == INSTANCE QueryJobs WITH Entities <- EntityTypes, about <- asked

jvars == <<manager, now, jobs, pc, asked, ended, store, cache>>

ASSUME XoluAssumption == J!JobsAssumption

-----------------------------------------------------------------------------
VARIABLE running

xvars == <<running, lvars, graph, tvars, jvars>>

XoluInit ==
    /\ running \in {"process", "graph", "timeseries", "jobs"}
    /\ L!Init /\ G!Init /\ T!Init /\ J!Init

ProcessRuns(A)    == running = "process"    /\ A /\ UNCHANGED <<running, graph, tvars, jvars>>
GraphRuns(A)      == running = "graph"      /\ A /\ UNCHANGED <<running, lvars, tvars, jvars>>
TimeSeriesRuns(A) == running = "timeseries" /\ A /\ UNCHANGED <<running, lvars, graph, jvars>>
JobsRun(A)        == running = "jobs"       /\ A /\ UNCHANGED <<running, lvars, graph, tvars>>

XoluNext == ProcessRuns(L!Next) \/ GraphRuns(G!Next) \/ TimeSeriesRuns(T!Next) \/ JobsRun(J!Next)

-----------------------------------------------------------------------------
\* A change of the graph is in the file, or will be: the persister has it to
\* save, or a request has still to mark it (MarkDirty, Start, Save).
SavedOrDirty == L!SavedOrDirty

\* Without another crash or signal, the graph on disk is the one in memory in
\* the end (the loop of Start).
EventuallySaved == running = "process" => L!EventuallySaved

\* On every graph the writers can produce the counters and indexes are those
\* of a scan, cycle detection keeps each tenant acyclic, the traversals find
\* what is reachable, CheckEdge foresees AddEdge, and no tenant's endpoint
\* answers from another tenant's part of the graph (flat_graph.go, server.go).
GraphExact ==
    /\ G!CountersExact /\ G!TenantsAcyclic
    /\ running = "graph" => G!TraversalsExact /\ G!PreviewsExact /\ G!TenantIsolation

\* Stored events keep the shape of their timeline, are counted, are lost only
\* when they had expired, and the queries over them answer exactly (store.go,
\* ts_handlers.go; RangeCount, RangeAvg and Latest do not, see below).
TimeSeriesExact ==
    T!KeysMatchDims /\ T!CountersCover /\ T!StoredUntilExpired /\ T!QueriesExact

\* The retention worker deletes every expired event in the end.
EventuallyPurged == T!EventuallyPurged

\* The outcome of a query job is kept for its TTL whatever the cleanup does.
OutcomesKept == J!OutcomesKept

\* "N most recent events" (types.go), and "counts events carrying the specific
\* field" (store.go), which the code does not keep.
LatestAreNewest == T!LatestAreNewest
FieldCountsExact == T!FieldCountsExact

-----------------------------------------------------------------------------
(* The values of the configurations: three nodes of two tenants, two       *)
(* writers of a time series and its retention worker, two query jobs       *)

node(tenant, id) == [tenant |-> tenant, entity |-> "a", id |-> id]

MCNodeIDs == {node(1, 1), node(1, 2), node(0, 1)}

event(dims, time, nums) == [tid |-> 1, dims |-> dims, time |-> time, nums |-> nums]

\* Events with both fields, one or none, on three days and of two buckets.
MCBatches == {<<event(<<0, 1>>, 0, <<1, 4>>), event(<<0, 0>>, 2, <<3>>)>>,
              <<event(<<0, 1>>, 1, << >>), event(<<1, 0>>, 1, <<2>>)>>}
NoLimits == [maxEvents |-> 0, maxScan |-> 0, maxRangeDays |-> 0, maxBatchSize |-> 2, maxBuckets |-> 0]

\* One initial state of a component is enough while another one runs.
MCXoluInit ==
    /\ XoluInit
    /\ running # "graph" => graph.cycleDetection = "error"
    /\ running # "jobs" => manager = "oql" /\ store = {}

\* The fairness of the components' own specifications.
MCXoluSpec ==
    /\ MCXoluInit /\ [][XoluNext]_xvars
    /\ WF_xvars(ProcessRuns(L!Tick)) /\ WF_xvars(ProcessRuns(L!LastTick)) /\ WF_xvars(ProcessRuns(L!Snapshot))
    /\ WF_xvars(ProcessRuns(L!Written))
    /\ WF_xvars(ProcessRuns(\E r \in Requests : L!Change(r) \/ L!MarkDirty(r)))
    /\ WF_xvars(ProcessRuns(L!Drained)) /\ WF_xvars(ProcessRuns(L!Stopped)) /\ WF_xvars(ProcessRuns(L!Exit))
    /\ WF_xvars(ProcessRuns(L!Restart))
    /\ WF_xvars(TimeSeriesRuns(T!Purging /\ T!Observed))

\* The time series alone, for TimeSeriesLatest.cfg.
TimeSeriesAlone == MCXoluInit /\ running = "timeseries" /\ [][XoluNext]_xvars
=============================================================================
