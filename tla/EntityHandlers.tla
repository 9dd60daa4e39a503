--------------------------- MODULE EntityHandlers ---------------------------
(***************************************************************************)
(* The entity endpoints of xolu (xolu/pkg/server/server.go, handlers.go):  *)
(* requests handled by goroutines of their own that share the store, the   *)
(* in-memory graph and the cache.  The store's transactions, the graph's   *)
(* locked calls and the cache's calls are the steps; nothing is held       *)
(* between them, so requests overtake each other between a request's store *)
(* write and its graph update, and between a read and its cache fill.      *)
(*                                                                         *)
(* A request that validateEntityName, decodeJSON, the schema validator or  *)
(* the size limit refuses touches nothing and is left out.                 *)
(***************************************************************************)
EXTENDS EntityStore, GraphQueries

CONSTANTS
    Menus,        \* sets of requests that may run together, as functions on 1..n
    Configs,      \* [cycleDetection, CascadingDelete, StrictCommit, PatchNullBehavior]
    Adapted,      \* entities with an adapted table
    Start,        \* the documents stored before the requests arrive
    Tenants

\* The tenants are those a reload scans (GraphTenantIDs); validateEntityName
\* refuses an empty name.
IsDocumentKey(k) ==
    k = <<k[1], k[2], k[3]>> /\ k[1] \in Tenants /\ k[2] # "" /\ k[3] \in Nat

\* The stored documents have keys with numbers, and none that the store would
\* have refused: ExtractEntityEdges rejects two REF fields with one target.
ASSUME StartAssumption ==
    /\ IsFiniteSet(DOMAIN Start)
    /\ \A k \in DOMAIN Start :
           IsDocumentKey(k) /\ IsFiniteSet(DOMAIN Start[k]) /\ ~DuplicateTarget(Start[k])

\* A route names a tenant, an entity and a number; what a commit appends goes
\* to an entity of the same tenant.
ASSUME RequestsAssumption ==
    \A menu \in Menus : \A i \in DOMAIN menu :
        IsDocumentKey(menu[i].key) /\ menu[i].id \in Nat /\ menu[i].append # ""

VARIABLES
    config,
    db,           \* the SQLite database
    graph,        \* the FlatGraph
    cache,        \* cache key -> response
    handler,      \* request -> the state of its goroutine
    deleted,      \* history: keys that were deleted
    used,         \* history: keys that ever had a row
    seen,         \* history: <<key, version, data>> given to a client
    overtaken,    \* history: a write was stored between the store write and the
                  \* graph update of another that concerns the same nodes, or
                  \* took the row of a cascading delete that had checked it
    late          \* history: cache keys filled after the invalidation that
                  \* should have removed what they were filled with

vars == <<config, db, graph, cache, handler, deleted, used, seen, overtaken, late>>

rowKey(k) == <<"row", k>>
listKey(t, e) == <<"list", t, e>>

node(k) == NodeID(k[1], k[2], k[3])
edgesOf(k, data) == {<<node(<<k[1], data[f][2], data[f][3]>>), f>> : f \in ExtractRefs(data)}

\* What the store holds once the documents of Start are saved, and the graph
\* loadEntitiesFromEdgeTable makes of it.
stored(k) == [data |-> Start[k], version |-> 1]
startDB ==
    LET D == DOMAIN Start
        blob == {k \in D : k[2] \notin Adapted}
        seqs == {<<k[1], k[2]>> : k \in D}
    IN  [NewSQLiteStore EXCEPT
            !.entities = [k \in blob |-> stored(k)],
            !.adapted  = [k \in D \ blob |-> stored(k)],
            !.sequences = [s \in seqs |-> Max({k[3] : k \in {x \in D : <<x[1], x[2]>> = s}})],
            !.edges = UNION {ExtractEntityEdges(k, Start[k]) : k \in D}]

\* scanTenantEdges: both ends get their real type, then the edge.
loadEdge(g, e) ==
    LET s == node(<<e.tenant, e.source[1], e.source[2]>>)
        t == node(<<e.tenant, e.target[1], e.target[2]>>)
    IN  addEdgeLocked(addNodeLocked(addNodeLocked(g, s, s.entity).g, t, t.entity).g, s, t, e.rel).g

startGraph(cycleDetection) ==
    FoldSet(LAMBDA e, g : loadEdge(g, e), newFlatGraph(Tenants, cycleDetection, 0), startDB.edges)

Init ==
    /\ config \in Configs
    /\ db = startDB
    /\ graph = startGraph(config.cycleDetection)
    /\ cache = << >>
    /\ \E menu \in Menus : handler = [i \in DOMAIN menu |->
            [pc |-> "arrive", req |-> menu[i], todo |-> << >>, doc |-> << >>, old |-> {},
             new |-> {}, keys |-> {}, got |-> << >>, outrun |-> FALSE]]
    /\ deleted = {} /\ used = DOMAIN Start /\ seen = {} /\ overtaken = FALSE /\ late = {}

-----------------------------------------------------------------------------
At(i, pc) == handler[i].pc = pc
Req(i) == handler[i].req
Is(i, ops) == Req(i).op \in ops
cacheKey(i) == IF Is(i, {"list"}) THEN listKey(Req(i).key[1], Req(i).key[2]) ELSE rowKey(Req(i).key)

Go(i, h) == handler' = [handler EXCEPT ![i] = h]
Done(i) == Go(i, [handler[i] EXCEPT !.pc = "done"])

history == <<deleted, used, seen, overtaken, late>>

\* id is 0 for a document that has no number yet.
validateGraphEdges(g, k, data) ==
    IF DuplicateTarget(data) THEN "ErrDuplicateEdgeTarget"
    ELSE IF \E e \in edgesOf(k, data) : CheckEdge(g, node(k), e[1], e[2]) = "ErrCycleDetected"
         THEN "ErrCycleDetected" ELSE ""

Unnumbered(r) == <<r.key[1], r.key[2], 0>>

Refused(r) ==
    CASE r.op = "create" -> validateGraphEdges(graph, Unnumbered(r), r.data) # ""
      [] r.op \in {"update", "save"} -> validateGraphEdges(graph, r.key, r.data) # ""
      [] r.op = "delete" -> ~Exists(db, Adapted, r.key)
      [] r.op = "commit" -> /\ config.StrictCommit
                            /\ \/ validateGraphEdges(graph, r.key, r.data) # ""
                               \/ validateGraphEdges(graph, <<r.key[1], r.append, 0>>, r.extra) # ""
      [] OTHER -> FALSE

\* What a request looks at before it goes to the store.
Check(i) ==
    /\ At(i, "arrive") /\ ~Is(i, {"get", "list"})
    /\ IF Refused(Req(i)) THEN Done(i) ELSE Go(i, [handler[i] EXCEPT !.pc = "store"])
    /\ UNCHANGED <<config, db, graph, cache, history>>

Named(d, K) == UNION {{e[1] : e \in edgesOf(k, Get(d, Adapted, k).data)}
                        : k \in {x \in K : Exists(d, Adapted, x)}}

\* The store write of i makes db into d and changes the rows K, while j is
\* between its own store write and the end of its graph update.
Overtakes(i, j, d, K) ==
    /\ handler[j].pc \in {"reget", "node", "look", "cut", "link", "unlink", "clear", "scan", "load"}
    /\ \/ Is(i, {"rebuild"}) \/ Is(j, {"rebuild"})
       \/ handler[j].keys \cap K # {}
       \/ Is(i, {"delete"}) /\ node(Req(i).key) \in
              Named(db, handler[j].keys) \cup {e[1] : e \in handler[j].new}
       \/ Is(j, {"delete"}) /\ node(Req(j).key) \in Named(d, K)

\* A cascading delete that goes on without the row its check has found.
Outrun(i) == Is(i, {"delete"}) /\ ~Exists(db, Adapted, Req(i).key)

Stored(i, d, K, todo, doc) ==
    /\ db' = d
    /\ Go(i, [handler[i] EXCEPT !.todo = todo, !.doc = doc, !.keys = K,
                 !.pc = CASE Is(i, {"patch", "commit"}) -> "reget"
                          [] Is(i, {"delete"}) -> "unlink"
                          [] Is(i, {"rebuild"}) -> "clear"
                          [] OTHER -> "node"])
    /\ overtaken' = (overtaken \/ Outrun(i) \/ \E j \in DOMAIN handler \ {i} : Overtakes(i, j, d, K))
    /\ used' = used \cup K
    /\ UNCHANGED <<config, graph, cache, seen, late>>

\* A refused write answers with its error and has changed nothing.
Settle(i, w, K, todo, doc) ==
    IF w.err # "" THEN Done(i) /\ UNCHANGED <<config, db, graph, cache, history>>
    ELSE Stored(i, w.db, K, todo, doc) /\ UNCHANGED deleted

Create(i) ==
    LET r == Req(i)
        c == createInner(db, Adapted, r.key[1], r.key[2], r.data)
        k == <<r.key[1], r.key[2], c.id>>
    IN  At(i, "store") /\ Is(i, {"create"}) /\ Settle(i, c, {k}, <<k>>, r.data)

Update(i) ==
    LET r == Req(i) IN
    /\ At(i, "store") /\ Is(i, {"update"})
    /\ Settle(i, updateInner(db, Adapted, r.key, r.data, r.version), {r.key}, <<r.key>>, r.data)

Upsert(i) ==
    LET r == Req(i) IN
    /\ At(i, "store") /\ Is(i, {"save"})
    /\ Settle(i, saveInner(db, Adapted, r.key, r.data, r.version), {r.key}, <<r.key>>, r.data)

\* The merge is validated, its edges included, inside the transaction.
Patch(i) ==
    LET r == Req(i)
        nulls == {f \in DOMAIN r.data : r.data[f] = Null}
        drops == IF config.PatchNullBehavior = "delete" THEN nulls ELSE {}
        valid == Exists(db, Adapted, r.key) =>
                   validateGraphEdges(graph, r.key, merged(db, Adapted, r.key, r.data, drops)) = ""
    IN  /\ At(i, "store") /\ Is(i, {"patch"})
        /\ Settle(i, patchInner(db, Adapted, r.key, r.data, drops, r.version, valid),
                  {r.key}, <<r.key>>, r.data)

Commit(i) ==
    LET r == Req(i)
        c == commitInner(db, Adapted, r.key, r.data, r.version, r.append, r.id, r.extra)
        k == <<r.key[1], r.append, c.id>>
    IN  At(i, "store") /\ Is(i, {"commit"}) /\ Settle(i, c, {r.key, k}, <<r.key, k>>, r.data)

\* A cascade deletes the entity itself and no other, and goes on when the
\* store has lost the row since the check.
cascadeDelete(k) == [deleteInner(db, Adapted, k) EXCEPT !.err = ""]

Delete(i) ==
    LET r == Req(i)
        d == IF config.CascadingDelete THEN cascadeDelete(r.key) ELSE deleteInner(db, Adapted, r.key)
    IN  /\ At(i, "store") /\ Is(i, {"delete"})
        /\ IF d.err # "" THEN Done(i) /\ UNCHANGED <<config, db, graph, cache, history>>
           ELSE /\ Stored(i, d.db, {r.key}, << >>, << >>)
                /\ deleted' = deleted \cup {r.key}

RebuildStore(i) ==
    /\ At(i, "store") /\ Is(i, {"rebuild"})
    /\ Stored(i, RebuildGraph(db, Req(i).key[1]), {}, << >>, << >>)
    /\ UNCHANGED deleted

-----------------------------------------------------------------------------
(* updateGraph and removeGraph: one locked call of the graph per step *)

quiet == UNCHANGED <<config, db, cache, history>>

\* A patch and a commit read the row again; a row that is gone is skipped.
NextNode(i) == [handler[i] EXCEPT
    !.todo = Tail(@),
    !.pc = IF Len(handler[i].todo) = 1 THEN "invalidate"
           ELSE IF Is(i, {"patch", "commit"}) THEN "reget" ELSE "node"]

Reget(i) ==
    /\ At(i, "reget")
    /\ LET k == Head(handler[i].todo)
       IN  IF Exists(db, Adapted, k)
           THEN Go(i, [handler[i] EXCEPT !.doc = Get(db, Adapted, k).data, !.pc = "node"])
           ELSE Go(i, NextNode(i))
    /\ UNCHANGED graph /\ quiet

PutNode(i) ==
    LET k == Head(handler[i].todo)
        a == addNodeLocked(graph, node(k), k[2])
    IN  /\ At(i, "node")
        /\ graph' = a.g
        /\ IF a.err # "" \/ DuplicateTarget(handler[i].doc) THEN Go(i, NextNode(i))
           ELSE Go(i, [handler[i] EXCEPT !.pc = "look", !.new = edgesOf(k, handler[i].doc)])
        /\ quiet

\* Variant: the old references of the node are not removed.
LookAway(i) ==
    /\ At(i, "look")
    /\ Go(i, [handler[i] EXCEPT !.pc = "cut"])
    /\ UNCHANGED graph /\ quiet

Look(i) ==
    /\ At(i, "look")
    /\ Go(i, [handler[i] EXCEPT !.pc = "cut", !.old = Targets(graph, node(Head(handler[i].todo)))])
    /\ UNCHANGED graph /\ quiet

Cut(i) ==
    /\ At(i, "cut")
    /\ IF handler[i].old = {} THEN Go(i, [handler[i] EXCEPT !.pc = "link"]) /\ UNCHANGED graph
       ELSE \E t \in handler[i].old :
              /\ graph' = RemoveEdge(graph, node(Head(handler[i].todo)), t)
              /\ Go(i, [handler[i] EXCEPT !.old = @ \ {t}])
    /\ quiet

\* An edge the graph refuses is logged and left out.
Link(i) ==
    /\ At(i, "link")
    /\ IF handler[i].new = {} THEN Go(i, NextNode(i)) /\ UNCHANGED graph
       ELSE \E e \in handler[i].new :
              /\ graph' = addEdgeLocked(graph, node(Head(handler[i].todo)), e[1], e[2]).g
              /\ Go(i, [handler[i] EXCEPT !.new = @ \ {e}])
    /\ quiet

removeGraph(i) ==
    /\ At(i, "unlink")
    /\ graph' = RemoveNode(graph, node(Req(i).key))
    /\ Go(i, [handler[i] EXCEPT !.pc = "invalidate"])
    /\ quiet

\* reloadGraphFromStore: the graph of all tenants is emptied, then the edge
\* table is read and replayed edge by edge.
ClearGraph(i) ==
    /\ At(i, "clear")
    /\ graph' = Clear(graph)
    /\ Go(i, [handler[i] EXCEPT !.pc = "scan"])
    /\ quiet

Scan(i) ==
    /\ At(i, "scan")
    /\ Go(i, [handler[i] EXCEPT !.pc = "load", !.old = UNION {ScanGraphEdges(db, t) : t \in Tenants}])
    /\ UNCHANGED graph /\ quiet

LoadEdge(i) ==
    /\ At(i, "load")
    /\ IF handler[i].old = {} THEN Done(i) /\ UNCHANGED graph
       ELSE \E e \in handler[i].old :
              /\ graph' = loadEdge(graph, e)
              /\ Go(i, [handler[i] EXCEPT !.old = @ \ {e}])
    /\ quiet

-----------------------------------------------------------------------------
(* The cache *)

\* Variant: only the rows are dropped.
InvalidatedRows(i) == {rowKey(k) : k \in handler[i].keys}

\* handleUpdate drops every entry of the entity, the others the row and the
\* lists.
Invalidated(i) ==
    LET lists == {listKey(k[1], k[2]) : k \in handler[i].keys}
    IN  IF Is(i, {"update"})
        THEN lists \cup {c \in DOMAIN cache \cup {rowKey(k) : k \in used} :
                            c[1] = "row" /\ \E k \in handler[i].keys : c[2][2] = k[2] /\ c[2][1] = k[1]}
        ELSE lists \cup {rowKey(k) : k \in handler[i].keys}

\* A reader that has already read what is being invalidated is outrun.
Invalidate(i) ==
    /\ At(i, "invalidate")
    /\ cache' = without(cache, Invalidated(i))
    /\ late' = late \ Invalidated(i)
    /\ handler' = [j \in DOMAIN handler |->
            IF j = i THEN [handler[i] EXCEPT !.pc = "done"]
            ELSE [handler[j] EXCEPT !.outrun = @ \/
                     (handler[j].pc \in {"page", "fill"} /\ cacheKey(j) \in Invalidated(i))]]
    /\ UNCHANGED <<config, db, graph, deleted, used, seen, overtaken>>

\* A read answered by the cache.
Hit(i) ==
    /\ At(i, "arrive") /\ Is(i, {"get", "list"})
    /\ cacheKey(i) \in DOMAIN cache
    /\ Done(i)
    /\ seen' = seen \cup (IF Is(i, {"list"}) THEN {} ELSE
                  LET r == cache[cacheKey(i)] IN {<<Req(i).key, r.version, r.data>>})
    /\ UNCHANGED <<config, db, graph, cache, deleted, used, overtaken, late>>

Miss(i) ==
    /\ At(i, "arrive") /\ Is(i, {"get", "list"})
    /\ cacheKey(i) \notin DOMAIN cache
    /\ Go(i, [handler[i] EXCEPT !.pc = "read"])
    /\ UNCHANGED <<config, db, graph, cache, history>>

Read(i) ==
    LET k == Req(i).key
    IN  /\ At(i, "read") /\ Is(i, {"get"})
        /\ IF ~Exists(db, Adapted, k) THEN Done(i) /\ UNCHANGED seen
           ELSE /\ Go(i, [handler[i] EXCEPT !.pc = "fill", !.got = Get(db, Adapted, k)])
                /\ seen' = seen \cup {<<k, Get(db, Adapted, k).version, Get(db, Adapted, k).data>>}
        /\ UNCHANGED <<config, db, graph, cache, deleted, used, overtaken, late>>

\* A list is a count and a page, two statements.  An empty count of a blob
\* entity is an answer (listWithPushDown); ListPaged asks for the page anyway.
Count(i) ==
    LET k == Req(i).key
        n == CountEntities(db, Adapted, k[1], k[2])
    IN  /\ At(i, "read") /\ Is(i, {"list"})
        /\ Go(i, [handler[i] EXCEPT
                !.pc = IF n = 0 /\ k[2] \notin Adapted THEN "fill" ELSE "page",
                !.got = [total |-> n, rows |-> {}]])
        /\ UNCHANGED <<config, db, graph, cache, history>>

Page(i) ==
    LET k == Req(i).key
    IN  /\ At(i, "page")
        /\ Go(i, [handler[i] EXCEPT !.pc = "fill",
                    !.got.rows = ListPaged(db, Adapted, k[1], k[2], Req(i).limit, 0)])
        /\ UNCHANGED <<config, db, graph, cache, history>>

Fill(i) ==
    /\ At(i, "fill")
    /\ cache' = with(cache, cacheKey(i), handler[i].got)
    /\ late' = IF handler[i].outrun THEN late \cup {cacheKey(i)} ELSE late \ {cacheKey(i)}
    /\ Done(i)
    /\ UNCHANGED <<config, db, graph, deleted, used, seen, overtaken>>

\* TTL and LRU.
Evict(c) ==
    /\ c \in DOMAIN cache
    /\ cache' = without(cache, {c})
    /\ late' = late \ {c}
    /\ UNCHANGED <<config, db, graph, handler, deleted, used, seen, overtaken>>

Next ==
    \/ \E i \in DOMAIN handler :
        \/ Check(i) \/ Create(i) \/ Update(i) \/ Upsert(i) \/ Patch(i) \/ Commit(i) \/ Delete(i) \/ RebuildStore(i)
        \/ Reget(i) \/ PutNode(i) \/ Look(i) \/ Cut(i) \/ Link(i) \/ removeGraph(i)
        \/ ClearGraph(i) \/ Scan(i) \/ LoadEdge(i)
        \/ Invalidate(i) \/ Hit(i) \/ Miss(i) \/ Read(i) \/ Count(i) \/ Page(i) \/ Fill(i)
    \/ \E c \in DOMAIN cache : Evict(c)

Spec == Init /\ [][Next]_vars

-----------------------------------------------------------------------------
Rows == DOMAIN db.entities \cup DOMAIN db.adapted
Row(k) == Get(db, Adapted, k)
Idle == \A i \in DOMAIN handler : At(i, "done")
Writing == \E i \in DOMAIN handler : ~Is(i, {"get", "list"}) /\ handler[i].pc \notin {"arrive", "done"}

GraphEdges == {[tenant |-> e[1].tenant, source |-> <<e[1].entity, e[1].id>>,
                target |-> <<e[2].entity, e[2].id>>, rel |-> graph.out[e]] : e \in DOMAIN graph.out}

(* Once the requests have settled, the in-memory graph has exactly the     *)
(* edges of the edge table, unless a write was stored between the store    *)
(* write and the graph update of another one that concerns the same nodes, *)
(* or took the row of a cascading delete that had already checked it:      *)
(* no other order of the separately locked calls of updateGraph,           *)
(* removeGraph, reloadGraphFromStore and the post-commit reads loses or    *)
(* invents an edge, the degree of a stored entity is the one the edge table*)
(* gives, in the graph or not, and every adapted row is found by a search. *)
GraphFollowsStore ==
    (~Writing /\ ~overtaken /\ config.cycleDetection # "error") =>
        /\ GraphEdges = db.edges
        /\ \A k \in Rows : LET l == [entity |-> k[2], id |-> k[3]] IN
             /\ handleTenantGraphNodeDegree(graph, db.edges, Rows, k[1], l)
                  = degreeFromStorage(db.edges, Rows, k[1], l)
             /\ k[2] \in Adapted =>
                  l \in handleTenantGraphNodeSearch(graph, adaptedEntityIDs(Rows, k[1], k[2]), k[1], k[2])

(* Whatever the requests do between each other's calls, the indexes and    *)
(* the counters of the shared graph, which no call recomputes, are those   *)
(* of a scan in every state: placeholders promoted, edges replaced, an     *)
(* edge from a node to itself removed with its node, a reload halfway      *)
(* through (addNodeLocked, addEdgeLocked, RemoveEdge, RemoveNode, Clear).  *)
CountersExact == Scanned(graph, Tenants)

(* What server.go says of validateGraphEdges: checked before the store     *)
(* write, "the SQLite edge table and the in-memory graph can never diverge *)
(* due to a cycle-detection rejection".                                    *)
NeverDiverge == (~Writing /\ ~overtaken) => GraphEdges = db.edges

(* Once no write is under way, a cached row or list is what the store      *)
(* would answer, unless it was put there by a reader that an invalidation  *)
(* overtook between its read and its cache.Set.                            *)
CacheFresh ==
    ~Writing => \A c \in DOMAIN cache \ late :
        IF c[1] = "row" THEN Exists(db, Adapted, c[2]) /\ cache[c] = Row(c[2])
        ELSE /\ cache[c].total = CountEntities(db, Adapted, c[2], c[3])
             /\ \A r \in cache[c].rows : r \in List(db, Adapted, c[2], c[3])

(* A version names one content of a document: a client that read version v *)
(* and finds v still stored when its conditional update, save, patch or    *)
(* commit arrives overwrites what it read, unless the document was deleted *)
(* and saved again in between.                                             *)
VersionsIdentify ==
    \A s \in seen : (s[1] \in Rows \ deleted /\ Row(s[1]).version = s[2]) => Row(s[1]).data = s[3]

(* The edge table holds nothing the documents do not say, and every REF of *)
(* a document to a node that was never deleted, except what a rebuild      *)
(* drops of adapted documents; and the sequences stay ahead of every id    *)
(* that was ever stored, so that Create neither fails nor gives an id to a *)
(* second document.                                                        *)
StoreConsistent ==
    LET refs(k) == ExtractEntityEdges(k, Row(k).data)
        rebuilt == \E i \in DOMAIN handler : Is(i, {"rebuild"}) /\ ~At(i, "arrive")
    IN  /\ db.edges \subseteq UNION {refs(k) : k \in Rows}
        /\ \A k \in Rows : \A x \in refs(k) :
             x \in db.edges \/ <<x.tenant, x.target[1], x.target[2]>> \in deleted
                            \/ (rebuilt /\ k[2] \in Adapted)
        /\ \A k \in used : nextID(db, k[1], k[2]) > k[3]
=============================================================================
