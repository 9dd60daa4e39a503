---------------------------- MODULE GraphMachine ----------------------------
(***************************************************************************)
(* The life of one FlatGraph: any sequence of the calls of its writers.    *)
(* The graph is only ever right if its secondary indexes, its mirror of    *)
(* incoming edges and its counters, which no call recomputes, survive every*)
(* such sequence; and its traversals are compared with plain definitions   *)
(* of path and cycle on every graph that is reached.                       *)
(***************************************************************************)
EXTENDS GraphQueries

CONSTANTS
    NodeIDs,          \* the node IDs callers use
    Tenants,          \* their tenants
    Relationships,
    Modes,            \* the settings of cycleDetection
    Limit,            \* the budget of the cycle check
    MaxEdges          \* bound on the edges of the graph

VARIABLE graph

vars == <<graph>>

Init == \E mode \in Modes : graph = newFlatGraph(Tenants, mode, Limit)

Room == Cardinality(DOMAIN graph.out) < MaxEdges

AddNode(n) == graph' = addNodeLocked(graph, n, n.entity).g

DropNode(n) == graph' = RemoveNode(graph, n)

AddEdge(n, t, rel) ==
    /\ Room
    /\ graph' = addEdgeLocked(graph, n, t, rel).g

DropEdge(n, t) ==
    /\ <<n, t>> \in DOMAIN graph.out
    /\ graph' = RemoveEdge(graph, n, t)

\* A document names targets of its own tenant only.
Update(n, T, rel) ==
    /\ \A t \in T : t.tenant = n.tenant
    /\ Cardinality(DOMAIN graph.out) + Cardinality(T) <= MaxEdges
    /\ graph' = UpdateFromEntityForTenant(graph, n, [t \in T |-> rel]).g

Wipe == graph' = Clear(graph)

Next ==
    \/ \E n \in NodeIDs : AddNode(n) \/ DropNode(n)
    \/ \E n, t \in NodeIDs, rel \in Relationships : AddEdge(n, t, rel)
    \/ \E n, t \in NodeIDs : DropEdge(n, t)
    \/ \E n \in NodeIDs, T \in SUBSET NodeIDs, rel \in Relationships : Update(n, T, rel)
    \/ Wipe

Spec == Init /\ [][Next]_vars

-----------------------------------------------------------------------------
(* Reference definitions *)

Within(g, n, k) ==
    LET W[i \in 0..k] == IF i = 0 THEN {n}
                        ELSE LET w == W[i - 1] IN w \cup UNION {Targets(g, m) : m \in w}
    IN  W[k]

Depth == Cardinality(NodeIDs)

Distance(g, from, to) ==
    IF to \notin Within(g, from, Depth) THEN -1
    ELSE CHOOSE k \in 0..Depth : to \in Within(g, from, k) /\ \A j \in 0..(k - 1) : to \notin Within(g, from, j)

OnCycle(g, n) == \E t \in Targets(g, n) : n \in Within(g, t, Depth)

-----------------------------------------------------------------------------
(* Every counter and every index equals what a scan of the nodes and edges *)
(* would give, after any sequence of AddNode, AddEdge, RemoveEdge,         *)
(* RemoveNode, UpdateFromEntityForTenant and Clear: placeholders promoted, *)
(* self-edges removed with their node and relabelled edges included.       *)
CountersExact == Scanned(graph, Tenants)

(* In "error" mode no sequence of writes leaves a directed cycle among the *)
(* nodes of one tenant, and HasCycleForTenant says so.                     *)
TenantsAcyclic ==
    graph.cycleDetection = "error" => \A t \in Tenants : ~HasCycleForTenant(graph, t)

HasCycleExact == HasCycle(graph) <=> \E n \in Nodes(graph) : OnCycle(graph, n)

PathsShortest ==
    \A from, to \in Nodes(graph), d \in 0..Depth :
        LET p == FindPath(graph, from, to, d)
            k == Distance(graph, from, to)
        IN  ~CrossTenant(from, to) =>
            /\ PathExists(graph, from, to, d) = IF k \in 0..d THEN k ELSE -1
            /\ IF k \in 0..d
               THEN /\ Len(p) = k + 1 /\ p[1] = from /\ p[Len(p)] = to
                    /\ \A i \in 1..k : <<p[i], p[i + 1]>> \in DOMAIN graph.out
               ELSE p = << >>

EndpointsAgree ==
    \A n, t \in Nodes(graph) :
        LET p == handleGraphPath(graph, n, t, 0)
            s == handleGraphShortestPath(graph, n, t, 0)
            x == handleGraphPathExists(graph, n, t, 0)
        IN  /\ (p.status = 200) = s.exists
            /\ ~CrossTenant(n, t) => x.exists = s.exists /\ (x.exists => x.length = p.length)
            /\ <<t, "r">> \in handleGraphOutgoing(graph, n) <=> <<n, "r">> \in handleGraphIncoming(graph, t)
            /\ handleGraphNeighbors(graph, n, "both").outgoing = handleGraphOutgoing(graph, n)
            /\ handleGraphNodeInfo(graph, n).info.degree.out = Cardinality(handleGraphOutgoing(graph, n))
            /\ handleGraphCommonNeighbors(graph, n, t).common \subseteq handleGraphNodeSearch(graph, {}, "")

(* On every graph the writers can produce, the three-colour search of      *)
(* HasCycle finds a cycle exactly when some node is reachable from itself; *)
(* FindPath returns a path of least length, PathExists the same length,    *)
(* and both nothing when the distance exceeds the depth asked for; and the *)
(* plain endpoints agree with each other on what is connected.             *)
TraversalsExact == HasCycleExact /\ PathsShortest /\ EndpointsAgree

\* The part of the graph that belongs to a tenant, with its own counters.
OwnPart(g, t) ==
    LET N == {n \in Nodes(g) : n.tenant = t}
        E == {e \in DOMAIN g.out : {e[1], e[2]} \subseteq N}
    IN  [g EXCEPT !.typ = [n \in N |-> g.typ[n]], !.out = [e \in E |-> g.out[e]],
                  !.in = [e \in {<<x[2], x[1]>> : x \in E} |-> g.in[e]],
                  !.index = {x \in @ : x[2] \in N}, !.tenantNodes = {<<t, n>> : n \in N},
                  !.edgeCount = Cardinality(E),
                  !.nodeCounters[t] = Cardinality(N), !.edgeCounters[t] = Cardinality(E)]

Answers(g, t) ==
    LET L == {local(n) : n \in NodeIDs}
        P == L \X L
    IN  [stats  |-> handleTenantGraphStats(g, t),
         info   |-> [l \in L |-> handleTenantGraphNodeInfo(g, t, l)],
         degree |-> [l \in L |-> handleTenantGraphNodeDegree(g, {}, {}, t, l)],
         near   |-> [l \in L |-> handleTenantGraphNeighbors(g, t, l, "both")],
         in     |-> [l \in L |-> handleTenantGraphIncoming(g, t, l)],
         out    |-> [l \in L |-> handleTenantGraphOutgoing(g, t, l)],
         path   |-> [p \in P |-> handleTenantGraphPath(g, t, p[1], p[2], 0)],
         short  |-> [p \in P |-> handleTenantGraphShortestPath(g, t, p[1], p[2], 1)],
         exists |-> [p \in P |-> handleTenantGraphPathExists(g, t, p[1], p[2], 0)],
         common |-> [p \in P |-> handleTenantGraphCommonNeighbors(g, t, p[1], p[2])],
         search |-> [e \in {n.entity : n \in NodeIDs} \cup {""} |-> handleTenantGraphNodeSearch(g, {}, t, e)]]

(* As long as the edges stay within their tenants, as the REF fields of    *)
(* documents make them, every graph endpoint of a tenant answers exactly   *)
(* as it would if the graph held that tenant's nodes and nothing else: the *)
(* other tenants, the shared one included, cannot be told from its answers.*)
TenantIsolation ==
    (\A e \in DOMAIN graph.out : e[1].tenant = e[2].tenant) =>
        \A t \in Tenants \ {0} : Answers(graph, t) = Answers(OwnPart(graph, t), t)

ReloadIsIdentity ==
    \A order \in SetToSeqs(Nodes(graph)) : Load(graph, Save(graph), order) = graph

CheckAgreesWithAdd ==
    \A n, t \in NodeIDs, rel \in Relationships :
        CheckEdge(graph, n, t, rel) = addEdgeLocked(graph, n, t, rel).err

(* A graph written to the file and replayed in whatever order is the same  *)
(* graph with the same counters; and CheckEdge, asked before the store is  *)
(* written, gives the answer AddEdge would give on the same graph.         *)
PreviewsExact == ReloadIsIdentity /\ CheckAgreesWithAdd
=============================================================================
