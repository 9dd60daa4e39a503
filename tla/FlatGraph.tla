----------------------------- MODULE FlatGraph -----------------------------
(***************************************************************************)
(* FlatGraph (xolu/pkg/graph/flat_graph.go): the in-memory graph derived   *)
(* from the REF fields of the stored entities, shared by all tenants.  A   *)
(* graph is a value here and every method an operator on it: the methods   *)
(* hold the graph's lock from start to end, so each is one step of whoever *)
(* calls it.  A node ID is [tenant, entity, id]; tenant 0 is the shared    *)
(* namespace, whose IDs carry no XXXX@ prefix.                             *)
(***************************************************************************)
EXTENDS Integers, FiniteSets, Sequences, SequencesExt

NodeTypeVode == "__vode__"

NodeID(tenant, entity, id) == [tenant |-> tenant, entity |-> entity, id |-> id]

NodeIDPrefix(node) == node.tenant

\* index and tenantNodes, the two secondary indexes, are kept as the code
\* keeps them; the counters are per tenant prefix.
newFlatGraph(tenants, mode, limit) ==
    [cycleDetection |-> mode,    \* "ignore", "warn" or "error"
     cycleCheckLimit |-> limit,  \* nodes wouldCreateCycle visits before it gives up
     typ |-> << >>, out |-> << >>, in |-> << >>, index |-> {}, tenantNodes |-> {},
     edgeCount |-> 0,
     nodeCounters |-> [t \in tenants |-> 0],
     edgeCounters |-> [t \in tenants |-> 0],
     vodeCounters |-> [t \in tenants |-> 0]]

Nodes(g) == DOMAIN g.typ

put(f, k, v) == [x \in DOMAIN f \cup {k} |-> IF x = k THEN v ELSE f[x]]
drop(f, S) == [x \in DOMAIN f \ S |-> f[x]]

result(g, err) == [g |-> g, err |-> err]

created(g, n) ==
    LET p == NodeIDPrefix(n)
    IN  [g EXCEPT !.typ = put(@, n, ""), !.nodeCounters[p] = @ + 1, !.tenantNodes = @ \cup {<<p, n>>}]

\* Variant: the node stays in the index of its old type.
retypedTwice(g, n, old, type) == [g EXCEPT !.typ = put(@, n, type), !.index = @ \cup {<<type, n>>}]

retyped(g, n, old, type) ==
    [g EXCEPT !.typ = put(@, n, type), !.index = (@ \ {<<old, n>>}) \cup {<<type, n>>}]

countVode(g, n, by) == [g EXCEPT !.vodeCounters[NodeIDPrefix(n)] = @ + by]

\* A node that is not there yet is created untyped; an established type is
\* never changed, except that a placeholder (vode) is promoted.
addNodeLocked(g, n, type) ==
    LET new == n \notin Nodes(g)
        old == IF new THEN "" ELSE g.typ[n]
        g1  == IF new THEN created(g, n) ELSE g
        typed == retyped(g1, n, old, type)
    IN  IF type \in {"", old} THEN result(g1, "")
        ELSE IF old = NodeTypeVode THEN result(countVode(typed, n, -1), "")
        ELSE IF old # "" THEN result(g1, IF type = NodeTypeVode THEN "" ELSE "ErrNodeTypeMismatch")
        ELSE result(IF type = NodeTypeVode THEN countVode(typed, n, 1) ELSE typed, "")

CrossTenant(from, to) ==
    /\ NodeIDPrefix(from) # 0 /\ NodeIDPrefix(to) # 0
    /\ NodeIDPrefix(from) # NodeIDPrefix(to)

Targets(g, n) == {e[2] : e \in {x \in DOMAIN g.out : x[1] = n}}
Sources(g, n) == {e[2] : e \in {x \in DOMAIN g.in : x[1] = n}}

\* Variant: only an edge from a node to itself is refused.
wouldCreateCycleDirect(g, from, to) == from = to

\* Breadth-first from to, one round of the loop per k, never entering another
\* non-zero tenant than that of from.  Distinct nodes are counted against the
\* budget (0 is no limit); running out of it counts as a cycle.
wouldCreateCycle(g, from, to) ==
    LET visit(s) ==
            LET cur == Head(s.queue)
                rest == [s EXCEPT !.queue = Tail(@)]
                next == {n \in Targets(g, cur) : ~CrossTenant(from, n)} \ s.visited
            IN  CASE cur = from -> [s EXCEPT !.found = TRUE]
                  [] cur # from /\ g.cycleCheckLimit > 0
                       /\ Cardinality(s.visited) >= g.cycleCheckLimit -> [s EXCEPT !.found = TRUE]
                  [] OTHER -> IF cur \in s.visited THEN rest
                              ELSE [rest EXCEPT !.visited = @ \cup {cur},
                                                !.queue = @ \o SetToSeq(next \ {cur})]
        S[k \in 0..(Cardinality(DOMAIN g.out) + 1)] ==
            IF k = 0 THEN [queue |-> <<to>>, visited |-> {}, found |-> FALSE]
            ELSE LET s == S[k - 1] IN IF s.found \/ s.queue = << >> THEN s ELSE visit(s)
    IN  from = to \/ S[Cardinality(DOMAIN g.out) + 1].found

CheckEdge(g, from, to, rel) ==
    CASE CrossTenant(from, to) -> "ErrCrossTenantEdge"
      [] ~CrossTenant(from, to) /\ <<from, to>> \in DOMAIN g.out ->
             IF g.out[<<from, to>>] = rel THEN "" ELSE "ErrEdgeAlreadyExists"
      [] OTHER -> IF g.cycleDetection = "error" /\ wouldCreateCycle(g, from, to)
                  THEN "ErrCycleDetected" ELSE ""

\* The edge in both maps and in the counters.
joined(g, from, to, rel) ==
    [g EXCEPT !.out = put(@, <<from, to>>, rel), !.in = put(@, <<to, from>>, rel),
              !.edgeCount = @ + 1, !.edgeCounters[NodeIDPrefix(from)] = @ + 1]

\* Both ends are created as placeholders before the edge is looked at, and
\* stay when it is refused.
addEdgeLocked(g, from, to, rel) ==
    LET g1 == addNodeLocked(addNodeLocked(g, from, NodeTypeVode).g, to, NodeTypeVode).g
    IN  CASE CrossTenant(from, to) -> result(g, "ErrCrossTenantEdge")
          [] ~CrossTenant(from, to) /\ <<from, to>> \in DOMAIN g.out ->
                 result(g1, IF g.out[<<from, to>>] = rel THEN "" ELSE "ErrEdgeAlreadyExists")
          [] OTHER ->
                 IF g.cycleDetection = "error" /\ wouldCreateCycle(g1, from, to)
                 THEN result(g1, "ErrCycleDetected")
                 ELSE result(joined(g1, from, to, rel), "")

RemoveEdge(g, from, to) ==
    IF <<from, to>> \notin DOMAIN g.out THEN g
    ELSE [g EXCEPT !.out = drop(@, {<<from, to>>}),
                   !.in  = drop(@, {<<to, from>>}),
                   !.edgeCount = @ - 1,
                   !.edgeCounters[NodeIDPrefix(from)] = @ - 1]

\* The outgoing edges go first, so an edge from the node to itself is counted
\* once: it has left the in-map when the incoming edges are removed.
RemoveNode(g, n) ==
    IF n \notin Nodes(g) THEN g
    ELSE LET p    == NodeIDPrefix(n)
             ins  == Sources(g, n) \ {n}
             gone(t) == Cardinality({s \in ins : NodeIDPrefix(s) = t})
                        + IF t = p THEN Cardinality(Targets(g, n)) ELSE 0
         IN  [g EXCEPT
                !.typ = drop(@, {n}),
                !.out = drop(@, {e \in DOMAIN g.out : n \in {e[1], e[2]}}),
                !.in  = drop(@, {e \in DOMAIN g.in : n \in {e[1], e[2]}}),
                !.index = @ \ {<<g.typ[n], n>>},
                !.tenantNodes = @ \ {<<p, n>>},
                !.edgeCount = @ - Cardinality(Targets(g, n)) - Cardinality(ins),
                !.edgeCounters = [t \in DOMAIN @ |-> @[t] - gone(t)],
                !.nodeCounters[p] = @ - 1,
                !.vodeCounters[p] = @ - IF g.typ[n] = NodeTypeVode THEN 1 ELSE 0]

Clear(g) == newFlatGraph(DOMAIN g.nodeCounters, g.cycleDetection, g.cycleCheckLimit)

-----------------------------------------------------------------------------
(* Changes that follow a whole document *)

removeAll(g, n, S) == FoldSet(LAMBDA t, h : RemoveEdge(h, n, t), g, S)

\* One new edge of a document; a label that differs from the stored one is
\* replaced by removing the edge and adding it again, and restored when that
\* is refused.
relabel(r, n, t, rel) ==
    LET a == addEdgeLocked(r.g, n, t, rel)
        cut == RemoveEdge(r.g, n, t)
        b == addEdgeLocked(cut, n, t, rel)
    IN  CASE r.err # "" -> r
          [] r.err = "" /\ a.err # "ErrEdgeAlreadyExists" -> a
          [] OTHER -> IF b.err = "" THEN b
                      ELSE result(addEdgeLocked(cut, n, t, r.g.out[<<n, t>>]).g, b.err)

\* newEdges maps the targets named by the REF fields to their relationships.
UpdateFromEntityForTenant(g, n, newEdges) ==
    LET typed == addNodeLocked(g, n, n.entity)
        gone  == Targets(g, n) \ DOMAIN newEdges
    IN  IF typed.err # "" THEN typed
        ELSE FoldSet(LAMBDA t, r : relabel(r, n, t, newEdges[t]),
                     result(removeAll(typed.g, n, gone), ""), DOMAIN newEdges)

-----------------------------------------------------------------------------
(* Queries *)

GetNeighbors(g, n)     == [t \in Targets(g, n) |-> g.out[<<n, t>>]]
GetIncomingEdges(g, n) == [s \in Sources(g, n) |-> g.in[<<n, s>>]]

Degree(g, n) == [in |-> Cardinality(Sources(g, n)), out |-> Cardinality(Targets(g, n))]

GetNodeInfo(g, n) ==
    [outgoing |-> GetNeighbors(g, n), incoming |-> GetIncomingEdges(g, n), degree |-> Degree(g, n)]

pathError(g, from, to) ==
    IF CrossTenant(from, to) THEN "ErrCrossTenantEdge"
    ELSE IF {from, to} \subseteq Nodes(g) THEN "" ELSE "not found"

\* Breadth-first with parent pointers, one dequeued node per k; the path is
\* read off the parents, << >> when there is none within maxDepth.
FindPath(g, from, to, maxDepth) ==
    LET visit(s) ==
            LET cur == Head(s.queue)
                new == Targets(g, cur) \ DOMAIN s.parent
            IN  IF s.depth[cur] >= maxDepth THEN [s EXCEPT !.queue = Tail(@)]
                ELSE [queue  |-> Tail(s.queue) \o SetToSeq(new),
                      parent |-> [x \in DOMAIN s.parent \cup new |->
                                    IF x \in new THEN cur ELSE s.parent[x]],
                      depth  |-> [x \in DOMAIN s.parent \cup new |->
                                    IF x \in new THEN s.depth[cur] + 1 ELSE s.depth[x]]]
        N == Cardinality(Nodes(g))
        S[k \in 0..N] ==
            IF k = 0 THEN [queue |-> <<from>>, parent |-> put(<< >>, from, from),
                           depth |-> put(<< >>, from, 0)]
            ELSE LET s == S[k - 1] IN
                 IF s.queue = << >> \/ Head(s.queue) = to THEN s ELSE visit(s)
        P == S[N].parent
        back[k \in 0..N] == IF k = 0 THEN <<to>>
                            ELSE LET b == back[k - 1] IN
                                 IF Head(b) = from THEN b ELSE <<P[Head(b)]>> \o b
    IN  IF pathError(g, from, to) # "" \/ to \notin DOMAIN P THEN << >> ELSE back[N]

\* The number of steps of the path, or -1: the target is looked for among the
\* neighbours of the dequeued node rather than at the head of the queue.
PathExists(g, from, to, maxDepth) ==
    LET visit(s) ==
            LET cur == Head(s.queue)
                new == Targets(g, cur.node) \ s.visited
                one(n) == [node |-> n, depth |-> cur.depth + 1]
                names == SetToSeq(new)
            IN  IF cur.depth >= maxDepth THEN [s EXCEPT !.queue = Tail(@)]
                ELSE IF to \in Targets(g, cur.node) THEN [s EXCEPT !.answer = cur.depth + 1]
                ELSE [s EXCEPT !.visited = @ \cup new,
                               !.queue = Tail(@) \o [i \in DOMAIN names |-> one(names[i])]]
        N == Cardinality(Nodes(g))
        S[k \in 0..N] ==
            IF k = 0 THEN [queue |-> <<[node |-> from, depth |-> 0]>>, visited |-> {from},
                           answer |-> IF from = to THEN 0 ELSE -1]
            ELSE LET s == S[k - 1] IN
                 IF s.queue = << >> \/ s.answer >= 0 THEN s ELSE visit(s)
    IN  IF pathError(g, from, to) # "" THEN -1 ELSE S[N].answer

SharedOutNeighbors(g, a, b) == Targets(g, a) \cap Targets(g, b)

GetNodesByType(g, type) == {n \in Nodes(g) : <<type, n>> \in g.index}

\* Depth-first with an explicit stack of the nodes on the current path and
\* three colours; S is the part of the graph that is looked at.
cycleWithin(g, S) ==
    LET E == {e \in DOMAIN g.out : {e[1], e[2]} \subseteq S}
        bound == 2 * Cardinality(S) + Cardinality(E) + 1
        push(s, n) == [s EXCEPT !.grey = @ \cup {n}, !.stack = <<n>> \o @]
        step(s) ==
            LET top  == Head(s.stack)
                todo == {e \in E : e[1] = top} \ s.seen
                e    == CHOOSE x \in todo : TRUE
                t    == [s EXCEPT !.seen = @ \cup {e}]
            IN  IF s.stack = << >> THEN
                    LET n == CHOOSE x \in S \ (s.grey \cup s.black) : TRUE IN push(s, n)
                ELSE IF todo = {} THEN [s EXCEPT !.grey = @ \ {top}, !.black = @ \cup {top},
                                                 !.stack = Tail(@)]
                ELSE IF e[2] \in s.grey THEN [t EXCEPT !.found = TRUE]
                ELSE IF e[2] \in s.black THEN t ELSE push(t, e[2])
        R[k \in 0..bound] ==
            IF k = 0 THEN [stack |-> << >>, grey |-> {}, black |-> {}, seen |-> {}, found |-> FALSE]
            ELSE LET s == R[k - 1] IN IF s.found \/ s.black = S THEN s ELSE step(s)
    IN  R[bound].found

HasCycle(g) == cycleWithin(g, Nodes(g))

\* The queries of one tenant refuse the empty prefix, here tenant 0.
GetAllNodesForTenant(g, t) == IF t = 0 THEN {} ELSE {n \in Nodes(g) : <<t, n>> \in g.tenantNodes}
HasCycleForTenant(g, t) == t # 0 /\ cycleWithin(g, GetAllNodesForTenant(g, t))
GetNodesByTypeForTenant(g, t, type) == GetAllNodesForTenant(g, t) \cap GetNodesByType(g, type)
atLeastZero(n) == IF n < 0 THEN 0 ELSE n
NodeCountForTenant(g, t) == IF t = 0 THEN 0 ELSE atLeastZero(g.nodeCounters[t])
EdgeCountForTenant(g, t) == IF t = 0 THEN 0 ELSE atLeastZero(g.edgeCounters[t])
VodeCountForTenant(g, t) == IF t = 0 THEN 0 ELSE atLeastZero(g.vodeCounters[t])

-----------------------------------------------------------------------------
\* What a scan of the nodes and edges would give for the mirror of incoming
\* edges, the two indexes and the counters of the tenants T.
Scanned(g, T) ==
    LET E == DOMAIN g.out IN
    /\ DOMAIN g.in = {<<e[2], e[1]>> : e \in E}
    /\ \A e \in E : g.in[<<e[2], e[1]>>] = g.out[e] /\ {e[1], e[2]} \subseteq Nodes(g)
    /\ g.index = {<<g.typ[n], n>> : n \in {m \in Nodes(g) : g.typ[m] # ""}}
    /\ g.tenantNodes = {<<n.tenant, n>> : n \in Nodes(g)}
    /\ g.edgeCount = Cardinality(E)
    /\ \A t \in T :
         LET mine == {n \in Nodes(g) : n.tenant = t} IN
         /\ g.nodeCounters[t] = Cardinality(mine)
         /\ g.edgeCounters[t] = Cardinality({e \in E : e[1].tenant = t})
         /\ g.vodeCounters[t] = Cardinality({n \in mine : g.typ[n] = NodeTypeVode})

-----------------------------------------------------------------------------
(* The file: the settings, the types and the outgoing edges *)

Save(g) == [typ |-> g.typ, out |-> g.out,
            cycleDetection |-> g.cycleDetection, cycleCheckLimit |-> g.cycleCheckLimit]

\* The nodes are replayed in the order of a Go map, here order; a node met as
\* a target first is a placeholder until its own entry is read.  Cycles are
\* not looked for.  A refused entry gives up the whole load.
Load(g, file, order) ==
    LET edge(r, e) ==
            LET a == addNodeLocked(addNodeLocked(r.g, e[1], NodeTypeVode).g, e[2], NodeTypeVode).g
            IN  IF CrossTenant(e[1], e[2]) THEN result(r.g, "skipped")
                ELSE result(joined(a, e[1], e[2], file.out[e]), r.err)
        node(r, n) ==
            LET a == addNodeLocked(r.g, n, file.typ[n])
            IN  IF a.err # "" THEN result(a.g, "skipped")
                ELSE FoldSet(LAMBDA e, x : edge(x, e), result(a.g, r.err),
                             {e \in DOMAIN file.out : e[1] = n})
        end == FoldLeft(node, result(newFlatGraph(DOMAIN g.nodeCounters, file.cycleDetection,
                                              file.cycleCheckLimit), ""), order)
    IN  IF end.err # "" THEN g ELSE end.g
=============================================================================
