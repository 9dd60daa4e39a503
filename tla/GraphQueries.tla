---------------------------- MODULE GraphQueries ----------------------------
(***************************************************************************)
(* The graph endpoints (xolu/pkg/server/handlers.go and                    *)
(* graph_tenant_handlers.go): what they answer on a FlatGraph.  The plain  *)
(* ones take internal node IDs and see the whole graph; the ones of a      *)
(* tenant put its prefix before the client's IDs, strip it from the answer *)
(* and leave out what still carries a prefix.  A client's ID is            *)
(* [entity, id]; the shared tenant 0 has no prefix to strip, so its nodes  *)
(* look like the tenant's own.                                             *)
(***************************************************************************)
EXTENDS FlatGraph

CONSTANT MaxQueryDepth

NotFound == [status |-> 404]

depthOf(d) == IF d <= 0 THEN MaxQueryDepth ELSE d

lengthOf(path) == IF path = << >> THEN 0 ELSE Len(path) - 1

edgeObjects(m) == {<<n, m[n]>> : n \in DOMAIN m}

handleGraphPath(g, from, to, d) ==
    LET p == FindPath(g, from, to, depthOf(d))
    IN  IF p = << >> THEN NotFound ELSE [status |-> 200, path |-> p, length |-> lengthOf(p)]

handleGraphShortestPath(g, from, to, d) ==
    LET p == FindPath(g, from, to, depthOf(d))
    IN  [status |-> 200, exists |-> p # << >>, path |-> p, length |-> lengthOf(p)]

handleGraphPathExists(g, from, to, d) ==
    IF pathError(g, from, to) # "" THEN NotFound
    ELSE LET k == PathExists(g, from, to, depthOf(d))
         IN  [status |-> 200, exists |-> k >= 0, length |-> k]

neighbors(out, in, direction) ==
    [outgoing |-> IF direction = "in" THEN {} ELSE edgeObjects(out),
     incoming |-> IF direction \in {"in", "both"} THEN edgeObjects(in) ELSE {}]

handleGraphNeighbors(g, n, direction) ==
    neighbors(GetNeighbors(g, n), GetIncomingEdges(g, n), direction)

handleGraphStats(g) ==
    [nodes |-> Cardinality(Nodes(g)), edges |-> g.edgeCount, hasCycle |-> HasCycle(g)]

handleGraphNodeInfo(g, n) ==
    IF n \notin Nodes(g) THEN NotFound ELSE [status |-> 200, id |-> n, info |-> GetNodeInfo(g, n)]

handleGraphIncoming(g, n) == edgeObjects(GetIncomingEdges(g, n))
handleGraphOutgoing(g, n) == edgeObjects(GetNeighbors(g, n))

handleGraphCommonNeighbors(g, a, b) ==
    IF {a, b} \subseteq Nodes(g) THEN [status |-> 200, common |-> SharedOutNeighbors(g, a, b)]
    ELSE NotFound

\* The adapted table of an entity, where there is one, answers a search.
handleGraphNodeSearch(g, adapted, entity) ==
    IF entity = "" THEN Nodes(g)
    ELSE IF adapted # {} THEN adapted ELSE GetNodesByType(g, entity)

\* The IDs of the tenant's rows of an adapted entity; {} when there is none.
adaptedEntityIDs(rows, t, entity) ==
    {NodeID(t, entity, k[3]) : k \in {x \in rows : x[1] = t /\ x[2] = entity}}

\* Counted in the edge table; without edges, the entity has to be stored.
degreeFromStorage(edges, rows, t, l) ==
    LET name == <<l.entity, l.id>>
        mine == {x \in edges : x.tenant = t}
        out  == Cardinality({x \in mine : x.source = name})
        in   == Cardinality({x \in mine : x.target = name})
    IN  IF out = 0 /\ in = 0 /\ <<t, l.entity, l.id>> \notin rows THEN NotFound
        ELSE [status |-> 200, in |-> in, out |-> out]

-----------------------------------------------------------------------------
(* The endpoints of a tenant *)

local(n) == [entity |-> n.entity, id |-> n.id]
addPrefix(t, l) == NodeID(t, l.entity, l.id)
stripPrefix(t, n) == IF n.tenant \in {0, t} THEN local(n) ELSE n
foreign(x) == "tenant" \in DOMAIN x

stripPrefixFromEdgeMap(t, m) ==
    [x \in {stripPrefix(t, n) : n \in DOMAIN m} |-> m[CHOOSE n \in DOMAIN m : stripPrefix(t, n) = x]]

stripPrefixFromSlice(t, s) == [i \in DOMAIN s |-> stripPrefix(t, s[i])]

guardSlice(t, s) == SelectSeq(s, LAMBDA x : ~foreign(x))
guardEdgeMap(t, m) == [x \in {y \in DOMAIN m : ~foreign(y)} |-> m[x]]

cleanMap(t, m) == guardEdgeMap(t, stripPrefixFromEdgeMap(t, m))
cleanSet(t, S) == {x \in {stripPrefix(t, n) : n \in S} : ~foreign(x)}

\* A foreign node is taken out of the middle of a path, and the length is that
\* of what remains.
tenantPathResult(t, path) ==
    LET p == guardSlice(t, stripPrefixFromSlice(t, path)) IN [path |-> p, length |-> lengthOf(p)]

handleTenantGraphStats(g, t) ==
    [nodes |-> NodeCountForTenant(g, t), edges |-> EdgeCountForTenant(g, t)]

handleTenantGraphNodeInfo(g, t, l) ==
    LET n == addPrefix(t, l)
        i == GetNodeInfo(g, n)
    IN  IF n \notin Nodes(g) THEN NotFound
        ELSE [status |-> 200, id |-> stripPrefix(t, n), degree |-> i.degree,
              outgoing |-> cleanMap(t, i.outgoing), incoming |-> cleanMap(t, i.incoming)]

\* Without the node in the graph the edge table is counted.
handleTenantGraphNodeDegree(g, edges, rows, t, l) ==
    LET n == addPrefix(t, l)
    IN  IF n \notin Nodes(g) THEN degreeFromStorage(edges, rows, t, l)
        ELSE [status |-> 200, in |-> Degree(g, n).in, out |-> Degree(g, n).out]

handleTenantGraphIncoming(g, t, l) == edgeObjects(cleanMap(t, GetIncomingEdges(g, addPrefix(t, l))))
handleTenantGraphOutgoing(g, t, l) == edgeObjects(cleanMap(t, GetNeighbors(g, addPrefix(t, l))))

handleTenantGraphPath(g, t, from, to, d) ==
    LET p == FindPath(g, addPrefix(t, from), addPrefix(t, to), depthOf(d))
    IN  IF p = << >> THEN NotFound ELSE tenantPathResult(t, p)

handleTenantGraphNeighbors(g, t, l, direction) ==
    neighbors(cleanMap(t, GetNeighbors(g, addPrefix(t, l))),
              cleanMap(t, GetIncomingEdges(g, addPrefix(t, l))), direction)

handleTenantGraphShortestPath(g, t, from, to, d) ==
    LET p == FindPath(g, addPrefix(t, from), addPrefix(t, to), depthOf(d))
    IN  [exists |-> p # << >>, result |-> tenantPathResult(t, p)]

handleTenantGraphPathExists(g, t, from, to, d) ==
    handleGraphPathExists(g, addPrefix(t, from), addPrefix(t, to), d)

handleTenantGraphCommonNeighbors(g, t, a, b) ==
    LET r == handleGraphCommonNeighbors(g, addPrefix(t, a), addPrefix(t, b))
    IN  IF r = NotFound THEN r ELSE [r EXCEPT !.common = cleanSet(t, @)]

handleTenantGraphNodeSearch(g, adapted, t, entity) ==
    cleanSet(t, IF entity = "" THEN GetAllNodesForTenant(g, t)
                ELSE IF adapted # {} THEN adapted ELSE GetNodesByTypeForTenant(g, t, entity))
=============================================================================
