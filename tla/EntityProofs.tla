---------------------------- MODULE EntityProofs ----------------------------
(***************************************************************************)
(* What the entity endpoints promise their clients for any set of requests *)
(* running together: a version names one content of a document, the cache  *)
(* answers what the store would once no write is under way, the edge table *)
(* and the sequences agree with the documents, the in-memory graph with    *)
(* the edge table once the requests have settled, and its counters and     *)
(* indexes with its nodes and edges always.                                *)
(*                                                                         *)
(* The store's methods are first reduced to their effect on the rows       *)
(* (Write), the calls of updateGraph and removeGraph to their effect on    *)
(* the goroutine that makes them (GraphCall).  Between the store write of  *)
(* a request and the end of its graph update the two may differ: the graph *)
(* invariant (Mended) says where, and which request is about to mend it.   *)
(***************************************************************************)
EXTENDS EntityHandlers, FiniteSetTheorems, WellFoundedInduction, TLAPS

Has(d, k) == Exists(d, Adapted, k)
RowOf(d, k) == Get(d, Adapted, k)

\* A database whose rows have versions.
WellFormed(d) ==
    /\ d = [entities |-> d.entities, adapted |-> d.adapted, sequences |-> d.sequences,
            edges |-> d.edges, fts |-> d.fts]
    /\ \A k : Has(d, k) => RowOf(d, k).version \in Nat

\* The same row, or none, under k in both.
SameRow(d, e, k) == (Has(d, k) <=> Has(e, k)) /\ (Has(d, k) => RowOf(e, k) = RowOf(d, k))

\* From d to e only the rows of K change, and only to a higher version.
Write(d, e, K) ==
    /\ WellFormed(e)
    /\ \A k : k \notin K => SameRow(d, e, k)
    /\ \A k : Has(d, k) => /\ Has(e, k)
                           /\ RowOf(e, k) = RowOf(d, k) \/ RowOf(e, k).version > RowOf(d, k).version

\* A method that has done its work.
Succeeds(w) == w.err = ""

-----------------------------------------------------------------------------
(* The methods of the store.                                               *)

\* Two databases with the same tables have the same rows.
LEMMA SameTables ==
    ASSUME NEW d, NEW e, WellFormed(d), e.entities = d.entities, e.adapted = d.adapted,
           e = [entities |-> e.entities, adapted |-> e.adapted, sequences |-> e.sequences,
                edges |-> e.edges, fts |-> e.fts]
    PROVE  WellFormed(e) /\ \A k : SameRow(d, e, k)
  BY DEF WellFormed, SameRow, Has, RowOf, Exists, Get, rowsOf

\* Storing a row and indexing it.
LEMMA PutRow ==
    ASSUME NEW d, NEW k, NEW data, NEW v \in Nat, WellFormed(d),
           NEW e, e = indexed(putRow(d, Adapted, k, data, v), k, data)
    PROVE  /\ WellFormed(e)
           /\ \A x : x # k => SameRow(d, e, x)
           /\ Has(e, k) /\ RowOf(e, k).version = v
  <1> DEFINE p == putRow(d, Adapted, k, data, v)
             row == IF k[2] \in Adapted THEN [data |-> columns(data), version |-> v]
                    ELSE [data |-> data, version |-> v]
  <1>1. /\ p = [entities |-> p.entities, adapted |-> p.adapted, sequences |-> p.sequences,
                edges |-> p.edges, fts |-> p.fts]
        /\ p.adapted = IF k[2] \in Adapted THEN with(d.adapted, k, row) ELSE d.adapted
        /\ p.entities = IF k[2] \in Adapted THEN d.entities ELSE with(d.entities, k, row)
    BY DEF putRow, WellFormed
  <1> HIDE DEF p
  <1>2. /\ e = [entities |-> e.entities, adapted |-> e.adapted, sequences |-> e.sequences,
                edges |-> e.edges, fts |-> e.fts]
        /\ e.entities = p.entities /\ e.adapted = p.adapted
    BY <1>1 DEF p, indexed, syncGraphEdges, indexForFTS
  <1>3. row.version = v
    OBVIOUS
  <1> HIDE DEF row
  <1>4. Has(e, k) /\ RowOf(e, k) = row
    BY <1>1, <1>2 DEF Has, RowOf, Exists, Get, rowsOf, with
  <1>5. ASSUME NEW x, x # k PROVE SameRow(d, e, x)
    BY <1>1, <1>2, <1>5 DEF SameRow, Has, RowOf, Exists, Get, rowsOf, with
  <1>6. ASSUME NEW x, Has(e, x) PROVE RowOf(e, x).version \in Nat
    BY <1>3, <1>4, <1>5, <1>6 DEF SameRow, WellFormed
  <1> QED
    BY <1>2, <1>3, <1>4, <1>5, <1>6 DEF WellFormed

\* The sequences are no rows.
LEMMA Sequences ==
    ASSUME NEW d, WellFormed(d), NEW k, NEW t, NEW c
    PROVE  /\ WellFormed(bumpSequence(d, k)) /\ \A x : SameRow(d, bumpSequence(d, k), x)
           /\ WellFormed(takeID(d, t, c)) /\ \A x : SameRow(d, takeID(d, t, c), x)
  <1> DEFINE b == bumpSequence(d, k)
             n == takeID(d, t, c)
  <1>1. /\ b = [entities |-> b.entities, adapted |-> b.adapted, sequences |-> b.sequences,
                edges |-> b.edges, fts |-> b.fts]
        /\ b.entities = d.entities /\ b.adapted = d.adapted
    BY DEF bumpSequence, WellFormed
  <1>2. /\ n = [entities |-> n.entities, adapted |-> n.adapted, sequences |-> n.sequences,
                edges |-> n.edges, fts |-> n.fts]
        /\ n.entities = d.entities /\ n.adapted = d.adapted
    BY DEF takeID, WellFormed
  <1> HIDE DEF b, n
  <1>3. WellFormed(b) /\ \A x : SameRow(d, b, x)
    BY <1>1, SameTables
  <1>4. WellFormed(n) /\ \A x : SameRow(d, n, x)
    BY <1>2, SameTables
  <1> QED
    BY <1>3, <1>4 DEF b, n

\* Inserting a row under a key that has none.
LEMMA InsertRow ==
    ASSUME NEW d, WellFormed(d), NEW k, ~Has(d, k), NEW data,
           NEW b, WellFormed(b), \A x : SameRow(d, b, x),
           NEW e, e = indexed(putRow(b, Adapted, k, data, 1), k, data)
    PROVE  Write(d, e, {k})
  <1>1. /\ WellFormed(e) /\ \A x : x # k => SameRow(b, e, x)
    BY PutRow
  <1>2. \A x : x # k => SameRow(d, e, x)
    BY <1>1 DEF SameRow
  <1> QED
    BY <1>1, <1>2 DEF Write, SameRow

\* A successful Create stores its document under a new key.
LEMMA CreateWrites ==
    ASSUME NEW d, WellFormed(d), NEW t, NEW c, NEW data,
           NEW w, w = createInner(d, Adapted, t, c, data), Succeeds(w)
    PROVE  Write(d, w.db, {<<t, c, w.id>>})
  <1> DEFINE k == <<t, c, nextID(d, t, c)>>
             n == takeID(d, t, c)
             e == indexed(putRow(n, Adapted, k, data, 1), k, data)
  <1>1. ~Has(n, k) /\ w.db = e /\ w.id = k[3]
    BY DEF createInner, reply, Has, Succeeds
  <1>2. w.db = e /\ <<t, c, w.id>> = k
    <2>1. k[3] = nextID(d, t, c)
      OBVIOUS
    <2> QED
      BY <1>1, <2>1
  <1>3. WellFormed(n) /\ \A x : SameRow(d, n, x)
    BY Sequences
  <1>4. ~Has(d, k)
    BY <1>1, <1>3 DEF SameRow
  <1> HIDE DEF k, n, e
  <1>5. Write(d, e, {k})
    BY <1>3, <1>4, InsertRow DEF e
  <1> QED
    BY <1>2, <1>5

\* A successful Update stores the next version.
LEMMA UpdateWrites ==
    ASSUME NEW d, WellFormed(d), NEW k, NEW data, NEW v,
           NEW w, w = updateInner(d, Adapted, k, data, v), Succeeds(w)
    PROVE  Write(d, w.db, {k}) /\ Has(d, k)
  <1> DEFINE u == RowOf(d, k).version
             e == indexed(putRow(d, Adapted, k, data, u + 1), k, data)
  <1>1. Has(d, k)
    BY DEF updateInner, reply, Has, Succeeds
  <1>2. w.db = e
    BY <1>1 DEF updateInner, reply, Has, RowOf, Succeeds
  <1>3. u \in Nat
    BY <1>1 DEF WellFormed
  <1> HIDE DEF u
  <1>4. u + 1 \in Nat /\ u + 1 > u
    BY <1>3
  <1>5. /\ WellFormed(e) /\ \A x : x # k => SameRow(d, e, x)
        /\ Has(e, k) /\ RowOf(e, k).version = u + 1
    <2> HIDE DEF e
    <2> QED
      BY <1>4, PutRow DEF e
  <1> HIDE DEF e
  <1>6. Write(d, e, {k})
    BY <1>4, <1>5 DEF Write, SameRow, u
  <1> QED
    BY <1>1, <1>2, <1>6

\* A successful Patch is an Update with the merge.
LEMMA PatchWrites ==
    ASSUME NEW d, WellFormed(d), NEW k, NEW data, NEW gone, NEW v, NEW valid \in BOOLEAN,
           NEW w, w = patchInner(d, Adapted, k, data, gone, v, valid), Succeeds(w)
    PROVE  Write(d, w.db, {k})
  <1>1. w = updateInner(d, Adapted, k, merged(d, Adapted, k, data, gone), v)
    BY DEF patchInner, reply, Succeeds
  <1> QED
    BY <1>1, UpdateWrites

\* A successful Save inserts or updates.
LEMMA SaveWrites ==
    ASSUME NEW d, WellFormed(d), NEW k, NEW data, NEW v,
           NEW w, w = saveInner(d, Adapted, k, data, v), Succeeds(w)
    PROVE  Write(d, w.db, {k})
  <1>1. CASE Has(d, k)
    <2> DEFINE u == updateInner(d, Adapted, k, data, v)
    <2>1. Succeeds(u) /\ w.db = [u.db EXCEPT !.fts = d.fts]
      BY <1>1 DEF saveInner, reply, Has, Succeeds
    <2> HIDE DEF u
    <2>2. Write(d, u.db, {k})
      BY <2>1, UpdateWrites DEF u
    <2> DEFINE e == w.db
    <2>3. /\ e.entities = u.db.entities /\ e.adapted = u.db.adapted
          /\ e = [entities |-> e.entities, adapted |-> e.adapted, sequences |-> e.sequences,
                  edges |-> e.edges, fts |-> e.fts]
      BY <2>1, <2>2 DEF Write, WellFormed
    <2>4. WellFormed(e) /\ \A x : SameRow(u.db, e, x)
      <3> HIDE DEF e
      <3> QED
        BY <2>2, <2>3, SameTables DEF Write
    <2> QED
      BY <2>2, <2>4 DEF Write, SameRow
  <1>2. CASE ~Has(d, k)
    <2>1. w.db = indexed(putRow(bumpSequence(d, k), Adapted, k, data, 1), k, data)
      BY <1>2 DEF saveInner, reply, Has, Succeeds
    <2> QED
      BY <1>2, <2>1, Sequences, InsertRow
  <1> QED
    BY <1>1, <1>2

\* A successful Commit saves one document and appends another.
LEMMA CommitWrites ==
    ASSUME NEW d, WellFormed(d), NEW k, NEW data, NEW v, NEW c, NEW id, NEW appended,
           NEW w, w = commitInner(d, Adapted, k, data, v, c, id, appended), Succeeds(w)
    PROVE  Write(d, w.db, {k, <<k[1], c, w.id>>})
  <1> DEFINE s == saveInner(d, Adapted, k, data, v)
             a == createInTx(s.db, Adapted, k[1], c, id, appended)
             x == <<k[1], c, id>>
  <1>1. Succeeds(s) /\ w = a
    BY DEF commitInner, reply, Succeeds
  <1> HIDE DEF s
  <1>2. Write(d, s.db, {k})
    BY <1>1, SaveWrites DEF s
  <1>3. WellFormed(s.db)
    BY <1>2 DEF Write
  <1>4. Write(s.db, a.db, {<<k[1], c, a.id>>})
    <2>1. CASE id = 0
      <3>1. a = createInner(s.db, Adapted, k[1], c, appended)
        BY <2>1 DEF createInTx
      <3> QED
        BY <1>1, <1>3, <3>1, CreateWrites
    <2>2. CASE id # 0
      <3>1. /\ ~Has(s.db, x) /\ a.id = id
            /\ a.db = indexed(putRow(bumpSequence(s.db, x), Adapted, x, appended, 1), x, appended)
        <4> DEFINE b == indexed(putRow(bumpSequence(s.db, x), Adapted, x, appended, 1), x, appended)
        <4>1. a = IF Has(s.db, x) THEN reply(s.db, "ErrAlreadyExists", 0)
                  ELSE IF DuplicateTarget(appended) THEN reply(s.db, "ErrDuplicateEdgeTarget", 0)
                  ELSE reply(b, "", id)
          BY <2>2 DEF createInTx, Has
        <4> HIDE DEF b, x
        <4>2. ~Has(s.db, x) /\ a.id = id /\ a.db = b
          <5> HIDE DEF a
          <5>1. Succeeds(a)
            BY <1>1
          <5> QED
            BY <4>1, <5>1 DEF reply, Succeeds
        <4> QED
          BY <4>2 DEF b
      <3> HIDE DEF a, x
      <3>2. Write(s.db, a.db, {x})
        BY <1>3, <3>1, Sequences, InsertRow
      <3> QED
        BY <3>1, <3>2 DEF x
    <2> QED
      BY <2>1, <2>2
  <1> HIDE DEF a
  <1>5. \A y : y \notin {k, <<k[1], c, a.id>>} => SameRow(d, a.db, y)
    BY <1>2, <1>4 DEF Write, SameRow
  <1>6. ASSUME NEW y, Has(d, y)
        PROVE  /\ Has(a.db, y)
               /\ RowOf(a.db, y) = RowOf(d, y) \/ RowOf(a.db, y).version > RowOf(d, y).version
    <2>1. /\ Has(s.db, y)
          /\ RowOf(s.db, y) = RowOf(d, y) \/ RowOf(s.db, y).version > RowOf(d, y).version
      BY <1>2, <1>6 DEF Write
    <2>2. /\ Has(a.db, y)
          /\ RowOf(a.db, y) = RowOf(s.db, y) \/ RowOf(a.db, y).version > RowOf(s.db, y).version
      BY <1>4, <2>1 DEF Write
    <2> DEFINE n(z) == RowOf(z, y).version
    <2>3. n(d) \in Nat /\ n(s.db) \in Nat /\ n(a.db) \in Nat
      BY <1>2, <1>4, <1>6, <2>1, <2>2 DEF Write, WellFormed
    <2>4. RowOf(a.db, y) = RowOf(s.db, y) => n(a.db) = n(s.db)
      OBVIOUS
    <2>5. RowOf(s.db, y) = RowOf(d, y) => n(s.db) = n(d)
      OBVIOUS
    <2>6. /\ RowOf(s.db, y) = RowOf(d, y) \/ n(s.db) > n(d)
          /\ RowOf(a.db, y) = RowOf(s.db, y) \/ n(a.db) > n(s.db)
      BY <2>1, <2>2
    <2>7. RowOf(a.db, y) = RowOf(d, y) \/ n(a.db) > n(d)
      <3> HIDE DEF n
      <3>1. CASE RowOf(a.db, y) = RowOf(s.db, y)
        BY <2>4, <2>6, <3>1
      <3>2. CASE n(a.db) > n(s.db)
        BY <2>3, <2>5, <2>6, <3>2
      <3> QED
        BY <2>6, <3>1, <3>2
    <2> QED
      BY <2>2, <2>7
  <1> QED
    BY <1>1, <1>4, <1>5, <1>6 DEF Write

\* A Delete removes one row, if it is there.
LEMMA DeleteRemoves ==
    ASSUME NEW d, WellFormed(d), NEW k
    PROVE  /\ WellFormed(deleteInner(d, Adapted, k).db)
           /\ \A x : x # k => SameRow(d, deleteInner(d, Adapted, k).db, x)
  <1> DEFINE e == deleteInner(d, Adapted, k).db
  <1>1. CASE ~Has(d, k)
    <2>1. e = d
      BY <1>1 DEF deleteInner, reply, Has, Succeeds
    <2> QED
      BY <2>1 DEF SameRow
  <1>2. CASE Has(d, k)
    <2>1. /\ e = [entities |-> e.entities, adapted |-> e.adapted, sequences |-> e.sequences,
                  edges |-> e.edges, fts |-> e.fts]
          /\ e.adapted = IF k[2] \in Adapted THEN without(d.adapted, {k}) ELSE d.adapted
          /\ e.entities = IF k[2] \in Adapted THEN d.entities ELSE without(d.entities, {k})
      BY <1>2 DEF deleteInner, reply, Has, WellFormed
    <2>2. ASSUME NEW x, x # k PROVE SameRow(d, e, x)
      BY <2>1, <2>2 DEF SameRow, Has, RowOf, Exists, Get, rowsOf, without
    <2>3. ~Has(e, k)
      BY <2>1 DEF Has, Exists, rowsOf, without
    <2> QED
      BY <2>1, <2>2, <2>3 DEF WellFormed, SameRow
  <1> QED
    BY <1>1, <1>2

-----------------------------------------------------------------------------
(* The goroutines.                                                         *)

\* Between its store write and the end of its invalidation a request owes the
\* cache its keys; a rebuild owes it nothing.
UpdatePcs == {"reget", "node", "look", "cut", "link", "unlink", "invalidate"}
RebuildPcs == {"clear", "scan", "load"}

Shape(h) == h = [pc |-> h.pc, req |-> h.req, todo |-> h.todo, doc |-> h.doc, old |-> h.old,
                 new |-> h.new, keys |-> h.keys, got |-> h.got, outrun |-> h.outrun]

\* Writers and readers keep to their own steps.
Goroutines ==
    \A i \in DOMAIN handler :
        /\ Shape(handler[i])
        /\ handler[i].pc \in {"store"} \cup UpdatePcs \cup RebuildPcs => ~Is(i, {"get", "list"})
        /\ handler[i].pc \in {"read", "fill"} => Is(i, {"get", "list"})
        /\ handler[i].pc = "page" => Is(i, {"list"})

\* Only the goroutine of i moves; its request stays.
Moves(i) ==
    /\ handler' = [handler EXCEPT ![i] = handler'[i]]
    /\ Shape(handler'[i])
    /\ handler'[i].req = handler[i].req

\* A locked call of the graph, or the look at the store before it.
GraphCall(i) ==
    /\ Moves(i)
    /\ handler'[i].keys = handler[i].keys
    /\ handler[i].pc \in UpdatePcs \cup RebuildPcs
    /\ handler[i].pc \in UpdatePcs => handler'[i].pc \in UpdatePcs
    /\ handler[i].pc \in RebuildPcs => handler'[i].pc \in RebuildPcs \cup {"done"}
    /\ UNCHANGED <<db, cache, deleted, used, seen, late>>

\* A request that ends without a trace.
GivesUp(i) ==
    /\ Moves(i) /\ handler[i].pc \in {"store", "read"} /\ handler'[i].pc = "done"
    /\ UNCHANGED <<db, cache, deleted, used, seen, late>>

\* A store write: the rows outside its keys stay, and a row that stays at all
\* keeps its content or gets a higher version.
Commits(i) ==
    /\ Moves(i) /\ At(i, "store")
    /\ \/ handler'[i].pc \in UpdatePcs
       \/ handler'[i].pc = "clear" /\ handler'[i].keys = {}
    /\ WellFormed(db')
    /\ \A k : k \notin handler'[i].keys => SameRow(db, db', k)
    /\ \A k : Has(db, k) =>
           \/ k \in deleted'
           \/ /\ Has(db', k)
              /\ \/ RowOf(db', k) = RowOf(db, k)
                 \/ RowOf(db', k).version > RowOf(db, k).version
    /\ deleted \subseteq deleted'
    /\ used' = used \cup handler'[i].keys
    /\ UNCHANGED <<cache, seen, late>>

LEMMA NextNodeShape ==
    ASSUME NEW i, Shape(handler[i])
    PROVE  /\ Shape(NextNode(i)) /\ NextNode(i).pc \in UpdatePcs
           /\ NextNode(i).req = handler[i].req /\ NextNode(i).keys = handler[i].keys
  <1> DEFINE p == IF Len(handler[i].todo) = 1 THEN "invalidate"
                  ELSE IF Is(i, {"patch", "commit"}) THEN "reget" ELSE "node"
  <1>1. p \in UpdatePcs
    BY DEF UpdatePcs
  <1>2. NextNode(i) = [handler[i] EXCEPT !.todo = Tail(@), !.pc = p]
    BY DEF NextNode
  <1> HIDE DEF p
  <1> QED
    BY <1>1, <1>2 DEF Shape

LEMMA GraphCalls ==
    ASSUME Goroutines, NEW i \in DOMAIN handler,
           \/ Reget(i) \/ PutNode(i) \/ Look(i) \/ Cut(i) \/ Link(i) \/ removeGraph(i)
           \/ ClearGraph(i) \/ Scan(i) \/ LoadEdge(i)
    PROVE  GraphCall(i)
  <1> USE DEF GraphCall, Moves, UpdatePcs, RebuildPcs, At, Go, quiet, history
  <1> DEFINE h == handler[i]
  <1>0. Shape(h)
    BY DEF Goroutines
  <1>10. /\ Shape(NextNode(i)) /\ NextNode(i).pc \in UpdatePcs
        /\ NextNode(i).req = handler[i].req /\ NextNode(i).keys = handler[i].keys
    BY <1>0, NextNodeShape, SMTT(30)
  <1>1. CASE Reget(i)
    <2>1. \E X : \/ handler' = [handler EXCEPT ![i] = NextNode(i)]
                \/ handler' = [handler EXCEPT ![i] = [handler[i] EXCEPT !.doc = X, !.pc = "node"]]
      BY <1>1 DEF Reget
    <2>2. h.pc = "reget" /\ UNCHANGED <<db, cache, deleted, used, seen, late>>
      BY <1>1 DEF Reget
    <2>3. CASE handler' = [handler EXCEPT ![i] = NextNode(i)]
      BY <1>10, <2>2, <2>3
    <2>4. ASSUME NEW X, handler' = [handler EXCEPT ![i] = [handler[i] EXCEPT !.doc = X, !.pc = "node"]]
          PROVE  GraphCall(i)
      BY <1>0, <2>2, <2>4 DEF Shape
    <2> QED
      BY <2>1, <2>3, <2>4
  <1>2. CASE PutNode(i)
    <2>1. \E X : \/ handler' = [handler EXCEPT ![i] = NextNode(i)]
                \/ handler' = [handler EXCEPT ![i] = [handler[i] EXCEPT !.pc = "look", !.new = X]]
      BY <1>2, Zenon DEF PutNode
    <2>2. h.pc = "node" /\ UNCHANGED <<db, cache, deleted, used, seen, late>>
      BY <1>2, Zenon DEF PutNode
    <2>3. CASE handler' = [handler EXCEPT ![i] = NextNode(i)]
      BY <1>10, <2>2, <2>3
    <2>4. ASSUME NEW X, handler' = [handler EXCEPT ![i] = [handler[i] EXCEPT !.pc = "look", !.new = X]]
          PROVE  GraphCall(i)
      BY <1>0, <2>2, <2>4 DEF Shape
    <2> QED
      BY <2>1, <2>3, <2>4
  <1>3. CASE Look(i)
    <2>1. \E X : handler' = [handler EXCEPT ![i] = [handler[i] EXCEPT !.pc = "cut", !.old = X]]
      BY <1>3 DEF Look
    <2>2. h.pc = "look" /\ UNCHANGED <<db, cache, deleted, used, seen, late>>
      BY <1>3 DEF Look
    <2> QED
      BY <1>0, <2>1, <2>2, ZenonT(60) DEF Shape
  <1>4. CASE Cut(i)
    BY <1>0, <1>4 DEF Cut, Shape
  <1>5. CASE Link(i)
    <2>1. \E X : \/ handler' = [handler EXCEPT ![i] = NextNode(i)]
                \/ handler' = [handler EXCEPT ![i] = [handler[i] EXCEPT !.new = X]]
      BY <1>5 DEF Link
    <2>2. h.pc = "link" /\ UNCHANGED <<db, cache, deleted, used, seen, late>>
      BY <1>5 DEF Link
    <2>3. CASE handler' = [handler EXCEPT ![i] = NextNode(i)]
      BY <1>10, <2>2, <2>3
    <2>4. ASSUME NEW X, handler' = [handler EXCEPT ![i] = [handler[i] EXCEPT !.new = X]]
          PROVE  GraphCall(i)
      BY <1>0, <2>2, <2>4 DEF Shape
    <2> QED
      BY <2>1, <2>3, <2>4
  <1>6. CASE removeGraph(i)
    BY <1>0, <1>6 DEF removeGraph, Shape
  <1>7. CASE ClearGraph(i)
    BY <1>0, <1>7 DEF ClearGraph, Shape
  <1>8. CASE Scan(i)
    BY <1>0, <1>8 DEF Scan, Shape
  <1>9. CASE LoadEdge(i)
    BY <1>0, <1>9 DEF LoadEdge, Done, Shape
  <1> QED
    BY <1>1, <1>2, <1>3, <1>4, <1>5, <1>6, <1>7, <1>8, <1>9

\* What Stored does to the goroutine.
LEMMA StoredMoves ==
    ASSUME Goroutines, NEW i \in DOMAIN handler, NEW d, NEW K, NEW todo, NEW doc,
           Stored(i, d, K, todo, doc)
    PROVE  /\ Moves(i) /\ db' = d /\ handler'[i].keys = K /\ used' = used \cup K
           /\ Is(i, {"rebuild"}) => handler'[i].pc = "clear"
           /\ ~Is(i, {"rebuild"}) => handler'[i].pc \in UpdatePcs
           /\ UNCHANGED <<cache, seen, late>>
  <1> DEFINE next == CASE Is(i, {"patch", "commit"}) -> "reget"
                       [] Is(i, {"delete"}) -> "unlink"
                       [] Is(i, {"rebuild"}) -> "clear"
                       [] OTHER -> "node"
  <1>1. PICK a, p, h :
            /\ a = handler[i] /\ p = next
            /\ h = [a EXCEPT !.todo = todo, !.doc = doc, !.keys = K, !.pc = p]
    OBVIOUS
  <1>2. /\ db' = d /\ used' = used \cup K /\ UNCHANGED <<cache, seen, late>>
        /\ handler' = [handler EXCEPT ![i] = h]
    BY <1>1 DEF Stored, Go
  <1>3. /\ Is(i, {"rebuild"}) => p = "clear"
        /\ ~Is(i, {"rebuild"}) => p \in UpdatePcs
    BY <1>1 DEF Is, UpdatePcs
  <1>4. Shape(a)
    BY <1>1 DEF Goroutines
  <1> HIDE DEF next
  <1>5. Shape(h) /\ h.keys = K /\ h.pc = p /\ h.req = a.req
    BY <1>1, <1>4 DEF Shape
  <1> QED
    BY <1>1, <1>2, <1>3, <1>5 DEF Moves

\* A finished goroutine has moved nothing else.
LEMMA DoneMoves ==
    ASSUME Goroutines, NEW i \in DOMAIN handler, Done(i)
    PROVE  Moves(i) /\ handler'[i].pc = "done"
  <1>1. Shape(handler[i])
    BY DEF Goroutines
  <1> QED
    BY <1>1 DEF Done, Go, Moves, Shape

\* A stored write that changes the keys it names.
LEMMA StoredCommits ==
    ASSUME Goroutines, NEW i \in DOMAIN handler, NEW d, NEW K, NEW todo, NEW doc,
           Stored(i, d, K, todo, doc), UNCHANGED deleted, At(i, "store"), ~Is(i, {"rebuild"}),
           Write(db, d, K)
    PROVE  Commits(i)
  BY StoredMoves DEF Commits, Write

LEMMA SettleCommits ==
    ASSUME Goroutines, NEW i \in DOMAIN handler, NEW w, NEW K, NEW todo, NEW doc,
           Settle(i, w, K, todo, doc), At(i, "store"), ~Is(i, {"rebuild"}),
           Succeeds(w) => Write(db, w.db, K)
    PROVE  GivesUp(i) \/ Commits(i)
  <1>1. CASE Succeeds(w)
    <2>1. Stored(i, w.db, K, todo, doc) /\ UNCHANGED deleted
      BY <1>1 DEF Settle, Succeeds
    <2> QED
      BY <1>1, <2>1, StoredCommits
  <1>2. CASE ~Succeeds(w)
    <2>1. Done(i) /\ UNCHANGED <<config, db, graph, cache, history>>
      BY <1>2 DEF Settle, Succeeds
    <2>2. Moves(i) /\ handler'[i].pc = "done"
      BY <2>1, DoneMoves
    <2> QED
      BY <2>1, <2>2 DEF GivesUp, history, At
  <1> QED
    BY <1>1, <1>2

\* The handlers of the writes: what was read and checked before the store is
\* called plays no part in what the store does.
LEMMA Writes ==
    ASSUME Goroutines, WellFormed(db), NEW i \in DOMAIN handler,
           \/ Create(i) \/ Update(i) \/ Upsert(i) \/ Patch(i) \/ Commit(i) \/ Delete(i)
           \/ RebuildStore(i)
    PROVE  GivesUp(i) \/ Commits(i)
  <1> DEFINE r == Req(i)
             key == r.key
  <1>1. CASE Create(i)
    <2> DEFINE c == createInner(db, Adapted, key[1], key[2], r.data)
               k == <<key[1], key[2], c.id>>
    <2>1. At(i, "store") /\ Is(i, {"create"}) /\ Settle(i, c, {k}, <<k>>, r.data)
      BY <1>1 DEF Create
    <2>2. Succeeds(c) => Write(db, c.db, {k})
      BY CreateWrites
    <2>3. ~Is(i, {"rebuild"})
      BY <2>1 DEF Is
    <2> HIDE DEF c, k
    <2> QED
      BY <2>1, <2>2, <2>3, SettleCommits
  <1>2. CASE Update(i)
    <2> DEFINE w == updateInner(db, Adapted, key, r.data, r.version)
    <2>1. At(i, "store") /\ Is(i, {"update"}) /\ Settle(i, w, {key}, <<key>>, r.data)
      BY <1>2 DEF Update
    <2>2. Succeeds(w) => Write(db, w.db, {key})
      BY UpdateWrites
    <2>3. ~Is(i, {"rebuild"})
      BY <2>1 DEF Is
    <2> HIDE DEF w
    <2> QED
      BY <2>1, <2>2, <2>3, SettleCommits
  <1>3. CASE Upsert(i)
    <2> DEFINE w == saveInner(db, Adapted, key, r.data, r.version)
    <2>1. At(i, "store") /\ Is(i, {"save"}) /\ Settle(i, w, {key}, <<key>>, r.data)
      BY <1>3 DEF Upsert
    <2>2. Succeeds(w) => Write(db, w.db, {key})
      BY SaveWrites
    <2>3. ~Is(i, {"rebuild"})
      BY <2>1 DEF Is
    <2> HIDE DEF w
    <2> QED
      BY <2>1, <2>2, <2>3, SettleCommits
  <1>4. CASE Patch(i)
    <2> DEFINE nulls == {f \in DOMAIN r.data : r.data[f] = Null}
               drops == IF config.PatchNullBehavior = "delete" THEN nulls ELSE {}
               valid == Exists(db, Adapted, key) =>
                            validateGraphEdges(graph, key, merged(db, Adapted, key, r.data, drops)) = ""
               w == patchInner(db, Adapted, key, r.data, drops, r.version, valid)
    <2>1. At(i, "store") /\ Is(i, {"patch"}) /\ Settle(i, w, {key}, <<key>>, r.data)
      BY <1>4, Zenon DEF Patch
    <2>2. valid \in BOOLEAN
      BY Zenon
    <2> HIDE DEF valid, drops
    <2>3. Succeeds(w) => Write(db, w.db, {key})
      BY <2>2, PatchWrites
    <2>4. ~Is(i, {"rebuild"})
      BY <2>1 DEF Is
    <2> HIDE DEF w
    <2> QED
      BY <2>1, <2>3, <2>4, SettleCommits
  <1>5. CASE Commit(i)
    <2> DEFINE c == commitInner(db, Adapted, key, r.data, r.version, r.append, r.id, r.extra)
               k == <<key[1], r.append, c.id>>
    <2>1. At(i, "store") /\ Is(i, {"commit"}) /\ Settle(i, c, {key, k}, <<key, k>>, r.data)
      BY <1>5 DEF Commit
    <2>2. Succeeds(c) => Write(db, c.db, {key, k})
      BY CommitWrites
    <2>3. ~Is(i, {"rebuild"})
      BY <2>1 DEF Is
    <2> HIDE DEF c, k
    <2> QED
      BY <2>1, <2>2, <2>3, SettleCommits
  <1>6. CASE Delete(i)
    <2> DEFINE e == deleteInner(db, Adapted, key).db
    <2>1. At(i, "store") /\ Is(i, {"delete"})
      BY <1>6, Zenon DEF Delete
    <2>2. \/ Done(i) /\ UNCHANGED <<config, db, graph, cache, history>>
          \/ Stored(i, e, {key}, << >>, << >>) /\ deleted' = deleted \cup {key}
      <3>1. cascadeDelete(key).db = e
        BY DEF cascadeDelete, deleteInner, reply
      <3> HIDE DEF e
      <3> QED
        BY <1>6, <3>1, Zenon DEF Delete, e
    <2>3. WellFormed(e) /\ \A k : k # key => SameRow(db, e, k)
      <3> HIDE DEF e, key
      <3> QED
        BY DeleteRemoves DEF e
    <2>4. ~Is(i, {"rebuild"})
      BY <2>1 DEF Is
    <2> HIDE DEF e
    <2>5. CASE Done(i) /\ UNCHANGED <<config, db, graph, cache, history>>
      BY <2>1, <2>5, DoneMoves DEF GivesUp, history, At
    <2>6. CASE Stored(i, e, {key}, << >>, << >>) /\ deleted' = deleted \cup {key}
      BY <2>1, <2>3, <2>4, <2>6, StoredMoves DEF Commits, SameRow
    <2> QED
      BY <2>2, <2>5, <2>6
  <1>7. CASE RebuildStore(i)
    <2> DEFINE d == RebuildGraph(db, key[1])
    <2>1. /\ At(i, "store") /\ Is(i, {"rebuild"}) /\ Stored(i, d, {}, << >>, << >>)
          /\ UNCHANGED deleted
      BY <1>7 DEF RebuildStore
    <2>2. /\ d.entities = db.entities /\ d.adapted = db.adapted
          /\ d = [entities |-> d.entities, adapted |-> d.adapted, sequences |-> d.sequences,
                  edges |-> d.edges, fts |-> d.fts]
      <3>1. db = [entities |-> db.entities, adapted |-> db.adapted, sequences |-> db.sequences,
                  edges |-> db.edges, fts |-> db.fts]
        BY DEF WellFormed
      <3>2. \E X : d = [db EXCEPT !.edges = X]
        BY Zenon DEF RebuildGraph
      <3> HIDE DEF d
      <3> QED
        BY <3>1, <3>2
    <2> HIDE DEF d
    <2>3. WellFormed(d) /\ \A k : SameRow(db, d, k)
      BY <2>2, SameTables
    <2> QED
      BY <2>1, <2>3, StoredMoves DEF Commits, SameRow
  <1> QED
    BY <1>1, <1>2, <1>3, <1>4, <1>5, <1>6, <1>7

-----------------------------------------------------------------------------
(* The readers.                                                            *)

\* What a request is about to do when it has looked at the graph.
LEMMA CheckMoves ==
    ASSUME Goroutines, NEW i \in DOMAIN handler, Check(i)
    PROVE  /\ Moves(i) /\ At(i, "arrive") /\ ~Is(i, {"get", "list"})
           /\ handler'[i].pc \in {"done", "store"}
           /\ UNCHANGED <<db, cache, deleted, used, seen, late>>
  <1>1. PICK a, p : /\ a = handler[i] /\ p \in {"done", "store"}
                    /\ handler' = [handler EXCEPT ![i] = [a EXCEPT !.pc = p]]
    BY DEF Check, Done, Go
  <1>2. Shape(a)
    BY <1>1 DEF Goroutines
  <1>3. At(i, "arrive") /\ ~Is(i, {"get", "list"}) /\ UNCHANGED <<db, cache, deleted, used, seen, late>>
    BY DEF Check, history
  <1> QED
    BY <1>1, <1>2, <1>3 DEF Moves, Shape

\* A read answered by the cache, and one that is not.
LEMMA HitMoves ==
    ASSUME Goroutines, NEW i \in DOMAIN handler, Hit(i)
    PROVE  /\ Moves(i) /\ At(i, "arrive") /\ handler'[i].pc = "done" /\ cacheKey(i) \in DOMAIN cache
           /\ seen' = seen \cup (IF Is(i, {"list"}) THEN {} ELSE
                  {<<Req(i).key, cache[cacheKey(i)].version, cache[cacheKey(i)].data>>})
           /\ UNCHANGED <<db, cache, deleted, used, late>>
  BY DoneMoves DEF Hit

LEMMA MissMoves ==
    ASSUME Goroutines, NEW i \in DOMAIN handler, Miss(i)
    PROVE  /\ Moves(i) /\ At(i, "arrive") /\ handler'[i].pc = "read" /\ Is(i, {"get", "list"})
           /\ UNCHANGED <<db, cache, deleted, used, seen, late>>
  <1>1. PICK a : a = handler[i] /\ handler' = [handler EXCEPT ![i] = [a EXCEPT !.pc = "read"]]
    BY DEF Miss, Go
  <1>2. Shape(a)
    BY <1>1 DEF Goroutines
  <1>3. At(i, "arrive") /\ Is(i, {"get", "list"}) /\ UNCHANGED <<db, cache, deleted, used, seen, late>>
    BY DEF Miss, history
  <1> QED
    BY <1>1, <1>2, <1>3 DEF Moves, Shape

\* A read of a row that is there.
Finds(i) ==
    /\ Moves(i) /\ At(i, "read") /\ Is(i, {"get"}) /\ handler'[i].pc = "fill"
    /\ Has(db, Req(i).key)
    /\ handler'[i].got = RowOf(db, Req(i).key) /\ handler'[i].outrun = handler[i].outrun
    /\ seen' = seen \cup {<<Req(i).key, RowOf(db, Req(i).key).version, RowOf(db, Req(i).key).data>>}
    /\ UNCHANGED <<db, cache, deleted, used, late>>

LEMMA ReadMoves ==
    ASSUME Goroutines, NEW i \in DOMAIN handler, Read(i)
    PROVE  GivesUp(i) \/ Finds(i)
  <1>1. PICK a, row : a = handler[i] /\ row = RowOf(db, Req(i).key)
    OBVIOUS
  <1>2. Shape(a)
    BY <1>1 DEF Goroutines
  <1>3. CASE Has(db, Req(i).key)
    <2>1. /\ handler' = [handler EXCEPT ![i] = [a EXCEPT !.pc = "fill", !.got = row]]
          /\ At(i, "read") /\ Is(i, {"get"})
          /\ seen' = seen \cup {<<Req(i).key, row.version, row.data>>}
          /\ UNCHANGED <<db, cache, deleted, used, late>>
      BY <1>1, <1>3 DEF Read, Go, Has, RowOf
    <2>2. PICK h : h = [a EXCEPT !.pc = "fill", !.got = row]
      OBVIOUS
    <2>3. Shape(h) /\ h.pc = "fill" /\ h.got = row /\ h.outrun = a.outrun /\ h.req = a.req
      BY <1>2, <2>2 DEF Shape
    <2>4. Moves(i) /\ handler'[i] = h
      BY <1>1, <2>1, <2>2, <2>3 DEF Moves
    <2>5. Finds(i)
      BY <1>1, <1>3, <2>1, <2>3, <2>4 DEF Finds
    <2> QED
      BY <2>5
  <1>4. CASE ~Has(db, Req(i).key)
    <2>1. Done(i) /\ At(i, "read") /\ UNCHANGED <<db, cache, deleted, used, seen, late>>
      BY <1>4 DEF Read, Has
    <2> QED
      BY <2>1, DoneMoves DEF GivesUp, At
  <1> QED
    BY <1>3, <1>4

\* The count of a list.
LEMMA CountMoves ==
    ASSUME Goroutines, NEW i \in DOMAIN handler, Count(i)
    PROVE  /\ Moves(i) /\ At(i, "read") /\ Is(i, {"list"}) /\ handler'[i].pc \in {"fill", "page"}
           /\ handler'[i].got = [total |-> CountEntities(db, Adapted, Req(i).key[1], Req(i).key[2]),
                                 rows |-> {}]
           /\ handler'[i].outrun = handler[i].outrun
           /\ UNCHANGED <<db, cache, deleted, used, seen, late>>
  <1>1. PICK n : n = CountEntities(db, Adapted, Req(i).key[1], Req(i).key[2])
    OBVIOUS
  <1>2. PICK a, p, h :
            /\ a = handler[i] /\ p \in {"fill", "page"}
            /\ h = [a EXCEPT !.pc = p, !.got = [total |-> n, rows |-> {}]]
            /\ handler' = [handler EXCEPT ![i] = h]
    BY <1>1 DEF Count, Go
  <1>3. Shape(a)
    BY <1>2 DEF Goroutines
  <1>4. Shape(h) /\ h.pc = p /\ h.got = [total |-> n, rows |-> {}] /\ h.outrun = a.outrun /\ h.req = a.req
    BY <1>2, <1>3 DEF Shape
  <1>5. At(i, "read") /\ Is(i, {"list"}) /\ UNCHANGED <<db, cache, deleted, used, seen, late>>
    BY DEF Count, history
  <1>6. Moves(i) /\ handler'[i] = h
    BY <1>2, <1>4 DEF Moves
  <1> QED
    BY <1>1, <1>2, <1>4, <1>5, <1>6

\* The page of a list.
LEMMA PageMoves ==
    ASSUME Goroutines, NEW i \in DOMAIN handler, Page(i)
    PROVE  /\ Moves(i) /\ At(i, "page") /\ handler'[i].pc = "fill"
           /\ handler'[i].got =
                  [handler[i].got EXCEPT !.rows =
                      ListPaged(db, Adapted, Req(i).key[1], Req(i).key[2], Req(i).limit, 0)]
           /\ handler'[i].outrun = handler[i].outrun
           /\ UNCHANGED <<db, cache, deleted, used, seen, late>>
  <1>1. PICK R : R = ListPaged(db, Adapted, Req(i).key[1], Req(i).key[2], Req(i).limit, 0)
    OBVIOUS
  <1>2. PICK a, g, h :
            /\ a = handler[i] /\ g = [a.got EXCEPT !.rows = R]
            /\ h = [a EXCEPT !.pc = "fill", !.got = g]
    OBVIOUS
  <1>3. Shape(a)
    BY <1>2 DEF Goroutines
  <1>4. handler' = [handler EXCEPT ![i] = h]
    BY <1>1, <1>2, <1>3 DEF Page, Go
  <1>5. Shape(h) /\ h.pc = "fill" /\ h.got = g /\ h.outrun = a.outrun /\ h.req = a.req
    BY <1>2, <1>3 DEF Shape
  <1>6. At(i, "page") /\ UNCHANGED <<db, cache, deleted, used, seen, late>>
    BY DEF Page, history
  <1>7. Moves(i) /\ handler'[i] = h
    BY <1>2, <1>4, <1>5 DEF Moves
  <1> QED
    BY <1>1, <1>2, <1>5, <1>6, <1>7

\* The end of a read.
LEMMA FillMoves ==
    ASSUME Goroutines, NEW i \in DOMAIN handler, Fill(i)
    PROVE  /\ Moves(i) /\ At(i, "fill") /\ handler'[i].pc = "done"
           /\ cache' = with(cache, cacheKey(i), handler[i].got)
           /\ late' = IF handler[i].outrun THEN late \cup {cacheKey(i)} ELSE late \ {cacheKey(i)}
           /\ UNCHANGED <<db, deleted, used, seen>>
  BY DoneMoves DEF Fill

\* An invalidation ends its request and marks the readers it outruns.
LEMMA InvalidateMoves ==
    ASSUME Goroutines, NEW i \in DOMAIN handler, Invalidate(i)
    PROVE  /\ At(i, "invalidate") /\ DOMAIN handler' = DOMAIN handler
           /\ Shape(handler'[i]) /\ handler'[i].pc = "done" /\ handler'[i].req = handler[i].req
           /\ \A j \in DOMAIN handler \ {i} :
                  /\ Shape(handler'[j])
                  /\ handler'[j].pc = handler[j].pc /\ handler'[j].req = handler[j].req
                  /\ handler'[j].keys = handler[j].keys /\ handler'[j].got = handler[j].got
                  /\ handler'[j].outrun = (handler[j].outrun \/
                         (handler[j].pc \in {"page", "fill"} /\ cacheKey(j) \in Invalidated(i)))
           /\ cache' = without(cache, Invalidated(i)) /\ late' = late \ Invalidated(i)
           /\ UNCHANGED <<db, deleted, used, seen>>
  <1>1. /\ At(i, "invalidate") /\ cache' = without(cache, Invalidated(i)) /\ late' = late \ Invalidated(i)
        /\ UNCHANGED <<db, deleted, used, seen>>
    BY DEF Invalidate
  <1> DEFINE out(j) == handler[j].pc \in {"page", "fill"} /\ cacheKey(j) \in Invalidated(i)
  <1>2. handler' = [j \in DOMAIN handler |->
            IF j = i THEN [handler[i] EXCEPT !.pc = "done"]
            ELSE [handler[j] EXCEPT !.outrun = @ \/ out(j)]]
    BY DEF Invalidate
  <1> HIDE DEF out
  <1>3. DOMAIN handler' = DOMAIN handler
    BY <1>2
  <1>4. Shape(handler'[i]) /\ handler'[i].pc = "done" /\ handler'[i].req = handler[i].req
    <2>1. PICK a, h : a = handler[i] /\ h = handler'[i]
      OBVIOUS
    <2>2. Shape(a) /\ h = [a EXCEPT !.pc = "done"]
      BY <1>2, <2>1 DEF Goroutines
    <2>3. Shape(h) /\ h.pc = "done" /\ h.req = a.req
      BY <2>2 DEF Shape
    <2> QED
      BY <2>1, <2>3
  <1>5. ASSUME NEW j \in DOMAIN handler \ {i}
        PROVE  /\ Shape(handler'[j])
               /\ handler'[j].pc = handler[j].pc /\ handler'[j].req = handler[j].req
               /\ handler'[j].keys = handler[j].keys /\ handler'[j].got = handler[j].got
               /\ handler'[j].outrun = (handler[j].outrun \/ out(j))
    <2>1. PICK a, h, b : a = handler[j] /\ h = handler'[j] /\ b = (handler[j].outrun \/ out(j))
      OBVIOUS
    <2>2. Shape(a)
      BY <2>1 DEF Goroutines
    <2>3. h = [a EXCEPT !.outrun = b]
      BY <1>2, <2>1, Zenon
    <2>4. Shape(h) /\ h.pc = a.pc /\ h.req = a.req /\ h.keys = a.keys /\ h.got = a.got /\ h.outrun = b
      BY <2>2, <2>3 DEF Shape
    <2> QED
      BY <2>1, <2>4
  <1> QED
    BY <1>1, <1>3, <1>4, <1>5 DEF out

-----------------------------------------------------------------------------
(* Well-formedness.                                                        *)

LEMMA GoroutinesKept ==
    ASSUME Goroutines, NEW i \in DOMAIN handler, Moves(i),
           handler'[i].pc \in {"store"} \cup UpdatePcs \cup RebuildPcs => ~Is(i, {"get", "list"}),
           handler'[i].pc \in {"read", "fill"} => Is(i, {"get", "list"}),
           handler'[i].pc = "page" => Is(i, {"list"})
    PROVE  Goroutines'
  <1>1. DOMAIN handler' = DOMAIN handler /\ \A j \in DOMAIN handler : j # i => handler'[j] = handler[j]
    BY DEF Moves
  <1> SUFFICES ASSUME NEW j \in DOMAIN handler
               PROVE  /\ Shape(handler'[j])
                      /\ handler'[j].pc \in {"store"} \cup UpdatePcs \cup RebuildPcs =>
                             handler'[j].req.op \notin {"get", "list"}
                      /\ handler'[j].pc \in {"read", "fill"} => handler'[j].req.op \in {"get", "list"}
                      /\ handler'[j].pc = "page" => handler'[j].req.op \in {"list"}
    BY <1>1 DEF Goroutines, Is, Req
  <1>2. CASE j = i
    BY <1>2 DEF Moves, Is, Req
  <1>3. CASE j # i
    BY <1>1, <1>3 DEF Goroutines, Is, Req
  <1> QED
    BY <1>2, <1>3

\* Every row has a version, every goroutine is at a step of its own request.
THEOREM EntitiesTypeCorrect == Spec => [](WellFormed(db) /\ Goroutines)
  <1>1. Init => WellFormed(db) /\ Goroutines
    <2> SUFFICES ASSUME Init PROVE WellFormed(db) /\ Goroutines
      OBVIOUS
    <2>1. WellFormed(startDB)
      <3> DEFINE blob == {k \in DOMAIN Start : k[2] \notin Adapted}
      <3>1. /\ startDB = [entities |-> startDB.entities, adapted |-> startDB.adapted,
                          sequences |-> startDB.sequences, edges |-> startDB.edges,
                          fts |-> startDB.fts]
            /\ startDB.entities = [k \in blob |-> stored(k)]
            /\ startDB.adapted = [k \in DOMAIN Start \ blob |-> stored(k)]
        <4>1. \E S, E : startDB = [NewSQLiteStore EXCEPT
                                        !.entities = [k \in blob |-> stored(k)],
                                        !.adapted = [k \in DOMAIN Start \ blob |-> stored(k)],
                                        !.sequences = S, !.edges = E]
          BY Zenon DEF startDB
        <4> HIDE DEF blob
        <4>2. PICK A, B : A = [k \in blob |-> stored(k)] /\ B = [k \in DOMAIN Start \ blob |-> stored(k)]
          OBVIOUS
        <4>3. PICK S, E : startDB = [NewSQLiteStore EXCEPT !.entities = A, !.adapted = B,
                                                           !.sequences = S, !.edges = E]
          BY <4>1, <4>2
        <4>4. startDB = [entities |-> A, adapted |-> B, sequences |-> S, edges |-> E, fts |-> << >>]
          BY <4>3 DEF NewSQLiteStore
        <4> QED
          BY <4>2, <4>4
      <3>2. \A k : stored(k).version = 1
        BY DEF stored
      <3> HIDE DEF blob
      <3> QED
        BY <3>1, <3>2 DEF WellFormed, Has, RowOf, Exists, Get, rowsOf
    <2>2. ASSUME NEW i \in DOMAIN handler
          PROVE  Shape(handler[i]) /\ handler[i].pc = "arrive"
      <3>1. PICK menu \in Menus : handler = [j \in DOMAIN menu |->
                [pc |-> "arrive", req |-> menu[j], todo |-> << >>, doc |-> << >>, old |-> {},
                 new |-> {}, keys |-> {}, got |-> << >>, outrun |-> FALSE]]
        BY DEF Init
      <3>2. PICK h : h = handler[i]
        OBVIOUS
      <3>3. h = [pc |-> "arrive", req |-> menu[i], todo |-> << >>, doc |-> << >>, old |-> {},
                 new |-> {}, keys |-> {}, got |-> << >>, outrun |-> FALSE]
        BY <3>1, <3>2
      <3>4. Shape(h) /\ h.pc = "arrive"
        BY <3>3 DEF Shape
      <3> QED
        BY <3>2, <3>4
    <2> QED
      BY <2>1, <2>2 DEF Init, Goroutines, UpdatePcs, RebuildPcs
  <1>2. WellFormed(db) /\ Goroutines /\ [Next]_vars => (WellFormed(db) /\ Goroutines)'
    <2> SUFFICES ASSUME WellFormed(db), Goroutines, [Next]_vars
                 PROVE  (WellFormed(db) /\ Goroutines)'
      OBVIOUS
    <2> USE DEF UpdatePcs, RebuildPcs
    <2>1. ASSUME NEW i \in DOMAIN handler, GraphCall(i) PROVE (WellFormed(db) /\ Goroutines)'
      <3>1. ~Is(i, {"get", "list"})
        BY <2>1 DEF GraphCall, Goroutines
      <3>2. Goroutines'
        BY <2>1, <3>1, GoroutinesKept DEF GraphCall
      <3> QED
        BY <2>1, <3>2 DEF GraphCall, WellFormed, Has, RowOf
    <2>2. ASSUME NEW i \in DOMAIN handler, GivesUp(i) PROVE (WellFormed(db) /\ Goroutines)'
      BY <2>2, GoroutinesKept DEF GivesUp, WellFormed, Has, RowOf
    <2>3. ASSUME NEW i \in DOMAIN handler, Commits(i) PROVE (WellFormed(db) /\ Goroutines)'
      <3>1. ~Is(i, {"get", "list"})
        BY <2>3 DEF Commits, At, Goroutines
      <3>2. Goroutines'
        BY <2>3, <3>1, GoroutinesKept DEF Commits
      <3> QED
        BY <2>3, <3>2 DEF Commits, WellFormed, Has, RowOf
    <2>4. ASSUME NEW i \in DOMAIN handler, Check(i) \/ Hit(i) \/ Miss(i) \/ Count(i) \/ Page(i) \/ Fill(i)
          PROVE  (WellFormed(db) /\ Goroutines)'
      <3>1. Is(i, {"list"}) => Is(i, {"get", "list"})
        BY DEF Is
      <3>2. At(i, "page") => Is(i, {"list"})
        BY DEF At, Goroutines
      <3>3. Goroutines' /\ UNCHANGED db
        BY <2>4, <3>1, <3>2, GoroutinesKept, CheckMoves, HitMoves, MissMoves, CountMoves, PageMoves, FillMoves
      <3> QED
        BY <3>3 DEF WellFormed, Has, RowOf
    <2>5. ASSUME NEW i \in DOMAIN handler, Finds(i) PROVE (WellFormed(db) /\ Goroutines)'
      <3>1. Is(i, {"get", "list"})
        BY <2>5 DEF Finds, Is
      <3> QED
        BY <2>5, <3>1, GoroutinesKept DEF Finds, WellFormed, Has, RowOf
    <2>6. ASSUME NEW i \in DOMAIN handler, Invalidate(i) PROVE (WellFormed(db) /\ Goroutines)'
      BY <2>6, InvalidateMoves DEF Goroutines, Is, Req, WellFormed, Has, RowOf
    <2>7. CASE UNCHANGED <<db, handler>>
      BY <2>7 DEF Goroutines, Is, Req, WellFormed, Has, RowOf
    <2> QED
      BY <2>1, <2>2, <2>3, <2>4, <2>5, <2>6, <2>7, GraphCalls, Writes, ReadMoves DEF Next, vars, Evict
  <1> QED
    BY <1>1, <1>2, PTL DEF Spec

-----------------------------------------------------------------------------
(* Versions.                                                               *)

\* What was read of k, version v with content x, is stored still, or a later
\* version is, or the document was deleted since.
Vouched(d, D, k, v, x) ==
    \/ k \in D
    \/ /\ Has(d, k) /\ v \in Nat
       /\ \/ RowOf(d, k).version > v
          \/ RowOf(d, k).version = v /\ RowOf(d, k).data = x

\* It holds of what clients were given, of the cached rows, which later
\* clients are given, and of the rows readers are about to cache.
VersionInv ==
    /\ \A s \in seen : Vouched(db, deleted, s[1], s[2], s[3])
    /\ \A k : rowKey(k) \in DOMAIN cache =>
           Vouched(db, deleted, k, cache[rowKey(k)].version, cache[rowKey(k)].data)
    /\ \A i \in DOMAIN handler : At(i, "fill") /\ Is(i, {"get"}) =>
           Vouched(db, deleted, Req(i).key, handler[i].got.version, handler[i].got.data)

LEMMA VouchedKept ==
    ASSUME NEW k, NEW v, NEW x, Vouched(db, deleted, k, v, x), WellFormed(db),
           UNCHANGED <<db, deleted>> \/ \E i \in DOMAIN handler : Commits(i)
    PROVE  Vouched(db', deleted', k, v, x)
  <1>1. CASE UNCHANGED <<db, deleted>>
    BY <1>1 DEF Vouched, Has, RowOf
  <1>2. ASSUME NEW i \in DOMAIN handler, Commits(i) PROVE Vouched(db', deleted', k, v, x)
    <2>1. CASE k \in deleted'
      BY <2>1 DEF Vouched
    <2>2. CASE k \notin deleted'
      <3>1. k \notin deleted
        BY <1>2, <2>2 DEF Commits
      <3>2. /\ Has(db, k) /\ v \in Nat
            /\ \/ RowOf(db, k).version > v
               \/ RowOf(db, k).version = v /\ RowOf(db, k).data = x
        BY <3>1 DEF Vouched
      <3>3. /\ Has(db', k)
            /\ RowOf(db', k) = RowOf(db, k) \/ RowOf(db', k).version > RowOf(db, k).version
        BY <1>2, <2>2, <3>2 DEF Commits
      <3>4. RowOf(db, k).version \in Nat /\ RowOf(db', k).version \in Nat
        BY <1>2, <3>2, <3>3 DEF Commits, WellFormed
      <3>5. \/ RowOf(db', k).version > v
            \/ RowOf(db', k).version = v /\ RowOf(db', k).data = x
        <4>1. CASE RowOf(db', k) = RowOf(db, k)
          BY <3>2, <4>1
        <4>2. CASE RowOf(db', k).version > RowOf(db, k).version
          BY <3>2, <3>4, <4>2
        <4> QED
          BY <3>3, <4>1, <4>2
      <3> QED
        BY <3>2, <3>3, <3>5 DEF Vouched, Has, RowOf
    <2> QED
      BY <2>1, <2>2
  <1> QED
    BY <1>1, <1>2

\* What is stored vouches for itself.
LEMMA StoredVouched ==
    ASSUME WellFormed(db), NEW k, Has(db, k)
    PROVE  Vouched(db, deleted, k, RowOf(db, k).version, RowOf(db, k).data)
  BY DEF WellFormed, Vouched

\* A step of one goroutine that caches nothing and gives nothing away.
LEMMA SilentVersions ==
    ASSUME VersionInv, WellFormed(db), NEW i \in DOMAIN handler, Moves(i),
           UNCHANGED <<db, deleted>> \/ Commits(i), UNCHANGED <<cache, seen>>,
           handler'[i].pc = "fill" => Is(i, {"list"})
    PROVE  VersionInv'
  <1>1. \A k, v, x : Vouched(db, deleted, k, v, x) => Vouched(db', deleted', k, v, x)
    BY VouchedKept
  <1>2. \A s \in seen' : Vouched(db', deleted', s[1], s[2], s[3])
    BY <1>1 DEF VersionInv
  <1>3. ASSUME NEW k, rowKey(k) \in DOMAIN cache'
        PROVE  Vouched(db', deleted', k, cache'[rowKey(k)].version, cache'[rowKey(k)].data)
    BY <1>1, <1>3 DEF VersionInv
  <1>4. ASSUME NEW j \in DOMAIN handler', handler'[j].pc = "fill", handler'[j].req.op \in {"get"}
        PROVE  Vouched(db', deleted', handler'[j].req.key, handler'[j].got.version, handler'[j].got.data)
    <2>1. j # i
      BY <1>4 DEF Moves, Is, Req
    <2>2. j \in DOMAIN handler /\ handler'[j] = handler[j]
      BY <1>4, <2>1 DEF Moves
    <2>3. Vouched(db, deleted, handler[j].req.key, handler[j].got.version, handler[j].got.data)
      BY <1>4, <2>2 DEF VersionInv, At, Is, Req
    <2> QED
      BY <1>1, <2>2, <2>3
  <1> QED
    BY <1>2, <1>3, <1>4 DEF VersionInv, At, Is, Req, rowKey

LEMMA CacheKeys ==
    ASSUME NEW i
    PROVE  /\ Is(i, {"list"}) => \A k : cacheKey(i) # rowKey(k)
           /\ ~Is(i, {"list"}) => cacheKey(i) = rowKey(Req(i).key)
           /\ \A k, l : rowKey(k) = rowKey(l) => k = l
  BY DEF cacheKey, rowKey, listKey

\* The version and content a client gets from Get and sends back with a
\* conditional write (If-Match of handleUpdate, handlePatch, handleSave and the
\* commit) stand for one another, whatever requests run at the same time: no
\* row is overwritten by a client that read another content.
THEOREM VersionsNameContents == Spec => []VersionsIdentify
  <1>1. Init => VersionInv
    <2> SUFFICES ASSUME Init PROVE VersionInv
      OBVIOUS
    <2>1. seen = {} /\ cache = << >>
      BY DEF Init
    <2>2. \A i \in DOMAIN handler : handler[i].pc = "arrive"
      BY DEF Init
    <2>3. DOMAIN cache = {}
      BY <2>1
    <2> QED
      BY <2>1, <2>2, <2>3 DEF VersionInv, At
  <1>2. VersionInv /\ WellFormed(db) /\ Goroutines /\ [Next]_vars => VersionInv'
    <2> SUFFICES ASSUME VersionInv, WellFormed(db), Goroutines, [Next]_vars PROVE VersionInv'
      OBVIOUS
    <2>1. ASSUME NEW i \in DOMAIN handler, GraphCall(i) \/ GivesUp(i) \/ Commits(i) PROVE VersionInv'
      <3>1. /\ Moves(i) /\ UNCHANGED <<cache, seen>> /\ handler'[i].pc # "fill"
            /\ UNCHANGED <<db, deleted>> \/ Commits(i)
        BY <2>1 DEF GraphCall, GivesUp, Commits, UpdatePcs, RebuildPcs
      <3> QED
        BY <3>1, SilentVersions
    <2>2. ASSUME NEW i \in DOMAIN handler, Check(i) \/ Miss(i) \/ Count(i) \/ Page(i) PROVE VersionInv'
      <3>1. At(i, "page") => Is(i, {"list"})
        BY DEF At, Goroutines
      <3>2. /\ Moves(i) /\ UNCHANGED <<cache, seen, db, deleted>>
            /\ handler'[i].pc = "fill" => Is(i, {"list"})
        BY <2>2, <3>1, CheckMoves, MissMoves, CountMoves, PageMoves
      <3> QED
        BY <3>2, SilentVersions
    <2>3. ASSUME NEW i \in DOMAIN handler, Hit(i) PROVE VersionInv'
      <3> DEFINE c == cache[cacheKey(i)]
      <3>1. /\ Moves(i) /\ handler'[i].pc = "done" /\ cacheKey(i) \in DOMAIN cache
            /\ seen' = seen \cup (IF Is(i, {"list"}) THEN {} ELSE {<<Req(i).key, c.version, c.data>>})
            /\ UNCHANGED <<db, cache, deleted>>
        BY <2>3, HitMoves
      <3>2. ~Is(i, {"list"}) => Vouched(db, deleted, Req(i).key, c.version, c.data)
        BY <3>1, CacheKeys DEF VersionInv
      <3>3. \A s \in seen' : Vouched(db', deleted', s[1], s[2], s[3])
        BY <3>1, <3>2 DEF VersionInv
      <3>4. \A j \in DOMAIN handler' : handler'[j].pc = "fill" =>
                j \in DOMAIN handler /\ handler'[j] = handler[j]
        BY <3>1 DEF Moves
      <3> QED
        BY <3>1, <3>3, <3>4 DEF VersionInv, At, Is, Req
    <2>4. ASSUME NEW i \in DOMAIN handler, Finds(i) PROVE VersionInv'
      <3> DEFINE key == Req(i).key
      <3>1. Vouched(db, deleted, key, RowOf(db, key).version, RowOf(db, key).data)
        BY <2>4, StoredVouched DEF Finds
      <3>2. \A s \in seen' : Vouched(db', deleted', s[1], s[2], s[3])
        BY <2>4, <3>1 DEF Finds, VersionInv
      <3>3. ASSUME NEW j \in DOMAIN handler', handler'[j].pc = "fill", handler'[j].req.op \in {"get"}
            PROVE  Vouched(db', deleted', handler'[j].req.key, handler'[j].got.version, handler'[j].got.data)
        <4>1. CASE j = i
          BY <2>4, <3>1, <4>1 DEF Finds, Moves, Req
        <4>2. CASE j # i
          BY <2>4, <3>3, <4>2 DEF Finds, Moves, VersionInv, At, Is, Req
        <4> QED
          BY <4>1, <4>2
      <3>4. \A k : rowKey(k) \in DOMAIN cache' =>
                Vouched(db', deleted', k, cache'[rowKey(k)].version, cache'[rowKey(k)].data)
        BY <2>4 DEF Finds, VersionInv
      <3> QED
        BY <3>2, <3>3, <3>4 DEF VersionInv, At, Is, Req, rowKey
    <2>5. ASSUME NEW i \in DOMAIN handler, Fill(i) PROVE VersionInv'
      <3>1. /\ Moves(i) /\ At(i, "fill") /\ handler'[i].pc = "done"
            /\ cache' = with(cache, cacheKey(i), handler[i].got)
            /\ UNCHANGED <<db, deleted, seen>>
        BY <2>5, FillMoves
      <3>2. ~Is(i, {"list"}) => Is(i, {"get"})
        BY <3>1 DEF Goroutines, At, Is
      <3>3. ASSUME NEW k, rowKey(k) \in DOMAIN cache'
            PROVE  Vouched(db', deleted', k, cache'[rowKey(k)].version, cache'[rowKey(k)].data)
        <4>1. CASE rowKey(k) = cacheKey(i)
          <5>1. Is(i, {"get"}) /\ k = Req(i).key
            BY <3>2, <4>1, CacheKeys
          <5>2. Vouched(db, deleted, k, handler[i].got.version, handler[i].got.data)
            BY <3>1, <5>1 DEF VersionInv
          <5>3. cache'[rowKey(k)] = handler[i].got
            BY <3>1, <4>1 DEF with
          <5> QED
            BY <3>1, <5>2, <5>3
        <4>2. CASE rowKey(k) # cacheKey(i)
          <5>1. rowKey(k) \in DOMAIN cache /\ cache'[rowKey(k)] = cache[rowKey(k)]
            BY <3>1, <3>3, <4>2 DEF with
          <5> QED
            BY <3>1, <5>1 DEF VersionInv
        <4> QED
          BY <4>1, <4>2
      <3>4. \A j \in DOMAIN handler' : handler'[j].pc = "fill" =>
                j \in DOMAIN handler /\ handler'[j] = handler[j]
        BY <3>1 DEF Moves
      <3> QED
        BY <3>1, <3>3, <3>4 DEF VersionInv, At, Is, Req, rowKey
    <2>6. ASSUME UNCHANGED <<db, deleted, seen>>, DOMAIN cache' \subseteq DOMAIN cache,
                 \A c \in DOMAIN cache' : cache'[c] = cache[c], DOMAIN handler' = DOMAIN handler,
                 \A j \in DOMAIN handler :
                     \/ handler'[j].pc # "fill"
                     \/ /\ handler'[j].pc = handler[j].pc /\ handler'[j].req = handler[j].req
                        /\ handler'[j].got = handler[j].got
          PROVE  VersionInv'
      <3>1. \A k : rowKey(k) \in DOMAIN cache' =>
                Vouched(db', deleted', k, cache'[rowKey(k)].version, cache'[rowKey(k)].data)
        BY <2>6 DEF VersionInv
      <3> QED
        BY <2>6, <3>1 DEF VersionInv, At, Is, Req, rowKey
    <2>7. ASSUME NEW i \in DOMAIN handler, Invalidate(i) PROVE VersionInv'
      BY <2>6, <2>7, InvalidateMoves DEF without
    <2>8. ASSUME NEW c \in DOMAIN cache, Evict(c) PROVE VersionInv'
      BY <2>6, <2>8 DEF Evict, without
    <2>9. CASE UNCHANGED vars
      BY <2>6, <2>9 DEF vars
    <2> QED
      BY <2>1, <2>2, <2>3, <2>4, <2>5, <2>7, <2>8, <2>9, GraphCalls, Writes, ReadMoves DEF Next
  <1>3. VersionInv => VersionsIdentify
    <2> SUFFICES ASSUME VersionInv, NEW s \in seen, s[1] \in Rows \ deleted, Row(s[1]).version = s[2]
                 PROVE  Row(s[1]).data = s[3]
      BY DEF VersionsIdentify
    <2>1. /\ s[2] \in Nat
          /\ Row(s[1]).version > s[2] \/ Row(s[1]).data = s[3]
      BY DEF VersionInv, Vouched, Row, RowOf
    <2> QED
      BY <2>1
  <1> QED
    BY <1>1, <1>2, <1>3, EntitiesTypeCorrect, PTL DEF Spec

-----------------------------------------------------------------------------
(* The cache.                                                              *)

\* An invalidation of c is still to come, of a write already stored.
Due(H, c) ==
    \E j \in DOMAIN H : /\ H[j].pc \in UpdatePcs
                        /\ \E k \in H[j].keys : c \in {rowKey(k), listKey(k[1], k[2])}

RowFresh(d, k, v) == Has(d, k) /\ v = RowOf(d, k)

ListFresh(d, t, e, v) ==
    /\ v.total = CountEntities(d, Adapted, t, e)
    /\ \A r \in v.rows : r \in List(d, Adapted, t, e)

\* What is cached under c, or about to be, is what the store holds or is due
\* to be removed.
RowAnswer(d, H, k, v) == RowFresh(d, k, v) \/ Due(H, rowKey(k))
ListAnswer(d, H, t, e, v) == ListFresh(d, t, e, v) \/ Due(H, listKey(t, e))

CacheInv ==
    /\ \A c \in DOMAIN cache : (\E k : c = rowKey(k)) \/ (\E t, e : c = listKey(t, e))
    /\ \A k : rowKey(k) \in DOMAIN cache \ late => RowAnswer(db, handler, k, cache[rowKey(k)])
    /\ \A t, e : listKey(t, e) \in DOMAIN cache \ late =>
           ListAnswer(db, handler, t, e, cache[listKey(t, e)])

ReaderInv ==
    \A i \in DOMAIN handler :
        /\ handler[i].pc = "fill" /\ ~handler[i].outrun /\ Is(i, {"get"}) =>
               RowAnswer(db, handler, Req(i).key, handler[i].got)
        /\ handler[i].pc \in {"page", "fill"} /\ ~handler[i].outrun /\ Is(i, {"list"}) =>
               ListAnswer(db, handler, Req(i).key[1], Req(i).key[2], handler[i].got)
        /\ handler[i].pc = "page" =>
               handler[i].got = [total |-> handler[i].got.total, rows |-> handler[i].got.rows]
        /\ handler[i].pc \in UpdatePcs => handler[i].keys \subseteq used

\* The step spoils no answer without owing its removal.
AnswersStay ==
    /\ \A k, v : RowAnswer(db, handler, k, v) => RowAnswer(db', handler', k, v)
    /\ \A t, e, v : ListAnswer(db, handler, t, e, v) => ListAnswer(db', handler', t, e, v)

\* Lists of rows that did not change are the same.
LEMMA SameList ==
    ASSUME NEW d, NEW f, NEW t, NEW e, \A k : k[1] = t /\ k[2] = e => SameRow(d, f, k)
    PROVE  /\ List(d, Adapted, t, e) = List(f, Adapted, t, e)
           /\ CountEntities(d, Adapted, t, e) = CountEntities(f, Adapted, t, e)
  <1> DEFINE R(z) == rowsOf(z, Adapted, <<t, e, 0>>)
             K(z) == {x \in DOMAIN R(z) : x[1] = t /\ x[2] = e}
  <1>1. \A z, k : k[2] = e => rowsOf(z, Adapted, k) = R(z)
    BY DEF rowsOf
  <1>2. \A k : k[1] = t /\ k[2] = e => /\ k \in DOMAIN R(d) <=> k \in DOMAIN R(f)
                                       /\ k \in DOMAIN R(d) => R(f)[k] = R(d)[k]
    BY <1>1 DEF SameRow, Has, RowOf, Exists, Get
  <1>3. \A z : List(z, Adapted, t, e) = {[key |-> k, row |-> R(z)[k]] : k \in K(z)}
    BY DEF List
  <1> HIDE DEF R
  <1>4. K(d) = K(f) /\ \A k \in K(d) : R(f)[k] = R(d)[k]
    BY <1>2
  <1> HIDE DEF K
  <1>5. List(d, Adapted, t, e) = List(f, Adapted, t, e)
    BY <1>3, <1>4
  <1> QED
    BY <1>5 DEF CountEntities

\* A step of one goroutine that owes nothing before or after leaves what is
\* due as it was; a graph call keeps it.
LEMMA DueKept ==
    ASSUME NEW i \in DOMAIN handler, Moves(i),
           \/ handler[i].pc \notin UpdatePcs
           \/ handler'[i].pc \in UpdatePcs /\ handler'[i].keys = handler[i].keys
    PROVE  \A c : Due(handler, c) => Due(handler', c)
  <1> SUFFICES ASSUME NEW c, Due(handler, c) PROVE Due(handler', c)
    OBVIOUS
  <1>1. PICK j \in DOMAIN handler :
            /\ handler[j].pc \in UpdatePcs
            /\ \E k \in handler[j].keys : c \in {rowKey(k), listKey(k[1], k[2])}
    BY DEF Due
  <1>2. j \in DOMAIN handler' /\ handler'[j].pc \in UpdatePcs /\ handler'[j].keys = handler[j].keys
    BY <1>1 DEF Moves
  <1> QED
    BY <1>1, <1>2 DEF Due

\* A stored write spoils only what it owes the cache.
LEMMA CommitAnswers ==
    ASSUME NEW i \in DOMAIN handler, Commits(i)
    PROVE  AnswersStay
  <1>0. handler[i].pc \notin UpdatePcs /\ Moves(i)
    BY DEF Commits, At, UpdatePcs
  <1>1. \A c : Due(handler, c) => Due(handler', c)
    BY <1>0, DueKept
  <1>2. ASSUME NEW k \in handler'[i].keys, NEW c, c \in {rowKey(k), listKey(k[1], k[2])}
        PROVE  Due(handler', c)
    <2>1. i \in DOMAIN handler' /\ handler'[i].pc \in UpdatePcs
      BY <1>0, <1>2 DEF Commits, Moves
    <2> QED
      BY <1>2, <2>1 DEF Due
  <1>3. ASSUME NEW k, NEW v, RowAnswer(db, handler, k, v) PROVE RowAnswer(db', handler', k, v)
    <2>1. CASE k \in handler'[i].keys
      BY <1>2, <2>1 DEF RowAnswer
    <2>2. CASE k \notin handler'[i].keys
      <3>1. SameRow(db, db', k)
        BY <2>2 DEF Commits
      <3> QED
        BY <1>1, <1>3, <3>1 DEF RowAnswer, RowFresh, SameRow
    <2> QED
      BY <2>1, <2>2
  <1>4. ASSUME NEW t, NEW e, NEW v, ListAnswer(db, handler, t, e, v)
        PROVE  ListAnswer(db', handler', t, e, v)
    <2>1. CASE \E k \in handler'[i].keys : k[1] = t /\ k[2] = e
      BY <1>2, <2>1 DEF ListAnswer
    <2>2. CASE ~\E k \in handler'[i].keys : k[1] = t /\ k[2] = e
      <3>1. \A k : k[1] = t /\ k[2] = e => SameRow(db, db', k)
        BY <2>2 DEF Commits
      <3>2. /\ List(db, Adapted, t, e) = List(db', Adapted, t, e)
            /\ CountEntities(db, Adapted, t, e) = CountEntities(db', Adapted, t, e)
        BY <3>1, SameList
      <3> QED
        BY <1>1, <1>4, <3>2 DEF ListAnswer, ListFresh
    <2> QED
      BY <2>1, <2>2
  <1> QED
    BY <1>3, <1>4 DEF AnswersStay

LEMMA QuietAnswers ==
    ASSUME NEW i \in DOMAIN handler, Moves(i), UNCHANGED db,
           \/ handler[i].pc \notin UpdatePcs
           \/ handler'[i].pc \in UpdatePcs /\ handler'[i].keys = handler[i].keys
    PROVE  AnswersStay
  <1>1. \A c : Due(handler, c) => Due(handler', c)
    BY DueKept
  <1> QED
    BY <1>1 DEF AnswersStay, RowAnswer, ListAnswer

LEMMA CacheKept ==
    ASSUME CacheInv, AnswersStay, UNCHANGED <<cache, late>>
    PROVE  CacheInv'
  <1>1. \A c \in DOMAIN cache' : (\E k : c = rowKey(k)) \/ (\E t, e : c = listKey(t, e))
    BY DEF CacheInv
  <1>2. \A k : rowKey(k) \in DOMAIN cache' \ late' => RowAnswer(db', handler', k, cache'[rowKey(k)])
    BY DEF CacheInv, AnswersStay
  <1>3. \A t, e : listKey(t, e) \in DOMAIN cache' \ late' =>
            ListAnswer(db', handler', t, e, cache'[listKey(t, e)])
    BY DEF CacheInv, AnswersStay
  <1> QED
    BY <1>1, <1>2, <1>3 DEF CacheInv, rowKey, listKey, RowAnswer, ListAnswer

\* The clauses of ReaderInv for one goroutine, in a state given by its parts.
Reading(d, H, U, i) ==
    /\ H[i].pc = "fill" /\ ~H[i].outrun /\ H[i].req.op \in {"get"} =>
           RowAnswer(d, H, H[i].req.key, H[i].got)
    /\ H[i].pc \in {"page", "fill"} /\ ~H[i].outrun /\ H[i].req.op \in {"list"} =>
           ListAnswer(d, H, H[i].req.key[1], H[i].req.key[2], H[i].got)
    /\ H[i].pc = "page" => H[i].got = [total |-> H[i].got.total, rows |-> H[i].got.rows]
    /\ H[i].pc \in UpdatePcs => H[i].keys \subseteq U

LEMMA ReadingDef ==
    /\ ReaderInv <=> \A i \in DOMAIN handler : Reading(db, handler, used, i)
    /\ ReaderInv' <=> \A i \in DOMAIN handler' : Reading(db', handler', used', i)
  <1>1. ReaderInv <=> \A i \in DOMAIN handler : Reading(db, handler, used, i)
    BY DEF ReaderInv, Reading, Is, Req
  <1>2. ReaderInv' <=> \A i \in DOMAIN handler' : Reading(db', handler', used', i)
    BY DEF ReaderInv, Reading, Is, Req, RowAnswer, ListAnswer
  <1> QED
    BY <1>1, <1>2

LEMMA ReadersKept ==
    ASSUME ReaderInv, AnswersStay, NEW i \in DOMAIN handler, Moves(i), used \subseteq used',
           Reading(db', handler', used', i)
    PROVE  ReaderInv'
  <1>1. ASSUME NEW j \in DOMAIN handler' PROVE Reading(db', handler', used', j)
    <2>1. CASE j = i
      BY <2>1
    <2>2. CASE j # i
      <3>1. j \in DOMAIN handler /\ handler'[j] = handler[j]
        BY <2>2 DEF Moves
      <3>2. Reading(db, handler, used, j)
        BY <3>1, ReadingDef
      <3> QED
        BY <3>1, <3>2 DEF Reading, AnswersStay
    <2> QED
      BY <2>1, <2>2
  <1> QED
    BY <1>1, ReadingDef

\* A step that neither reads nor caches.
LEMMA SilentCache ==
    ASSUME CacheInv, ReaderInv, AnswersStay, NEW i \in DOMAIN handler, Moves(i),
           UNCHANGED <<cache, late>>, used \subseteq used', handler'[i].pc \notin {"page", "fill"},
           handler'[i].pc \in UpdatePcs => handler'[i].keys \subseteq used'
    PROVE  (CacheInv /\ ReaderInv)'
  <1>1. Reading(db', handler', used', i)
    BY DEF Reading
  <1> QED
    BY <1>1, CacheKept, ReadersKept

\* Reading a row, counting a list and reading its page.
LEMMA FindCache ==
    ASSUME CacheInv, ReaderInv, NEW i \in DOMAIN handler, Finds(i)
    PROVE  (CacheInv /\ ReaderInv)'
  <1>1. Moves(i) /\ handler[i].pc = "read" /\ UNCHANGED <<db, cache, late, used>>
    BY DEF Finds, At
  <1>2. AnswersStay
    BY <1>1, QuietAnswers DEF UpdatePcs
  <1>3. handler'[i].req = handler[i].req /\ handler'[i].pc = "fill" /\ handler'[i].req.op # "list"
    BY DEF Finds, Moves, Is, Req
  <1>4. RowFresh(db', handler'[i].req.key, handler'[i].got)
    BY <1>1, <1>3 DEF Finds, RowFresh, Req
  <1>5. Reading(db', handler', used', i)
    BY <1>3, <1>4 DEF Reading, RowAnswer, UpdatePcs
  <1> QED
    BY <1>1, <1>2, <1>5, CacheKept, ReadersKept

LEMMA CountCache ==
    ASSUME CacheInv, ReaderInv, Goroutines, NEW i \in DOMAIN handler, Count(i)
    PROVE  (CacheInv /\ ReaderInv)'
  <1>1. /\ Moves(i) /\ handler[i].pc = "read" /\ handler[i].req.op = "list"
        /\ handler'[i].pc \in {"fill", "page"}
        /\ handler'[i].got = [total |-> CountEntities(db, Adapted, Req(i).key[1], Req(i).key[2]),
                              rows |-> {}]
        /\ UNCHANGED <<db, cache, late, used>>
    BY CountMoves DEF At, Is, Req
  <1>2. AnswersStay
    BY <1>1, QuietAnswers DEF UpdatePcs
  <1>3. handler'[i].req = handler[i].req
    BY <1>1 DEF Moves
  <1>4. PICK g, t, e : g = handler'[i].got /\ t = handler'[i].req.key[1] /\ e = handler'[i].req.key[2]
    OBVIOUS
  <1>5. g = [total |-> CountEntities(db', Adapted, t, e), rows |-> {}]
    BY <1>1, <1>3, <1>4 DEF Req
  <1>6. ListFresh(db', t, e, g) /\ g = [total |-> g.total, rows |-> g.rows]
    BY <1>5 DEF ListFresh
  <1>7. Reading(db', handler', used', i)
    BY <1>1, <1>3, <1>4, <1>6 DEF Reading, ListAnswer, UpdatePcs
  <1> QED
    BY <1>1, <1>2, <1>7, CacheKept, ReadersKept

LEMMA PageCache ==
    ASSUME CacheInv, ReaderInv, Goroutines, NEW i \in DOMAIN handler, Page(i)
    PROVE  (CacheInv /\ ReaderInv)'
  <1>1. /\ Moves(i) /\ handler[i].pc = "page" /\ handler'[i].pc = "fill"
        /\ handler'[i].got =
               [handler[i].got EXCEPT !.rows =
                   ListPaged(db, Adapted, Req(i).key[1], Req(i).key[2], Req(i).limit, 0)]
        /\ handler'[i].outrun = handler[i].outrun
        /\ UNCHANGED <<db, cache, late, used>>
    BY PageMoves DEF At
  <1>2. AnswersStay
    BY <1>1, QuietAnswers DEF UpdatePcs
  <1>3. handler'[i].req = handler[i].req /\ handler[i].req.op = "list"
    BY <1>1 DEF Moves, Goroutines, Is, Req
  <1>4. PICK g, h, t, e, R :
            /\ g = handler[i].got /\ h = handler'[i].got
            /\ t = handler[i].req.key[1] /\ e = handler[i].req.key[2]
            /\ R = ListPaged(db, Adapted, t, e, handler[i].req.limit, 0)
    OBVIOUS
  <1>5. g = [total |-> g.total, rows |-> g.rows]
    BY <1>1, <1>4, ReadingDef DEF Reading
  <1>6. h.total = g.total /\ h.rows = R
    <2>1. h = [g EXCEPT !.rows = R]
      BY <1>1, <1>4 DEF Req
    <2> QED
      BY <1>5, <2>1
  <1>7. R \subseteq List(db, Adapted, t, e)
    BY <1>4 DEF ListPaged
  <1>8. ListFresh(db, t, e, g) => ListFresh(db', t, e, h)
    BY <1>1, <1>6, <1>7 DEF ListFresh
  <1>9. ~handler[i].outrun => ListAnswer(db, handler, t, e, g)
    BY <1>1, <1>3, <1>4, ReadingDef DEF Reading
  <1>10. \A c : Due(handler, c) => Due(handler', c)
    BY <1>1, DueKept DEF UpdatePcs
  <1>11. ~handler'[i].outrun => ListAnswer(db', handler', t, e, h)
    BY <1>1, <1>8, <1>9, <1>10 DEF ListAnswer
  <1>12. Reading(db', handler', used', i)
    BY <1>1, <1>3, <1>4, <1>11 DEF Reading, UpdatePcs
  <1> QED
    BY <1>1, <1>2, <1>12, CacheKept, ReadersKept

\* Filling the cache.
LEMMA FillCache ==
    ASSUME CacheInv, ReaderInv, Goroutines, NEW i \in DOMAIN handler, Fill(i)
    PROVE  (CacheInv /\ ReaderInv)'
  <1>1. /\ Moves(i) /\ handler[i].pc = "fill" /\ handler'[i].pc = "done"
        /\ cache' = with(cache, cacheKey(i), handler[i].got)
        /\ late' = IF handler[i].outrun THEN late \cup {cacheKey(i)} ELSE late \ {cacheKey(i)}
        /\ UNCHANGED <<db, used>>
    BY FillMoves DEF At
  <1>2. AnswersStay
    BY <1>1, QuietAnswers DEF UpdatePcs
  <1>3. Reading(db', handler', used', i)
    BY <1>1 DEF Reading, UpdatePcs
  <1>4. ReaderInv'
    BY <1>1, <1>2, <1>3, ReadersKept
  <1>5. Is(i, {"list"}) \/ Is(i, {"get"})
    BY <1>1 DEF Goroutines, Is
  <1>6. /\ DOMAIN cache' = DOMAIN cache \cup {cacheKey(i)} /\ cache'[cacheKey(i)] = handler[i].got
        /\ \A c \in DOMAIN cache' : c # cacheKey(i) => cache'[c] = cache[c]
        /\ \A c : c # cacheKey(i) => (c \in late' <=> c \in late)
        /\ cacheKey(i) \notin late' => ~handler[i].outrun
    BY <1>1 DEF with
  <1>7. \A c \in DOMAIN cache' : (\E k : c = rowKey(k)) \/ (\E t, e : c = listKey(t, e))
    BY <1>6 DEF CacheInv, cacheKey
  <1>8. ASSUME NEW k, rowKey(k) \in DOMAIN cache' \ late'
        PROVE  RowAnswer(db', handler', k, cache'[rowKey(k)])
    <2>1. CASE rowKey(k) = cacheKey(i)
      <3>1. Is(i, {"get"}) /\ k = Req(i).key
        BY <1>5, <2>1, CacheKeys
      <3>2. RowAnswer(db, handler, k, handler[i].got)
        BY <1>1, <1>6, <1>8, <2>1, <3>1 DEF ReaderInv
      <3> QED
        BY <1>2, <1>6, <2>1, <3>2 DEF AnswersStay
    <2>2. CASE rowKey(k) # cacheKey(i)
      BY <1>2, <1>6, <1>8, <2>2 DEF CacheInv, AnswersStay
    <2> QED
      BY <2>1, <2>2
  <1>9. ASSUME NEW t, NEW e, listKey(t, e) \in DOMAIN cache' \ late'
        PROVE  ListAnswer(db', handler', t, e, cache'[listKey(t, e)])
    <2>1. CASE listKey(t, e) = cacheKey(i)
      <3>1. Is(i, {"list"}) /\ t = Req(i).key[1] /\ e = Req(i).key[2]
        BY <2>1 DEF cacheKey, listKey, rowKey
      <3>2. ListAnswer(db, handler, t, e, handler[i].got)
        BY <1>1, <1>6, <1>9, <2>1, <3>1 DEF ReaderInv
      <3> QED
        BY <1>2, <1>6, <2>1, <3>2 DEF AnswersStay
    <2>2. CASE listKey(t, e) # cacheKey(i)
      BY <1>2, <1>6, <1>9, <2>2 DEF CacheInv, AnswersStay
    <2> QED
      BY <2>1, <2>2
  <1>10. CacheInv'
    BY <1>7, <1>8, <1>9 DEF CacheInv, rowKey, listKey, RowAnswer, ListAnswer
  <1> QED
    BY <1>4, <1>10

\* An invalidation removes what its request owes the cache.
LEMMA InvalidatedKeys ==
    ASSUME NEW i, handler[i].keys \subseteq used, NEW k \in handler[i].keys
    PROVE  rowKey(k) \in Invalidated(i) /\ listKey(k[1], k[2]) \in Invalidated(i)
  <1> DEFINE c == rowKey(k)
  <1>1. k \in used /\ c[1] = "row" /\ c[2] = k
    BY DEF rowKey
  <1>2. listKey(k[1], k[2]) \in {listKey(x[1], x[2]) : x \in handler[i].keys}
    OBVIOUS
  <1>3. c \in DOMAIN cache \cup {rowKey(x) : x \in used}
    BY <1>1
  <1>4. c \in {rowKey(x) : x \in handler[i].keys}
    OBVIOUS
  <1> HIDE DEF c
  <1>5. c \in {y \in DOMAIN cache \cup {rowKey(x) : x \in used} :
                  y[1] = "row" /\ \E x \in handler[i].keys : y[2][2] = x[2] /\ y[2][1] = x[1]}
    BY <1>1, <1>3
  <1>6. c \in Invalidated(i) /\ listKey(k[1], k[2]) \in Invalidated(i)
    BY <1>2, <1>4, <1>5 DEF Invalidated
  <1> QED
    BY <1>6 DEF c

LEMMA InvalidateCache ==
    ASSUME CacheInv, ReaderInv, Goroutines, NEW i \in DOMAIN handler, Invalidate(i)
    PROVE  (CacheInv /\ ReaderInv)'
  <1>1. /\ handler[i].pc = "invalidate" /\ DOMAIN handler' = DOMAIN handler /\ handler'[i].pc = "done"
        /\ \A j \in DOMAIN handler \ {i} :
               /\ handler'[j].pc = handler[j].pc /\ handler'[j].req = handler[j].req
               /\ handler'[j].keys = handler[j].keys /\ handler'[j].got = handler[j].got
               /\ handler'[j].outrun = (handler[j].outrun \/
                      (handler[j].pc \in {"page", "fill"} /\ cacheKey(j) \in Invalidated(i)))
        /\ cache' = without(cache, Invalidated(i)) /\ late' = late \ Invalidated(i)
        /\ UNCHANGED <<db, used>>
    BY InvalidateMoves DEF At
  <1>2. handler[i].keys \subseteq used
    BY <1>1 DEF ReaderInv, UpdatePcs
  <1>3. ASSUME NEW c, Due(handler, c), c \notin Invalidated(i) PROVE Due(handler', c)
    <2>1. PICK j \in DOMAIN handler :
              /\ handler[j].pc \in UpdatePcs
              /\ \E k \in handler[j].keys : c \in {rowKey(k), listKey(k[1], k[2])}
      BY <1>3 DEF Due
    <2>2. j # i
      BY <1>2, <1>3, <2>1, InvalidatedKeys
    <2>3. j \in DOMAIN handler' /\ handler'[j].pc \in UpdatePcs /\ handler'[j].keys = handler[j].keys
      BY <1>1, <2>1, <2>2
    <2> QED
      BY <2>1, <2>3 DEF Due
  <1>4. /\ \A k, v : RowAnswer(db, handler, k, v) /\ rowKey(k) \notin Invalidated(i) =>
               RowAnswer(db', handler', k, v)
        /\ \A t, e, v : ListAnswer(db, handler, t, e, v) /\ listKey(t, e) \notin Invalidated(i) =>
               ListAnswer(db', handler', t, e, v)
    BY <1>1, <1>3 DEF RowAnswer, ListAnswer
  <1>5. /\ DOMAIN cache' = DOMAIN cache \ Invalidated(i)
        /\ \A c \in DOMAIN cache' : cache'[c] = cache[c] /\ (c \in late' <=> c \in late)
    BY <1>1 DEF without
  <1>6. \A c \in DOMAIN cache' : (\E k : c = rowKey(k)) \/ (\E t, e : c = listKey(t, e))
    BY <1>5 DEF CacheInv
  <1>7. ASSUME NEW k, rowKey(k) \in DOMAIN cache' \ late'
        PROVE  RowAnswer(db', handler', k, cache'[rowKey(k)])
    BY <1>4, <1>5, <1>7 DEF CacheInv
  <1>8. ASSUME NEW t, NEW e, listKey(t, e) \in DOMAIN cache' \ late'
        PROVE  ListAnswer(db', handler', t, e, cache'[listKey(t, e)])
    BY <1>4, <1>5, <1>8 DEF CacheInv
  <1>9. CacheInv'
    BY <1>6, <1>7, <1>8 DEF CacheInv, rowKey, listKey, RowAnswer, ListAnswer
  <1>10. ASSUME NEW j \in DOMAIN handler' PROVE Reading(db', handler', used', j)
    <2>1. CASE j = i
      BY <1>1, <2>1 DEF Reading, UpdatePcs
    <2>2. CASE j # i
      <3>1. /\ handler'[j].pc = handler[j].pc /\ handler'[j].req = handler[j].req
            /\ handler'[j].keys = handler[j].keys /\ handler'[j].got = handler[j].got
            /\ handler'[j].pc \in {"page", "fill"} /\ ~handler'[j].outrun =>
                   ~handler[j].outrun /\ cacheKey(j) \notin Invalidated(i)
        BY <1>1, <2>2
      <3>2. Reading(db, handler, used, j)
        BY <1>1, ReadingDef
      <3>3. /\ handler[j].req.op \in {"get"} => cacheKey(j) = rowKey(handler[j].req.key)
            /\ handler[j].req.op \in {"list"} =>
                   cacheKey(j) = listKey(handler[j].req.key[1], handler[j].req.key[2])
        BY DEF cacheKey, Is, Req
      <3>4. handler'[j].pc = "fill" /\ ~handler'[j].outrun /\ handler'[j].req.op \in {"get"} =>
                RowAnswer(db', handler', handler'[j].req.key, handler'[j].got)
        BY <1>4, <3>1, <3>2, <3>3 DEF Reading
      <3>5. handler'[j].pc \in {"page", "fill"} /\ ~handler'[j].outrun /\ handler'[j].req.op \in {"list"} =>
                ListAnswer(db', handler', handler'[j].req.key[1], handler'[j].req.key[2], handler'[j].got)
        BY <1>4, <3>1, <3>2, <3>3 DEF Reading
      <3> QED
        BY <1>1, <3>1, <3>2, <3>4, <3>5 DEF Reading
    <2> QED
      BY <2>1, <2>2
  <1> QED
    BY <1>9, <1>10, ReadingDef

\* Once no write is under way, a cached row or list is the store's answer,
\* unless a reader put it there that an invalidation had overtaken: the order
\* of store write and invalidation in the handlers never leaves a stale entry
\* of its own accord.
THEOREM CacheFollowsStore == Spec => []CacheFresh
  <1>1. Init => CacheInv /\ ReaderInv
    <2> SUFFICES ASSUME Init PROVE CacheInv /\ ReaderInv
      OBVIOUS
    <2>1. cache = << >> /\ \A i \in DOMAIN handler : handler[i].pc = "arrive"
      BY DEF Init
    <2>2. DOMAIN cache = {}
      BY <2>1
    <2> QED
      BY <2>1, <2>2 DEF CacheInv, ReaderInv, UpdatePcs
  <1>2. CacheInv /\ ReaderInv /\ Goroutines /\ WellFormed(db) /\ [Next]_vars => (CacheInv /\ ReaderInv)'
    <2> SUFFICES ASSUME CacheInv, ReaderInv, Goroutines, WellFormed(db), [Next]_vars
                 PROVE  (CacheInv /\ ReaderInv)'
      OBVIOUS
    <2>1. ASSUME NEW i \in DOMAIN handler, GraphCall(i) PROVE (CacheInv /\ ReaderInv)'
      <3>1. /\ Moves(i) /\ UNCHANGED <<db, cache, late, used>> /\ handler'[i].keys = handler[i].keys
            /\ \/ handler[i].pc \in UpdatePcs /\ handler'[i].pc \in UpdatePcs
               \/ handler[i].pc \in RebuildPcs /\ handler'[i].pc \in RebuildPcs \cup {"done"}
        BY <2>1 DEF GraphCall
      <3>2. /\ handler[i].pc \notin UpdatePcs \/ handler'[i].pc \in UpdatePcs
            /\ handler'[i].pc \notin {"page", "fill"}
            /\ handler'[i].pc \in UpdatePcs => handler[i].pc \in UpdatePcs
        BY <3>1 DEF UpdatePcs, RebuildPcs
      <3>3. handler'[i].pc \in UpdatePcs => handler'[i].keys \subseteq used'
        BY <3>1, <3>2 DEF ReaderInv
      <3> QED
        BY <3>1, <3>2, <3>3, QuietAnswers, SilentCache
    <2>2. ASSUME NEW i \in DOMAIN handler, Commits(i) PROVE (CacheInv /\ ReaderInv)'
      <3>1. /\ Moves(i) /\ UNCHANGED <<cache, late>> /\ used' = used \cup handler'[i].keys
            /\ handler'[i].pc \notin {"page", "fill"}
        BY <2>2 DEF Commits, UpdatePcs
      <3> QED
        BY <2>2, <3>1, CommitAnswers, SilentCache
    <2>3. ASSUME NEW i \in DOMAIN handler, GivesUp(i) \/ Check(i) \/ Hit(i) \/ Miss(i)
          PROVE  (CacheInv /\ ReaderInv)'
      <3>1. /\ Moves(i) /\ handler[i].pc \in {"arrive", "store", "read"}
            /\ handler'[i].pc \in {"done", "store", "read"}
            /\ UNCHANGED <<db, cache, late, used>>
        BY <2>3, CheckMoves, HitMoves, MissMoves DEF GivesUp, At
      <3> QED
        BY <3>1, QuietAnswers, SilentCache DEF UpdatePcs
    <2>4. ASSUME NEW c \in DOMAIN cache, Evict(c) PROVE (CacheInv /\ ReaderInv)'
      <3>1. /\ DOMAIN cache' = DOMAIN cache \ {c} /\ \A x \in DOMAIN cache' : cache'[x] = cache[x]
            /\ late' = late \ {c} /\ UNCHANGED <<db, handler, used>>
        BY <2>4 DEF Evict, without
      <3>2. CacheInv'
        BY <3>1 DEF CacheInv, rowKey, listKey, RowAnswer, ListAnswer
      <3>3. ReaderInv'
        BY <3>1, ReadingDef
      <3> QED
        BY <3>2, <3>3
    <2>5. CASE UNCHANGED vars
      <3>1. UNCHANGED <<db, handler, used, cache, late>>
        BY <2>5 DEF vars
      <3>2. ReaderInv'
        BY <3>1, ReadingDef
      <3>3. CacheInv'
        BY <3>1 DEF CacheInv, rowKey, listKey, RowAnswer, ListAnswer
      <3> QED
        BY <3>2, <3>3
    <2> QED
      BY <2>1, <2>2, <2>3, <2>4, <2>5, GraphCalls, Writes, ReadMoves, FindCache, CountCache,
         PageCache, FillCache, InvalidateCache DEF Next
  <1>3. CacheInv /\ Goroutines => CacheFresh
    <2> SUFFICES ASSUME CacheInv, Goroutines, ~Writing, NEW c \in DOMAIN cache \ late
                 PROVE  IF c[1] = "row" THEN Exists(db, Adapted, c[2]) /\ cache[c] = Row(c[2])
                        ELSE /\ cache[c].total = CountEntities(db, Adapted, c[2], c[3])
                             /\ \A r \in cache[c].rows : r \in List(db, Adapted, c[2], c[3])
      BY DEF CacheFresh
    <2>1. \A x : ~Due(handler, x)
      BY DEF Due, Writing, Goroutines, UpdatePcs
    <2>2. ASSUME NEW k, c = rowKey(k) PROVE Exists(db, Adapted, k) /\ cache[c] = Row(k)
      BY <2>1, <2>2 DEF CacheInv, RowAnswer, RowFresh, Has, RowOf, Row
    <2>3. ASSUME NEW t, NEW e, c = listKey(t, e)
          PROVE  /\ cache[c].total = CountEntities(db, Adapted, t, e)
                 /\ \A r \in cache[c].rows : r \in List(db, Adapted, t, e)
      BY <2>1, <2>3 DEF CacheInv, ListAnswer, ListFresh
    <2>4. CASE \E k : c = rowKey(k)
      <3>1. PICK k : c = rowKey(k)
        BY <2>4
      <3>2. c[1] = "row" /\ c[2] = k
        BY <3>1 DEF rowKey
      <3> QED
        BY <2>2, <3>1, <3>2
    <2>5. CASE \E t, e : c = listKey(t, e)
      <3>1. PICK t, e : c = listKey(t, e)
        BY <2>5
      <3>2. c[1] # "row" /\ c[2] = t /\ c[3] = e
        BY <3>1 DEF listKey
      <3> QED
        BY <2>3, <3>1, <3>2
    <2> QED
      BY <2>4, <2>5 DEF CacheInv
  <1> QED
    BY <1>1, <1>2, <1>3, EntitiesTypeCorrect, PTL DEF Spec

-----------------------------------------------------------------------------
(* What the store says of itself.                                          *)

IsKey(k) == k = <<k[1], k[2], k[3]>> /\ k[3] \in Nat

RefsOf(d, k) == ExtractEntityEdges(k, RowOf(d, k).data)
Source(x) == <<x.tenant, x.source[1], x.source[2]>>
Target(x) == <<x.tenant, x.target[1], x.target[2]>>

\* The tables hold rows where they belong, of documents with distinct targets.
TablesOK(d) ==
    /\ \A k \in DOMAIN d.entities : k[2] \notin Adapted
    /\ \A k \in DOMAIN d.adapted : k[2] \in Adapted
    /\ \A k : Has(d, k) => IsKey(k) /\ ~DuplicateTarget(RowOf(d, k).data)

\* Every edge is a REF of the document at its source.
EdgesSaid(d) == \A x \in d.edges : Has(d, Source(x)) /\ x \in RefsOf(d, Source(x))

\* Every REF is an edge, if its target was not deleted; where b, those of
\* adapted documents need not be.
RefsKept(d, D, b) ==
    \A k : Has(d, k) => \A x \in RefsOf(d, k) :
        x \in d.edges \/ Target(x) \in D \/ (b /\ k[2] \in Adapted)

\* The sequences are not behind any key that had a row.
SequencesAhead(d, U) ==
    /\ \A t, e : seqOf(d, t, e) \in Nat
    /\ \A k : Has(d, k) => k \in U
    /\ \A k \in U : k[3] \in Nat /\ k[3] <= seqOf(d, k[1], k[2])

StoreOK(d, U, D, b) ==
    WellFormed(d) /\ TablesOK(d) /\ EdgesSaid(d) /\ RefsKept(d, D, b) /\ SequencesAhead(d, U)

\* Storing data under k makes d into e.
Saves(d, e, k, data) ==
    /\ WellFormed(e)
    /\ IsKey(k) /\ ~DuplicateTarget(data)
    /\ DOMAIN e.entities \subseteq DOMAIN d.entities \cup {x \in {k} : x[2] \notin Adapted}
    /\ DOMAIN e.adapted \subseteq DOMAIN d.adapted \cup {x \in {k} : x[2] \in Adapted}
    /\ \A x : x # k => SameRow(d, e, x)
    /\ Has(e, k) /\ RowOf(e, k).data \in {data, columns(data)}
    /\ e.edges = {x \in d.edges : x.tenant # k[1] \/ x.source # <<k[2], k[3]>>}
                 \cup ExtractEntityEdges(k, data)
    /\ \A t, c : seqOf(e, t, c) \in Nat /\ seqOf(e, t, c) >= seqOf(d, t, c)
    /\ Has(d, k) \/ seqOf(e, k[1], k[2]) >= k[3]

\* The edges of a document name it.
LEMMA EdgeOf ==
    ASSUME NEW k, IsKey(k), NEW data, NEW x \in ExtractEntityEdges(k, data)
    PROVE  Source(x) = k /\ x.tenant = k[1] /\ x.source = <<k[2], k[3]>>
  BY DEF ExtractEntityEdges, Source, IsKey

\* A field with a REF is not null.
LEMMA ColumnsRefs ==
    ASSUME NEW k, NEW data
    PROVE  /\ ExtractEntityEdges(k, columns(data)) = ExtractEntityEdges(k, data)
           /\ ~DuplicateTarget(data) => ~DuplicateTarget(columns(data))
  <1> DEFINE c == columns(data)
  <1>1. \A f \in DOMAIN c : f \in DOMAIN data /\ c[f] = data[f]
    BY DEF columns
  <1>2. \A f \in DOMAIN data : data[f][1] = "ref" => f \in DOMAIN c
    BY DEF columns, Null
  <1> HIDE DEF c
  <1>3. ExtractRefs(c) = ExtractRefs(data) /\ \A f \in ExtractRefs(c) : c[f] = data[f]
    BY <1>1, <1>2 DEF ExtractRefs
  <1>4. ExtractEntityEdges(k, c) = ExtractEntityEdges(k, data)
    BY <1>3 DEF ExtractEntityEdges
  <1>5. DuplicateTarget(c) => DuplicateTarget(data)
    BY <1>3 DEF DuplicateTarget
  <1> QED
    BY <1>4, <1>5 DEF c

\* Storing a document keeps the store consistent.
LEMMA SavesKeep ==
    ASSUME NEW d, NEW e, NEW k, NEW data, NEW U, NEW D, NEW b,
           StoreOK(d, U, D, b), Saves(d, e, k, data)
    PROVE  StoreOK(e, U \cup {k}, D, b)
  <1> USE DEF StoreOK
  <1>1. /\ IsKey(k) /\ Has(e, k) /\ RefsOf(e, k) = ExtractEntityEdges(k, data)
        /\ ~DuplicateTarget(RowOf(e, k).data)
    BY ColumnsRefs DEF Saves, RefsOf
  <1>2. ASSUME NEW x, x # k PROVE SameRow(d, e, x) /\ (Has(d, x) => RefsOf(e, x) = RefsOf(d, x))
    BY <1>2 DEF Saves, SameRow, RefsOf
  <1>3. TablesOK(e)
    <2>1. /\ \A x \in DOMAIN e.entities : x[2] \notin Adapted
          /\ \A x \in DOMAIN e.adapted : x[2] \in Adapted
      BY DEF TablesOK, Saves
    <2>2. ASSUME NEW x, Has(e, x) PROVE IsKey(x) /\ ~DuplicateTarget(RowOf(e, x).data)
      BY <1>1, <1>2, <2>2 DEF TablesOK, SameRow
    <2> QED
      BY <2>1, <2>2 DEF TablesOK
  <1>4. EdgesSaid(e)
    <2> SUFFICES ASSUME NEW x \in e.edges PROVE Has(e, Source(x)) /\ x \in RefsOf(e, Source(x))
      BY DEF EdgesSaid
    <2>1. CASE x \in ExtractEntityEdges(k, data)
      BY <1>1, <2>1, EdgeOf
    <2>2. CASE x \in d.edges /\ (x.tenant # k[1] \/ x.source # <<k[2], k[3]>>)
      <3>1. Source(x) # k
        BY <1>1, <2>2 DEF EdgesSaid, Source, RefsOf, ExtractEntityEdges, IsKey
      <3> QED
        BY <1>2, <2>2, <3>1 DEF EdgesSaid, SameRow
    <2> QED
      BY <2>1, <2>2 DEF Saves
  <1>5. RefsKept(e, D, b)
    <2> SUFFICES ASSUME NEW y, Has(e, y), NEW x \in RefsOf(e, y)
                 PROVE  x \in e.edges \/ Target(x) \in D \/ (b /\ y[2] \in Adapted)
      BY DEF RefsKept
    <2>1. CASE y = k
      BY <1>1, <2>1 DEF Saves
    <2>2. CASE y # k
      <3>1. Has(d, y) /\ x \in RefsOf(d, y) /\ IsKey(y)
        BY <1>2, <2>2 DEF SameRow, TablesOK
      <3>2. Source(x) = y
        BY <3>1, EdgeOf DEF RefsOf
      <3>3. x.tenant # k[1] \/ x.source # <<k[2], k[3]>>
        BY <1>1, <2>2, <3>2 DEF Source, IsKey, RefsOf, ExtractEntityEdges
      <3> QED
        BY <3>1, <3>3 DEF RefsKept, Saves
    <2> QED
      BY <2>1, <2>2
  <1>6. SequencesAhead(e, U \cup {k})
    <2>1. \A x : Has(e, x) => x \in U \cup {k}
      BY <1>2 DEF SequencesAhead, SameRow
    <2>2. ASSUME NEW x \in U \cup {k} PROVE x[3] \in Nat /\ x[3] <= seqOf(e, x[1], x[2])
      <3>1. /\ seqOf(e, x[1], x[2]) \in Nat /\ seqOf(d, x[1], x[2]) \in Nat
            /\ seqOf(e, x[1], x[2]) >= seqOf(d, x[1], x[2])
        BY DEF Saves, SequencesAhead
      <3>2. CASE x \in U
        BY <3>1, <3>2 DEF SequencesAhead
      <3>3. CASE x = k /\ x \notin U
        BY <1>1, <3>1, <3>3 DEF Saves, SequencesAhead, IsKey
      <3> QED
        BY <3>2, <3>3
    <2> QED
      BY <2>1, <2>2 DEF SequencesAhead, Saves
  <1> QED
    BY <1>3, <1>4, <1>5, <1>6 DEF Saves

\* A row put into d after b has prepared the sequence for it.
LEMMA PutSaves ==
    ASSUME NEW d, WellFormed(d), NEW b, WellFormed(b),
           b.entities = d.entities, b.adapted = d.adapted, b.edges = d.edges,
           \A t, c : seqOf(b, t, c) \in Nat /\ seqOf(b, t, c) >= seqOf(d, t, c),
           NEW k, IsKey(k), Has(d, k) \/ seqOf(b, k[1], k[2]) >= k[3],
           NEW data, ~DuplicateTarget(data), NEW v \in Nat,
           NEW e, e = indexed(putRow(b, Adapted, k, data, v), k, data)
    PROVE  Saves(d, e, k, data)
  <1> DEFINE p == putRow(b, Adapted, k, data, v)
             row == IF k[2] \in Adapted THEN [data |-> columns(data), version |-> v]
                    ELSE [data |-> data, version |-> v]
  <1>1. /\ p = [entities |-> p.entities, adapted |-> p.adapted, sequences |-> b.sequences,
                edges |-> b.edges, fts |-> b.fts]
        /\ p.adapted = IF k[2] \in Adapted THEN with(b.adapted, k, row) ELSE b.adapted
        /\ p.entities = IF k[2] \in Adapted THEN b.entities ELSE with(b.entities, k, row)
    BY DEF putRow, WellFormed
  <1> HIDE DEF p
  <1>2. /\ e.entities = p.entities /\ e.adapted = p.adapted /\ e.sequences = p.sequences
        /\ e.edges = {x \in p.edges : x.tenant # k[1] \/ x.source # <<k[2], k[3]>>}
                     \cup ExtractEntityEdges(k, data)
    BY <1>1 DEF p, indexed, syncGraphEdges, indexForFTS
  <1>3. row.data \in {data, columns(data)}
    OBVIOUS
  <1> HIDE DEF row
  <1>4. RowOf(e, k) = row
    BY <1>1, <1>2 DEF RowOf, Get, rowsOf, with
  <1>5. /\ DOMAIN e.entities \subseteq DOMAIN d.entities \cup {x \in {k} : x[2] \notin Adapted}
        /\ DOMAIN e.adapted \subseteq DOMAIN d.adapted \cup {x \in {k} : x[2] \in Adapted}
    BY <1>1, <1>2 DEF with
  <1>6. \A t, c : seqOf(e, t, c) = seqOf(b, t, c)
    <2>1. e.sequences = b.sequences
      BY <1>1, <1>2
    <2> QED
      BY <2>1, Zenon DEF seqOf
  <1>7. /\ WellFormed(e) /\ Has(e, k)
        /\ \A x : x # k => SameRow(b, e, x)
    BY PutRow
  <1>8. \A x : SameRow(d, b, x)
    BY SameTables DEF WellFormed
  <1> QED
    BY <1>1, <1>2, <1>3, <1>4, <1>5, <1>6, <1>7, <1>8 DEF Saves, SameRow

LEMMA MaxOfTwo ==
    ASSUME NEW a \in Nat, NEW b \in Nat
    PROVE  Max({a, b}) \in Nat /\ Max({a, b}) >= a /\ Max({a, b}) >= b
  <1>1. \E x \in {a, b} : \A y \in {a, b} : x >= y
    OBVIOUS
  <1> QED
    BY <1>1 DEF Max

\* A sequence that makes room for k, and one that gives out a number.
LEMMA SequencesRise ==
    ASSUME NEW d, WellFormed(d), \A t, c : seqOf(d, t, c) \in Nat, NEW k, k[3] \in Nat, NEW t0, NEW c0
    PROVE  /\ \A b \in {bumpSequence(d, k), takeID(d, t0, c0)} :
                  /\ WellFormed(b)
                  /\ b.entities = d.entities /\ b.adapted = d.adapted /\ b.edges = d.edges
                  /\ \A t, c : seqOf(b, t, c) \in Nat /\ seqOf(b, t, c) >= seqOf(d, t, c)
           /\ seqOf(bumpSequence(d, k), k[1], k[2]) >= k[3]
           /\ seqOf(takeID(d, t0, c0), t0, c0) = nextID(d, t0, c0)
           /\ nextID(d, t0, c0) \in Nat
  <1>1. ASSUME NEW s, NEW n \in Nat, n >= seqOf(d, s[1], s[2]), s = <<s[1], s[2]>>,
               NEW b, b = [d EXCEPT !.sequences = with(@, s, n)]
        PROVE  /\ b.entities = d.entities /\ b.adapted = d.adapted /\ b.edges = d.edges
               /\ \A t, c : seqOf(b, t, c) \in Nat /\ seqOf(b, t, c) >= seqOf(d, t, c)
               /\ seqOf(b, s[1], s[2]) = n
    <2>1. /\ b.entities = d.entities /\ b.adapted = d.adapted /\ b.edges = d.edges
          /\ b.sequences = with(d.sequences, s, n)
      BY <1>1 DEF WellFormed
    <2>2. ASSUME NEW t, NEW c
          PROVE  seqOf(b, t, c) = IF <<t, c>> = s THEN n ELSE seqOf(d, t, c)
      BY <2>1 DEF seqOf, with
    <2>3. ASSUME NEW t, NEW c PROVE seqOf(b, t, c) \in Nat /\ seqOf(b, t, c) >= seqOf(d, t, c)
      <3>1. seqOf(d, t, c) \in Nat
        OBVIOUS
      <3>2. CASE <<t, c>> = s
        BY <1>1, <2>2, <3>2
      <3>3. CASE <<t, c>> # s
        BY <2>2, <3>1, <3>3
      <3> QED
        BY <3>2, <3>3
    <2> QED
      BY <1>1, <2>1, <2>2, <2>3
  <1>2. nextID(d, t0, c0) \in Nat /\ nextID(d, t0, c0) >= seqOf(d, t0, c0)
    BY DEF nextID
  <1> DEFINE s == <<k[1], k[2]>>
             n == IF s \in DOMAIN d.sequences THEN Max({d.sequences[s], k[3] + 2}) ELSE k[3] + 1
  <1>3. n \in Nat /\ n >= seqOf(d, k[1], k[2]) /\ n >= k[3]
    <2>1. CASE s \in DOMAIN d.sequences
      <3>1. d.sequences[s] = seqOf(d, k[1], k[2]) /\ d.sequences[s] \in Nat /\ k[3] + 2 \in Nat
        BY <2>1 DEF seqOf
      <3>2. n = Max({d.sequences[s], k[3] + 2})
        BY <2>1
      <3> QED
        BY <3>1, <3>2, MaxOfTwo
    <2>2. CASE s \notin DOMAIN d.sequences
      BY <2>2 DEF seqOf
    <2> QED
      BY <2>1, <2>2
  <1>4. bumpSequence(d, k) = [d EXCEPT !.sequences = with(@, s, n)]
    BY DEF bumpSequence
  <1>5. takeID(d, t0, c0) = [d EXCEPT !.sequences = with(@, <<t0, c0>>, nextID(d, t0, c0))]
    BY DEF takeID
  <1>6. WellFormed(bumpSequence(d, k)) /\ WellFormed(takeID(d, t0, c0))
    BY Sequences
  <1> HIDE DEF n
  <1>7. s = <<s[1], s[2]>> /\ s[1] = k[1] /\ s[2] = k[2]
    OBVIOUS
  <1> HIDE DEF s
  <1>8. LET b == bumpSequence(d, k)
        IN  /\ b.entities = d.entities /\ b.adapted = d.adapted /\ b.edges = d.edges
            /\ \A t, c : seqOf(b, t, c) \in Nat /\ seqOf(b, t, c) >= seqOf(d, t, c)
            /\ seqOf(b, k[1], k[2]) = n
    BY <1>1, <1>3, <1>4, <1>7
  <1>9. LET b == takeID(d, t0, c0)
        IN  /\ b.entities = d.entities /\ b.adapted = d.adapted /\ b.edges = d.edges
            /\ \A t, c : seqOf(b, t, c) \in Nat /\ seqOf(b, t, c) >= seqOf(d, t, c)
            /\ seqOf(b, t0, c0) = nextID(d, t0, c0)
    <2> DEFINE z == <<t0, c0>>
    <2>1. z = <<z[1], z[2]>> /\ z[1] = t0 /\ z[2] = c0
      OBVIOUS
    <2>2. takeID(d, t0, c0) = [d EXCEPT !.sequences = with(@, z, nextID(d, t0, c0))]
      BY <1>5
    <2> HIDE DEF z
    <2> QED
      BY <1>1, <1>2, <2>1, <2>2
  <1> QED
    BY <1>2, <1>3, <1>6, <1>8, <1>9

-----------------------------------------------------------------------------
(* The methods keep the store consistent.                                  *)

LEMMA UpdateSaves ==
    ASSUME NEW d, WellFormed(d), \A t, c : seqOf(d, t, c) \in Nat, NEW k, IsKey(k), NEW data, NEW v,
           NEW w, w = updateInner(d, Adapted, k, data, v), Succeeds(w)
    PROVE  Saves(d, w.db, k, data)
  <1> DEFINE u == RowOf(d, k).version
  <1>1. Has(d, k)
    BY UpdateWrites
  <1>2. ~DuplicateTarget(data) /\ w.db = indexed(putRow(d, Adapted, k, data, u + 1), k, data)
    BY <1>1 DEF updateInner, reply, Has, RowOf, Succeeds
  <1>3. u + 1 \in Nat
    BY <1>1 DEF WellFormed
  <1> HIDE DEF u
  <1>4. \A t, c : seqOf(d, t, c) \in Nat /\ seqOf(d, t, c) >= seqOf(d, t, c)
    OBVIOUS
  <1> QED
    BY <1>1, <1>2, <1>3, <1>4, PutSaves

\* A document stored under a key that had none.
LEMMA InsertSaves ==
    ASSUME NEW d, WellFormed(d), \A t, c : seqOf(d, t, c) \in Nat, NEW k, IsKey(k),
           NEW data, ~DuplicateTarget(data),
           NEW e, e = indexed(putRow(bumpSequence(d, k), Adapted, k, data, 1), k, data)
    PROVE  Saves(d, e, k, data)
  <1>1. PICK b : b = bumpSequence(d, k)
    OBVIOUS
  <1>2. /\ WellFormed(b) /\ b.entities = d.entities /\ b.adapted = d.adapted /\ b.edges = d.edges
        /\ \A t, c : seqOf(b, t, c) \in Nat /\ seqOf(b, t, c) >= seqOf(d, t, c)
        /\ seqOf(b, k[1], k[2]) >= k[3]
    BY <1>1, SequencesRise DEF IsKey
  <1>3. e = indexed(putRow(b, Adapted, k, data, 1), k, data)
    BY <1>1
  <1> QED
    BY <1>2, <1>3, PutSaves

LEMMA CreateSaves ==
    ASSUME NEW d, WellFormed(d), \A t, c : seqOf(d, t, c) \in Nat, NEW t0, NEW c0, NEW data,
           NEW w, w = createInner(d, Adapted, t0, c0, data), Succeeds(w)
    PROVE  Saves(d, w.db, <<t0, c0, w.id>>, data)
  <1>1. PICK i, b : i = nextID(d, t0, c0) /\ b = takeID(d, t0, c0)
    OBVIOUS
  <1>2. PICK k : k = <<t0, c0, i>>
    OBVIOUS
  <1>3. PICK e, n : e = indexed(putRow(b, Adapted, k, data, 1), k, data) /\ n = k[3]
    OBVIOUS
  <1>4. w = IF Has(b, k) THEN reply(d, "insert failed", 0)
            ELSE IF DuplicateTarget(data) THEN reply(d, "ErrDuplicateEdgeTarget", 0)
            ELSE reply(e, "", n)
    BY <1>1, <1>2, <1>3 DEF createInner, Has
  <1>5. ~DuplicateTarget(data) /\ w.db = e /\ w.id = n
    <2>1. PICK x : x = w
      OBVIOUS
    <2>2. /\ Succeeds(x)
          /\ x = IF Has(b, k) THEN reply(d, "insert failed", 0)
                 ELSE IF DuplicateTarget(data) THEN reply(d, "ErrDuplicateEdgeTarget", 0)
                 ELSE reply(e, "", n)
      BY <1>4, <2>1, Zenon
    <2>3. ~DuplicateTarget(data) /\ x.db = e /\ x.id = n
      BY <2>2, Zenon DEF reply, Succeeds
    <2> QED
      BY <2>1, <2>3
  <1>6. /\ WellFormed(b) /\ b.entities = d.entities /\ b.adapted = d.adapted /\ b.edges = d.edges
        /\ \A t, c : seqOf(b, t, c) \in Nat /\ seqOf(b, t, c) >= seqOf(d, t, c)
        /\ seqOf(b, t0, c0) = i /\ i \in Nat
    <2>1. PICK x : x = <<t0, c0, 0>>
      OBVIOUS
    <2>2. x[3] \in Nat
      BY <2>1
    <2> QED
      BY <1>1, <2>2, SequencesRise
  <1>7. IsKey(k) /\ seqOf(b, k[1], k[2]) >= k[3] /\ <<t0, c0, w.id>> = k
    BY <1>2, <1>3, <1>5, <1>6 DEF IsKey
  <1> QED
    BY <1>3, <1>5, <1>6, <1>7, PutSaves

LEMMA SaveSaves ==
    ASSUME NEW d, WellFormed(d), \A t, c : seqOf(d, t, c) \in Nat, NEW k, IsKey(k), NEW data, NEW v,
           NEW w, w = saveInner(d, Adapted, k, data, v), Succeeds(w)
    PROVE  Saves(d, w.db, k, data)
  <1>1. CASE Has(d, k)
    <2>1. PICK u : u = updateInner(d, Adapted, k, data, v)
      OBVIOUS
    <2>2. Succeeds(u) /\ w.db = [u.db EXCEPT !.fts = d.fts]
      BY <1>1, <2>1 DEF saveInner, reply, Has, Succeeds
    <2>3. Saves(d, u.db, k, data)
      BY <2>1, <2>2, UpdateSaves
    <2>4. PICK e : e = w.db
      OBVIOUS
    <2>5. PICK x : x = u.db
      OBVIOUS
    <2>6. /\ e.entities = x.entities /\ e.adapted = x.adapted /\ e.edges = x.edges
          /\ e.sequences = x.sequences /\ WellFormed(x)
          /\ e = [entities |-> e.entities, adapted |-> e.adapted, sequences |-> e.sequences,
                  edges |-> e.edges, fts |-> e.fts]
      BY <2>2, <2>3, <2>4, <2>5 DEF Saves, WellFormed
    <2>7. WellFormed(e) /\ \A y : SameRow(x, e, y)
      BY <2>6, SameTables
    <2>8. \A t, c : seqOf(e, t, c) = seqOf(x, t, c)
      BY <2>6, Zenon DEF seqOf
    <2>9. Saves(d, x, k, data)
      BY <2>3, <2>5
    <2>10. Saves(d, e, k, data)
      BY <2>6, <2>7, <2>8, <2>9 DEF Saves, SameRow
    <2> QED
      BY <2>4, <2>10
  <1>2. CASE ~Has(d, k)
    <2>1. /\ ~DuplicateTarget(data)
          /\ w.db = indexed(putRow(bumpSequence(d, k), Adapted, k, data, 1), k, data)
      BY <1>2 DEF saveInner, reply, Has, Succeeds
    <2> QED
      BY <2>1, InsertSaves
  <1> QED
    BY <1>1, <1>2

\* What Create, Update, Patch and Save leave behind.
LEMMA WriteKeeps ==
    ASSUME NEW d, NEW U, NEW D, NEW b, StoreOK(d, U, D, b), NEW k, IsKey(k), NEW data, NEW v, NEW w,
           Succeeds(w),
           \/ w = updateInner(d, Adapted, k, data, v)
           \/ w = saveInner(d, Adapted, k, data, v)
           \/ \E gone : \E valid \in BOOLEAN : w = patchInner(d, Adapted, k, data, gone, v, valid)
    PROVE  StoreOK(w.db, U \cup {k}, D, b)
  <1>1. WellFormed(d) /\ \A t, c : seqOf(d, t, c) \in Nat
    BY DEF StoreOK, SequencesAhead
  <1>2. ASSUME NEW gone, NEW valid \in BOOLEAN, w = patchInner(d, Adapted, k, data, gone, v, valid)
        PROVE  \E x : Saves(d, w.db, k, x)
    <2>1. PICK x : x = merged(d, Adapted, k, data, gone)
      OBVIOUS
    <2>2. w = updateInner(d, Adapted, k, x, v)
      BY <1>2, <2>1 DEF patchInner, reply, Succeeds
    <2> QED
      BY <1>1, <2>2, UpdateSaves
  <1>3. \E x : Saves(d, w.db, k, x)
    BY <1>1, <1>2, UpdateSaves, SaveSaves
  <1> QED
    BY <1>3, SavesKeep

LEMMA CreateKeeps ==
    ASSUME NEW d, NEW U, NEW D, NEW b, StoreOK(d, U, D, b), NEW t, NEW c, NEW data,
           NEW w, w = createInner(d, Adapted, t, c, data), Succeeds(w)
    PROVE  StoreOK(w.db, U \cup {<<t, c, w.id>>}, D, b)
  <1>1. WellFormed(d) /\ \A y, z : seqOf(d, y, z) \in Nat
    BY DEF StoreOK, SequencesAhead
  <1>2. Saves(d, w.db, <<t, c, w.id>>, data)
    BY <1>1, CreateSaves
  <1> QED
    BY <1>2, SavesKeep

LEMMA CommitKeeps ==
    ASSUME NEW d, NEW U, NEW D, NEW b, StoreOK(d, U, D, b), NEW k, IsKey(k), NEW data, NEW v, NEW c,
           NEW id \in Nat, NEW appended,
           NEW w, w = commitInner(d, Adapted, k, data, v, c, id, appended), Succeeds(w)
    PROVE  StoreOK(w.db, U \cup {k, <<k[1], c, w.id>>}, D, b)
  <1>1. PICK s : s = saveInner(d, Adapted, k, data, v)
    OBVIOUS
  <1>2. PICK a : a = createInTx(s.db, Adapted, k[1], c, id, appended)
    OBVIOUS
  <1>3. Succeeds(s) /\ w = a
    BY <1>1, <1>2 DEF commitInner, reply, Succeeds
  <1>4. StoreOK(s.db, U \cup {k}, D, b)
    BY <1>1, <1>3, WriteKeeps
  <1>5. StoreOK(a.db, (U \cup {k}) \cup {<<k[1], c, a.id>>}, D, b)
    <2>1. CASE id = 0
      <3>1. a = createInner(s.db, Adapted, k[1], c, appended)
        BY <1>2, <2>1 DEF createInTx
      <3> QED
        BY <1>3, <1>4, <3>1, CreateKeeps
    <2>2. CASE id # 0
      <3>1. PICK x, e : /\ x = <<k[1], c, id>>
                        /\ e = indexed(putRow(bumpSequence(s.db, x), Adapted, x, appended, 1), x, appended)
        OBVIOUS
      <3>2. a = IF Has(s.db, x) THEN reply(s.db, "ErrAlreadyExists", 0)
                ELSE IF DuplicateTarget(appended) THEN reply(s.db, "ErrDuplicateEdgeTarget", 0)
                ELSE reply(e, "", id)
        BY <1>2, <2>2, <3>1 DEF createInTx, Has
      <3>3. a.id = id /\ a.db = e /\ ~DuplicateTarget(appended)
        <4>1. Succeeds(a)
          BY <1>3
        <4> QED
          BY <3>2, <4>1, Zenon DEF reply, Succeeds
      <3>4. IsKey(x) /\ x = <<k[1], c, a.id>>
        BY <3>1, <3>3 DEF IsKey
      <3>5. Saves(s.db, e, x, appended)
        BY <1>4, <3>1, <3>3, <3>4, InsertSaves DEF StoreOK, SequencesAhead
      <3> QED
        BY <1>4, <3>3, <3>4, <3>5, SavesKeep
    <2> QED
      BY <2>1, <2>2
  <1>6. (U \cup {k}) \cup {<<k[1], c, a.id>>} = U \cup {k, <<k[1], c, a.id>>}
    OBVIOUS
  <1> QED
    BY <1>3, <1>5, <1>6

LEMMA DeleteKeeps ==
    ASSUME NEW d, NEW U, NEW D, NEW b, StoreOK(d, U, D, b), NEW k \in U, IsKey(k)
    PROVE  StoreOK(deleteInner(d, Adapted, k).db, U \cup {k}, D \cup {k}, b)
  <1>1. PICK e : e = deleteInner(d, Adapted, k).db
    OBVIOUS
  <1>2. U \cup {k} = U
    OBVIOUS
  <1>3. CASE ~Has(d, k)
    <2>1. e = d
      BY <1>1, <1>3 DEF deleteInner, reply, Has
    <2>2. RefsKept(d, D \cup {k}, b)
      BY DEF StoreOK, RefsKept
    <2> QED
      BY <1>1, <1>2, <2>1, <2>2 DEF StoreOK
  <1>4. CASE Has(d, k)
    <2>1. PICK n : n = <<k[2], k[3]>>
      OBVIOUS
    <2>2. /\ e.adapted = IF k[2] \in Adapted THEN without(d.adapted, {k}) ELSE d.adapted
          /\ e.entities = IF k[2] \in Adapted THEN d.entities ELSE without(d.entities, {k})
          /\ e.edges = {x \in d.edges : x.tenant # k[1] \/ n \notin {x.source, x.target}}
          /\ e.sequences = d.sequences
      BY <1>1, <1>4, <2>1 DEF deleteInner, reply, Has, StoreOK, WellFormed
    <2>3. WellFormed(e) /\ \A x : x # k => SameRow(d, e, x)
      BY <1>1, DeleteRemoves DEF StoreOK
    <2>4. ~Has(e, k)
      BY <2>2 DEF Has, Exists, rowsOf, without
    <2>5. \A x : Has(e, x) => x # k /\ Has(d, x) /\ RowOf(e, x) = RowOf(d, x)
      BY <2>3, <2>4 DEF SameRow
    <2>6. TablesOK(e)
      BY <2>2, <2>5 DEF StoreOK, TablesOK, without
    <2>7. EdgesSaid(e)
      <3> SUFFICES ASSUME NEW x \in e.edges PROVE Has(e, Source(x)) /\ x \in RefsOf(e, Source(x))
        BY DEF EdgesSaid
      <3>1. x \in d.edges /\ Has(d, Source(x)) /\ x \in RefsOf(d, Source(x))
        BY <2>2 DEF StoreOK, EdgesSaid
      <3>2. Source(x) # k
        <4>1. IsKey(Source(x))
          BY <3>1 DEF StoreOK, TablesOK
        <4>2. x.tenant = Source(x)[1] /\ x.source = <<Source(x)[2], Source(x)[3]>>
          BY <3>1, <4>1, EdgeOf DEF RefsOf
        <4> QED
          BY <2>1, <2>2, <4>2
      <3>3. SameRow(d, e, Source(x))
        BY <2>3, <3>2
      <3> QED
        BY <3>1, <3>3 DEF SameRow, RefsOf
    <2>8. RefsKept(e, D \cup {k}, b)
      <3> SUFFICES ASSUME NEW y, Has(e, y), NEW x \in RefsOf(e, y)
                   PROVE  x \in e.edges \/ Target(x) \in D \cup {k} \/ (b /\ y[2] \in Adapted)
        BY DEF RefsKept
      <3>1. y # k /\ Has(d, y) /\ x \in RefsOf(d, y) /\ IsKey(y)
        BY <2>5 DEF RefsOf, StoreOK, TablesOK
      <3>2. Source(x) = y /\ x.tenant = y[1] /\ x.source = <<y[2], y[3]>>
        BY <3>1, EdgeOf DEF RefsOf
      <3>3. CASE x \in d.edges /\ x \notin e.edges
        <4>1. x.tenant = k[1] /\ n \in {x.source, x.target}
          BY <2>2, <3>3
        <4>2. n # x.source
          BY <2>1, <3>1, <3>2, <4>1 DEF IsKey
        <4>3. x.target = <<k[2], k[3]>>
          BY <2>1, <4>1, <4>2
        <4>4. Target(x) = k
          BY <4>1, <4>3 DEF Target, IsKey
        <4> QED
          BY <4>4
      <3> QED
        BY <3>1, <3>3 DEF StoreOK, RefsKept
    <2>9. SequencesAhead(e, U)
      <3>1. \A t, c : seqOf(e, t, c) = seqOf(d, t, c)
        BY <2>2, Zenon DEF seqOf
      <3> QED
        BY <2>5, <3>1 DEF StoreOK, SequencesAhead
    <2> QED
      BY <1>1, <1>2, <2>3, <2>6, <2>7, <2>8, <2>9 DEF StoreOK
  <1> QED
    BY <1>3, <1>4

\* A rebuild takes the edges of the blob table.
LEMMA RebuildKeeps ==
    ASSUME NEW d, NEW U, NEW D, NEW b, StoreOK(d, U, D, b), NEW t
    PROVE  StoreOK(RebuildGraph(d, t), U, D, TRUE)
  <1>1. PICK e : e = RebuildGraph(d, t)
    OBVIOUS
  <1>2. PICK B : B = blobEdges(d, t)
    OBVIOUS
  <1>3. e = [d EXCEPT !.edges = {x \in d.edges : x.tenant # t} \cup B]
    BY <1>1, <1>2 DEF RebuildGraph
  <1>4. /\ e.entities = d.entities /\ e.adapted = d.adapted /\ e.sequences = d.sequences
        /\ e.edges = {x \in d.edges : x.tenant # t} \cup B
        /\ e = [entities |-> e.entities, adapted |-> e.adapted, sequences |-> e.sequences,
                edges |-> e.edges, fts |-> e.fts]
    BY <1>3 DEF StoreOK, WellFormed
  <1>5. WellFormed(e) /\ \A k : SameRow(d, e, k)
    BY <1>4, SameTables DEF StoreOK
  <1>6. \A k : (Has(e, k) <=> Has(d, k)) /\ (Has(d, k) => RowOf(e, k) = RowOf(d, k))
    BY <1>5 DEF SameRow
  <1>7. \A k \in DOMAIN d.entities : Has(d, k) /\ d.entities[k] = RowOf(d, k)
    BY DEF StoreOK, TablesOK, Has, RowOf, Exists, Get, rowsOf
  <1>8. \A k : Has(d, k) /\ k[2] \notin Adapted => k \in DOMAIN d.entities
    BY DEF Has, Exists, rowsOf
  <1>9. TablesOK(e)
    BY <1>4, <1>6 DEF StoreOK, TablesOK
  <1>10. EdgesSaid(e)
    <2> SUFFICES ASSUME NEW x \in e.edges PROVE Has(d, Source(x)) /\ x \in RefsOf(d, Source(x))
      BY <1>6 DEF EdgesSaid, RefsOf
    <2>1. CASE x \in d.edges
      BY <2>1 DEF StoreOK, EdgesSaid
    <2>2. CASE x \in B
      <3>1. PICK k \in DOMAIN d.entities : x \in ExtractEntityEdges(k, d.entities[k].data)
        BY <1>2, <2>2 DEF blobEdges
      <3>2. Has(d, k) /\ x \in RefsOf(d, k) /\ IsKey(k)
        BY <1>7, <3>1 DEF RefsOf, StoreOK, TablesOK
      <3>3. Source(x) = k
        BY <3>2, EdgeOf DEF RefsOf
      <3> QED
        BY <3>2, <3>3
    <2> QED
      BY <1>4, <2>1, <2>2
  <1>11. RefsKept(e, D, TRUE)
    <2> SUFFICES ASSUME NEW k, Has(d, k), NEW x \in RefsOf(d, k), k[2] \notin Adapted
                 PROVE  x \in e.edges \/ Target(x) \in D
      BY <1>6 DEF RefsKept, RefsOf
    <2>1. IsKey(k) /\ ~DuplicateTarget(RowOf(d, k).data)
      BY DEF StoreOK, TablesOK
    <2>2. x.tenant = k[1]
      BY <2>1, EdgeOf DEF RefsOf
    <2>3. CASE k[1] = t
      <3>1. x \in B
        BY <1>2, <1>7, <1>8, <2>1, <2>3 DEF blobEdges, RefsOf
      <3> QED
        BY <1>4, <3>1
    <2>4. CASE k[1] # t
      BY <1>4, <2>2, <2>4 DEF StoreOK, RefsKept
    <2> QED
      BY <2>3, <2>4
  <1>12. SequencesAhead(e, U)
    <2>1. \A y, c : seqOf(e, y, c) = seqOf(d, y, c)
      BY <1>4, Zenon DEF seqOf
    <2> QED
      BY <1>6, <2>1 DEF StoreOK, SequencesAhead
  <1> QED
    BY <1>1, <1>5, <1>9, <1>10, <1>11, <1>12 DEF StoreOK

\* A finite set of natural numbers has a greatest one.
LEMMA FiniteMax ==
    ASSUME NEW S \in SUBSET Nat, IsFiniteSet(S), S # {}
    PROVE  Max(S) \in S /\ \A y \in S : Max(S) >= y
  <1> DEFINE Top(T) == \E m \in T : \A y \in T : m >= y
             F == {T \in SUBSET S : T # {} /\ ~Top(T)}
             C == {n \in Nat : \E T \in F : Cardinality(T) = n}
  <1>1. ASSUME NEW T \in F PROVE \E V \in F : Cardinality(V) < Cardinality(T)
    <2>1. IsFiniteSet(T) /\ T # {} /\ T \in SUBSET Nat /\ ~Top(T)
      BY FS_Subset
    <2>2. PICK x \in T : TRUE
      BY <2>1
    <2>3. PICK V : V = T \ {x}
      OBVIOUS
    <2>4. Cardinality(V) = Cardinality(T) - 1 /\ IsFiniteSet(V) /\ Cardinality(T) \in Nat
      BY <2>1, <2>2, <2>3, FS_RemoveElement, FS_CardinalityType
    <2>5. V # {}
      <3> SUFFICES ASSUME V = {} PROVE Top(T)
        BY <2>1
      <3>1. \A y \in T : x >= y
        BY <2>1, <2>2, <2>3
      <3> QED
        BY <2>2, <3>1
    <2>6. ~Top(V)
      <3> SUFFICES ASSUME NEW m \in V, \A y \in V : m >= y PROVE FALSE
        OBVIOUS
      <3>1. m \in T /\ m \in Nat /\ x \in Nat
        BY <2>1, <2>2, <2>3
      <3>2. CASE m >= x
        <4>1. \A y \in T : m >= y
          BY <2>3, <3>2
        <4> QED
          BY <2>1, <3>1, <4>1
      <3>3. CASE x >= m
        <4>1. \A y \in T : x >= y
          BY <2>1, <2>3, <3>1, <3>3
        <4> QED
          BY <2>1, <2>2, <4>1
      <3> QED
        BY <3>1, <3>2, <3>3
    <2>7. V \in SUBSET S
      BY <2>3
    <2>8. V \in F
      BY <2>5, <2>6, <2>7
    <2>9. Cardinality(V) < Cardinality(T)
      BY <2>4
    <2> HIDE DEF F
    <2> QED
      BY <2>8, <2>9
  <1>2. F = {}
    <2> SUFFICES ASSUME F # {} PROVE FALSE
      OBVIOUS
    <2> HIDE DEF Top
    <2>1. \A T \in F : Cardinality(T) \in Nat
      BY FS_Subset, FS_CardinalityType
    <2>2. C \subseteq Nat /\ C # {}
      BY <2>1
    <2>3. PICK n \in C : \A m \in C : ~(<<m, n>> \in OpToRel(<, Nat))
      <3> HIDE DEF C
      <3> QED
        BY <2>2, NatLessThanWellFounded, WFMin
    <2>4. PICK T \in F : Cardinality(T) = n
      OBVIOUS
    <2>5. PICK V \in F : Cardinality(V) < n
      BY <1>1, <2>4
    <2>6. Cardinality(V) \in C /\ Cardinality(V) \in Nat /\ n \in Nat
      BY <2>1, <2>5
    <2>7. <<Cardinality(V), n>> \in OpToRel(<, Nat)
      BY <2>5, <2>6 DEF OpToRel
    <2> QED
      BY <2>3, <2>6, <2>7
  <1>3. Top(S)
    BY <1>2
  <1> QED
    BY <1>3 DEF Max

\* A rebuild has been asked for; its requests are those of the menu, and a
\* delete on its way to the store has found the row.
Rebuilt(H) == \E i \in DOMAIN H : H[i].req.op \in {"rebuild"} /\ H[i].pc # "arrive"

RequestOK(h, U) ==
    /\ IsKey(h.req.key) /\ h.req.id \in Nat
    /\ h.pc = "store" /\ h.req.op \in {"delete"} => h.req.key \in U

StoreInv ==
    /\ StoreOK(db, used, deleted, Rebuilt(handler))
    /\ \A i \in DOMAIN handler : RequestOK(handler[i], used)

LEMMA Weaker ==
    ASSUME NEW d, NEW U, NEW D, NEW b, StoreOK(d, U, D, b), NEW c, b => c
    PROVE  StoreOK(d, U, D, c)
  BY DEF StoreOK, RefsKept

LEMMA RebuiltStays ==
    ASSUME NEW i \in DOMAIN handler, Moves(i), handler'[i].pc # "arrive"
    PROVE  /\ Rebuilt(handler) => Rebuilt(handler')
           /\ Is(i, {"rebuild"}) => Rebuilt(handler')
  <1>1. DOMAIN handler' = DOMAIN handler /\ \A j \in DOMAIN handler : j # i => handler'[j] = handler[j]
    BY DEF Moves
  <1>2. Is(i, {"rebuild"}) => Rebuilt(handler')
    BY <1>1 DEF Moves, Is, Req, Rebuilt
  <1>3. ASSUME NEW j \in DOMAIN handler, handler[j].req.op \in {"rebuild"}, handler[j].pc # "arrive"
        PROVE  Rebuilt(handler')
    <2>1. CASE j = i
      BY <1>2, <1>3, <2>1 DEF Is, Req
    <2>2. CASE j # i
      BY <1>1, <1>3, <2>2 DEF Rebuilt
    <2> QED
      BY <2>1, <2>2
  <1> QED
    BY <1>2, <1>3 DEF Rebuilt

\* What the answer of the store leaves to be shown.
LEMMA SettleKeeps ==
    ASSUME Goroutines, NEW i \in DOMAIN handler, NEW w, NEW K, NEW todo, NEW doc,
           Settle(i, w, K, todo, doc), NEW b, StoreOK(db, used, deleted, b),
           Succeeds(w) => StoreOK(w.db, used \cup K, deleted, b)
    PROVE  StoreOK(db', used', deleted', b)
  <1>1. CASE Succeeds(w)
    <2>1. Stored(i, w.db, K, todo, doc) /\ deleted' = deleted
      BY <1>1 DEF Settle, Succeeds
    <2>2. db' = w.db /\ used' = used \cup K
      BY <2>1, StoredMoves
    <2> QED
      BY <1>1, <2>1, <2>2
  <1>2. CASE ~Succeeds(w)
    <2>1. db' = db /\ used' = used /\ deleted' = deleted
      BY <1>2 DEF Settle, Succeeds, history
    <2> QED
      BY <2>1
  <1> QED
    BY <1>1, <1>2

\* Every write of the store, whatever the other requests have done since this
\* one was checked.
LEMMA StoreSteps ==
    ASSUME Goroutines, NEW i \in DOMAIN handler, NEW b, StoreOK(db, used, deleted, b),
           RequestOK(handler[i], used),
           \/ Create(i) \/ Update(i) \/ Upsert(i) \/ Patch(i) \/ Commit(i) \/ Delete(i)
           \/ RebuildStore(i),
           NEW c, b => c, Is(i, {"rebuild"}) => c
    PROVE  StoreOK(db', used', deleted', c)
  <1> DEFINE r == Req(i)
             key == r.key
  <1>0. IsKey(key) /\ r.id \in Nat
    BY DEF RequestOK, Req
  <1> SUFFICES StoreOK(db', used', deleted', b) \/ (Is(i, {"rebuild"}) /\ StoreOK(db', used', deleted', TRUE))
    <2>1. CASE StoreOK(db', used', deleted', b)
      BY <2>1, Weaker
    <2>2. CASE Is(i, {"rebuild"}) /\ StoreOK(db', used', deleted', TRUE)
      BY <2>2 DEF StoreOK, RefsKept
    <2> QED
      BY <2>1, <2>2
  <1>1. CASE Create(i)
    <2>1. PICK w : w = createInner(db, Adapted, key[1], key[2], r.data)
      OBVIOUS
    <2>2. PICK k : k = <<key[1], key[2], w.id>>
      OBVIOUS
    <2>3. Settle(i, w, {k}, <<k>>, r.data)
      BY <1>1, <2>1, <2>2 DEF Create
    <2>4. Succeeds(w) => StoreOK(w.db, used \cup {k}, deleted, b)
      BY <2>1, <2>2, CreateKeeps
    <2> QED
      BY <2>3, <2>4, SettleKeeps
  <1>2. CASE Update(i)
    <2>1. PICK w : w = updateInner(db, Adapted, key, r.data, r.version)
      OBVIOUS
    <2>2. Settle(i, w, {key}, <<key>>, r.data)
      BY <1>2, <2>1 DEF Update
    <2>3. Succeeds(w) => StoreOK(w.db, used \cup {key}, deleted, b)
      BY <1>0, <2>1, WriteKeeps
    <2> QED
      BY <2>2, <2>3, SettleKeeps
  <1>3. CASE Upsert(i)
    <2>1. PICK w : w = saveInner(db, Adapted, key, r.data, r.version)
      OBVIOUS
    <2>2. Settle(i, w, {key}, <<key>>, r.data)
      BY <1>3, <2>1 DEF Upsert
    <2>3. Succeeds(w) => StoreOK(w.db, used \cup {key}, deleted, b)
      BY <1>0, <2>1, WriteKeeps
    <2> QED
      BY <2>2, <2>3, SettleKeeps
  <1>4. CASE Patch(i)
    <2> DEFINE nulls == {f \in DOMAIN r.data : r.data[f] = Null}
               drops == IF config.PatchNullBehavior = "delete" THEN nulls ELSE {}
               valid == Exists(db, Adapted, key) =>
                            validateGraphEdges(graph, key, merged(db, Adapted, key, r.data, drops)) = ""
    <2>1. valid \in BOOLEAN
      BY Zenon
    <2>2. PICK w : w = patchInner(db, Adapted, key, r.data, drops, r.version, valid)
      OBVIOUS
    <2>3. Settle(i, w, {key}, <<key>>, r.data)
      BY <1>4, <2>2, Zenon DEF Patch
    <2> HIDE DEF valid, drops
    <2>4. Succeeds(w) => StoreOK(w.db, used \cup {key}, deleted, b)
      BY <1>0, <2>1, <2>2, WriteKeeps
    <2> QED
      BY <2>3, <2>4, SettleKeeps
  <1>5. CASE Commit(i)
    <2>1. PICK w : w = commitInner(db, Adapted, key, r.data, r.version, r.append, r.id, r.extra)
      OBVIOUS
    <2>2. PICK k : k = <<key[1], r.append, w.id>>
      OBVIOUS
    <2>3. Settle(i, w, {key, k}, <<key, k>>, r.data)
      BY <1>5, <2>1, <2>2 DEF Commit
    <2>4. Succeeds(w) => StoreOK(w.db, used \cup {key, k}, deleted, b)
      BY <1>0, <2>1, <2>2, CommitKeeps
    <2> QED
      BY <2>3, <2>4, SettleKeeps
  <1>6. CASE Delete(i)
    <2>1. PICK e : e = deleteInner(db, Adapted, key).db
      OBVIOUS
    <2>2. At(i, "store") /\ Is(i, {"delete"})
      BY <1>6, Zenon DEF Delete
    <2>3. \/ Done(i) /\ UNCHANGED <<config, db, graph, cache, history>>
          \/ Stored(i, e, {key}, << >>, << >>) /\ deleted' = deleted \cup {key}
      <3>1. cascadeDelete(key).db = e
        BY <2>1 DEF cascadeDelete, deleteInner, reply
      <3> QED
        BY <1>6, <2>1, <3>1, Zenon DEF Delete
    <2>4. key \in used
      BY <2>2 DEF RequestOK, At, Is, Req
    <2>5. StoreOK(e, used \cup {key}, deleted \cup {key}, b)
      BY <1>0, <2>1, <2>4, DeleteKeeps
    <2>6. CASE Done(i) /\ UNCHANGED <<config, db, graph, cache, history>>
      BY <2>6 DEF history
    <2>7. CASE Stored(i, e, {key}, << >>, << >>) /\ deleted' = deleted \cup {key}
      <3>1. db' = e /\ used' = used \cup {key}
        BY <2>7, StoredMoves
      <3> QED
        BY <2>5, <2>7, <3>1
    <2> QED
      BY <2>3, <2>6, <2>7
  <1>7. CASE RebuildStore(i)
    <2>1. PICK d : d = RebuildGraph(db, key[1])
      OBVIOUS
    <2>2. Is(i, {"rebuild"}) /\ Stored(i, d, {}, << >>, << >>) /\ deleted' = deleted
      BY <1>7, <2>1 DEF RebuildStore
    <2>3. db' = d /\ used' = used
      <3>1. db' = d /\ used' = used \cup {}
        BY <2>2, StoredMoves
      <3> QED
        BY <3>1
    <2>4. StoreOK(d, used, deleted, TRUE)
      BY <2>1, RebuildKeeps
    <2> QED
      BY <2>2, <2>3, <2>4
  <1> QED
    BY <1>1, <1>2, <1>3, <1>4, <1>5, <1>6, <1>7

\* The documents that are stored first are consistent.
LEMMA StartConsistent ==
    ASSUME NEW b PROVE StoreOK(startDB, DOMAIN Start, {}, b)
  <1> DEFINE D == DOMAIN Start
             blob == {k \in D : k[2] \notin Adapted}
             seqs == {<<k[1], k[2]>> : k \in D}
             ids(s) == {k[3] : k \in {x \in D : <<x[1], x[2]>> = s}}
  <1>1. PICK A, B, S, E :
            /\ A = [k \in blob |-> stored(k)] /\ B = [k \in D \ blob |-> stored(k)]
            /\ S = [s \in seqs |-> Max(ids(s))]
            /\ E = UNION {ExtractEntityEdges(k, Start[k]) : k \in D}
    OBVIOUS
  <1>2. startDB = [entities |-> A, adapted |-> B, sequences |-> S, edges |-> E, fts |-> << >>]
    <2>1. startDB = [NewSQLiteStore EXCEPT !.entities = A, !.adapted = B, !.sequences = S, !.edges = E]
      BY <1>1, Zenon DEF startDB
    <2> HIDE DEF D, blob, seqs, ids
    <2> QED
      BY <2>1 DEF NewSQLiteStore
  <1>3. PICK d : d = startDB
    OBVIOUS
  <1>4. ASSUME NEW k \in D
        PROVE  IsKey(k) /\ ~DuplicateTarget(Start[k])
    BY StartAssumption DEF IsKey, IsDocumentKey
  <1>5. ASSUME NEW s \in seqs
        PROVE  Max(ids(s)) \in Nat /\ \A y \in ids(s) : Max(ids(s)) >= y
    <2>1. PICK T : T = {x \in D : <<x[1], x[2]>> = s}
      OBVIOUS
    <2>2. IsFiniteSet(T)
      BY <2>1, StartAssumption, FS_Subset
    <2>3. PICK f : f = [x \in T |-> x[3]]
      OBVIOUS
    <2>4. f \in Surjection(T, ids(s))
      BY <2>1, <2>3 DEF Surjection
    <2>5. IsFiniteSet(ids(s))
      <3> HIDE DEF ids
      <3> QED
        BY <2>2, <2>4, FS_Surjection
    <2>6. ids(s) \in SUBSET Nat
      BY <1>4 DEF IsKey
    <2>7. ids(s) # {}
      BY <1>5
    <2> HIDE DEF ids
    <2> QED
      BY <2>5, <2>6, <2>7, FiniteMax
  <1>6. \A k \in D : <<k[1], k[2]>> \in seqs /\ k[3] \in ids(<<k[1], k[2]>>)
    OBVIOUS
  <1>7. \A k : /\ Has(d, k) <=> k \in D
               /\ k \in D => RowOf(d, k) = stored(k)
    BY <1>1, <1>2, <1>3 DEF Has, RowOf, Exists, Get, rowsOf
  <1>8. \A k \in D : RowOf(d, k).data = Start[k] /\ RowOf(d, k).version = 1
    BY <1>7 DEF stored
  <1>9. /\ \A k \in DOMAIN d.entities : k[2] \notin Adapted
        /\ \A k \in DOMAIN d.adapted : k[2] \in Adapted
    BY <1>1, <1>2, <1>3
  <1>10. TablesOK(d)
    BY <1>4, <1>7, <1>8, <1>9 DEF TablesOK
  <1>11. \A k \in D : RefsOf(d, k) = ExtractEntityEdges(k, Start[k])
    BY <1>8 DEF RefsOf
  <1>12. d.edges = UNION {ExtractEntityEdges(k, Start[k]) : k \in D}
    BY <1>1, <1>2, <1>3
  <1>13. EdgesSaid(d)
    <2> SUFFICES ASSUME NEW x \in d.edges PROVE Has(d, Source(x)) /\ x \in RefsOf(d, Source(x))
      BY DEF EdgesSaid
    <2>1. PICK k \in D : x \in ExtractEntityEdges(k, Start[k])
      BY <1>12
    <2>2. Source(x) = k
      BY <1>4, <2>1, EdgeOf
    <2> QED
      BY <1>7, <1>11, <2>1, <2>2
  <1>14. RefsKept(d, {}, b)
    BY <1>7, <1>11, <1>12 DEF RefsKept
  <1>15. \A t, c : seqOf(d, t, c) = IF <<t, c>> \in seqs THEN Max(ids(<<t, c>>)) ELSE 0
    <2> HIDE DEF seqs, ids
    <2>1. d.sequences = S
      BY <1>2, <1>3
    <2> QED
      BY <1>1, <2>1 DEF seqOf
  <1>16. SequencesAhead(d, D)
    <2> HIDE DEF seqs, ids
    <2>1. ASSUME NEW t, NEW c PROVE seqOf(d, t, c) \in Nat
      <3>1. CASE <<t, c>> \in seqs
        <4>1. Max(ids(<<t, c>>)) \in Nat
          BY <1>5, <3>1, Zenon
        <4> QED
          BY <1>15, <3>1, <4>1, Zenon
      <3>2. CASE <<t, c>> \notin seqs
        <4>1. seqOf(d, t, c) = 0
          BY <1>15, <3>2, Zenon
        <4> QED
          BY <4>1
      <3> QED
        BY <3>1, <3>2
    <2>2. ASSUME NEW k \in D PROVE k[3] \in Nat /\ k[3] <= seqOf(d, k[1], k[2])
      <3>1. PICK s : s = <<k[1], k[2]>>
        OBVIOUS
      <3>2. s \in seqs /\ k[3] \in ids(s)
        BY <1>6, <3>1, Zenon
      <3>3. PICK m : m = Max(ids(s))
        OBVIOUS
      <3>4. m \in Nat /\ m >= k[3]
        BY <1>5, <3>2, <3>3, Zenon
      <3>5. seqOf(d, k[1], k[2]) = m
        BY <1>15, <3>1, <3>2, <3>3, Zenon
      <3>6. k[3] \in Nat
        BY <1>4 DEF IsKey
      <3> QED
        BY <3>4, <3>5, <3>6
    <2> QED
      BY <1>7, <2>1, <2>2 DEF SequencesAhead
  <1>17. WellFormed(d)
    <2>1. d = [entities |-> d.entities, adapted |-> d.adapted, sequences |-> d.sequences,
               edges |-> d.edges, fts |-> d.fts]
      BY <1>2, <1>3
    <2> QED
      BY <1>7, <1>8, <2>1 DEF WellFormed
  <1> HIDE DEF D, blob, seqs, ids
  <1> QED
    BY <1>3, <1>10, <1>13, <1>14, <1>16, <1>17 DEF StoreOK, D

\* A step that leaves the store alone.
LEMMA QuietStore ==
    ASSUME StoreInv, NEW i \in DOMAIN handler, Moves(i), handler'[i].pc \notin {"arrive", "store"},
           UNCHANGED <<db, used, deleted>>
    PROVE  StoreInv'
  <1>1. StoreOK(db', used', deleted', Rebuilt(handler'))
    BY RebuiltStays, Weaker DEF StoreInv
  <1>2. \A j \in DOMAIN handler' : RequestOK(handler'[j], used')
    BY DEF StoreInv, Moves, RequestOK
  <1> QED
    BY <1>1, <1>2 DEF StoreInv

\* The store is consistent at every step.
LEMMA StoreInvariant == Spec => []StoreInv
  <1>1. Init => StoreInv
    <2> SUFFICES ASSUME Init PROVE StoreInv
      OBVIOUS
    <2>1. db = startDB /\ used = DOMAIN Start /\ deleted = {}
      BY DEF Init
    <2>2. StoreOK(db, used, deleted, Rebuilt(handler))
      BY <2>1, StartConsistent
    <2>3. PICK menu \in Menus : handler = [i \in DOMAIN menu |->
                [pc |-> "arrive", req |-> menu[i], todo |-> << >>, doc |-> << >>, old |-> {},
                 new |-> {}, keys |-> {}, got |-> << >>, outrun |-> FALSE]]
      BY DEF Init
    <2>4. \A i \in DOMAIN handler : RequestOK(handler[i], used)
      BY <2>3, RequestsAssumption DEF RequestOK, IsKey, IsDocumentKey
    <2> QED
      BY <2>2, <2>4 DEF StoreInv
  <1>2. StoreInv /\ Goroutines /\ [Next]_vars => StoreInv'
    <2> SUFFICES ASSUME StoreInv, Goroutines, [Next]_vars PROVE StoreInv'
      OBVIOUS
    <2>1. ASSUME NEW i \in DOMAIN handler,
                 \/ Create(i) \/ Update(i) \/ Upsert(i) \/ Patch(i) \/ Commit(i) \/ Delete(i)
                 \/ RebuildStore(i)
          PROVE  StoreInv'
      <3>1. GivesUp(i) \/ Commits(i)
        BY <2>1, Writes DEF StoreInv, StoreOK
      <3>2. Moves(i) /\ handler'[i].pc \notin {"arrive", "store"} /\ used \subseteq used'
        BY <3>1 DEF GivesUp, Commits, UpdatePcs
      <3>3. Rebuilt(handler) => Rebuilt(handler')
        BY <3>2, RebuiltStays
      <3>4. Is(i, {"rebuild"}) => Rebuilt(handler')
        BY <3>2, RebuiltStays
      <3>5. StoreOK(db', used', deleted', Rebuilt(handler'))
        BY <2>1, <3>3, <3>4, StoreSteps DEF StoreInv
      <3>6. \A j \in DOMAIN handler' : RequestOK(handler'[j], used')
        BY <3>2 DEF StoreInv, Moves, RequestOK
      <3> QED
        BY <3>5, <3>6 DEF StoreInv
    <2>2. ASSUME NEW i \in DOMAIN handler, Check(i) PROVE StoreInv'
      <3>1. /\ Moves(i) /\ handler'[i].pc \in {"done", "store"} /\ UNCHANGED <<db, used, deleted>>
        BY <2>2, CheckMoves
      <3>2. handler'[i].pc = "store" /\ Is(i, {"delete"}) => Has(db, Req(i).key)
        <4> SUFFICES ASSUME handler'[i].pc = "store", Is(i, {"delete"}) PROVE Has(db, Req(i).key)
          OBVIOUS
        <4>1. ~Done(i)
          BY DoneMoves
        <4>2. ~Refused(Req(i))
          BY <2>2, <4>1 DEF Check
        <4> QED
          BY <4>2, Zenon DEF Refused, Is, Has
      <3>3. Has(db, Req(i).key) => Req(i).key \in used
        BY DEF StoreInv, StoreOK, SequencesAhead
      <3>4. StoreOK(db', used', deleted', Rebuilt(handler'))
        <4>1. Rebuilt(handler) => Rebuilt(handler')
          BY <3>1, RebuiltStays
        <4> QED
          BY <3>1, <4>1, Weaker DEF StoreInv
      <3>5. RequestOK(handler'[i], used')
        BY <3>1, <3>2, <3>3 DEF StoreInv, Moves, RequestOK, Req, Is
      <3>6. \A j \in DOMAIN handler' : RequestOK(handler'[j], used')
        BY <3>1, <3>5 DEF StoreInv, Moves
      <3> QED
        BY <3>4, <3>6 DEF StoreInv
    <2>3. ASSUME NEW i \in DOMAIN handler,
                 GraphCall(i) \/ GivesUp(i) \/ Hit(i) \/ Miss(i) \/ Count(i) \/ Page(i) \/ Fill(i) \/ Finds(i)
          PROVE  StoreInv'
      <3>1. Moves(i) /\ handler'[i].pc \notin {"arrive", "store"} /\ UNCHANGED <<db, used, deleted>>
        BY <2>3, HitMoves, MissMoves, CountMoves, PageMoves, FillMoves
           DEF GraphCall, GivesUp, Finds, UpdatePcs, RebuildPcs
      <3> QED
        BY <3>1, QuietStore
    <2>4. ASSUME NEW i \in DOMAIN handler, Invalidate(i) PROVE StoreInv'
      <3>1. /\ DOMAIN handler' = DOMAIN handler /\ UNCHANGED <<db, used, deleted>>
            /\ \A j \in DOMAIN handler :
                   /\ handler'[j].req = handler[j].req
                   /\ handler'[j].pc \in {handler[j].pc, "done"}
        BY <2>4, InvalidateMoves
      <3>2. Rebuilt(handler) => Rebuilt(handler')
        BY <3>1 DEF Rebuilt
      <3>3. StoreOK(db', used', deleted', Rebuilt(handler'))
        BY <3>1, <3>2, Weaker DEF StoreInv
      <3>4. \A j \in DOMAIN handler' : RequestOK(handler'[j], used')
        BY <3>1 DEF StoreInv, RequestOK
      <3> QED
        BY <3>3, <3>4 DEF StoreInv
    <2>5. CASE UNCHANGED <<db, handler, used, deleted>>
      BY <2>5 DEF StoreInv, Rebuilt
    <2> QED
      BY <2>1, <2>2, <2>3, <2>4, <2>5, GraphCalls, ReadMoves DEF Next, vars, Evict
  <1> QED
    BY <1>1, <1>2, EntitiesTypeCorrect, PTL DEF Spec

\* The edge table says what the documents say, and the sequences are ahead of
\* every number that was given out: server.go keeps the two in the transaction
\* of the row, whatever the order in which the requests reach the store.
THEOREM StoreStaysConsistent == Spec => []StoreConsistent
  <1>1. StoreInv => StoreConsistent
    <2> SUFFICES ASSUME StoreInv PROVE StoreConsistent
      OBVIOUS
    <2>1. \A k : k \in Rows <=> Has(db, k)
      BY DEF StoreInv, StoreOK, TablesOK, Rows, Has, Exists, rowsOf
    <2>2. \A k : ExtractEntityEdges(k, Row(k).data) = RefsOf(db, k)
      BY DEF RefsOf, Row, RowOf
    <2>3. db.edges \subseteq UNION {RefsOf(db, k) : k \in Rows}
      BY <2>1 DEF StoreInv, StoreOK, EdgesSaid
    <2>4. (\E i \in DOMAIN handler : Is(i, {"rebuild"}) /\ ~At(i, "arrive")) <=> Rebuilt(handler)
      BY DEF Rebuilt, Is, At, Req
    <2>5. \A k \in Rows : \A x \in RefsOf(db, k) :
             x \in db.edges \/ <<x.tenant, x.target[1], x.target[2]>> \in deleted
                            \/ (Rebuilt(handler) /\ k[2] \in Adapted)
      BY <2>1 DEF StoreInv, StoreOK, RefsKept, Target
    <2>6. \A k \in used : nextID(db, k[1], k[2]) > k[3]
      <3> SUFFICES ASSUME NEW k \in used PROVE nextID(db, k[1], k[2]) > k[3]
        OBVIOUS
      <3>1. seqOf(db, k[1], k[2]) \in Nat /\ k[3] \in Nat /\ k[3] <= seqOf(db, k[1], k[2])
        BY DEF StoreInv, StoreOK, SequencesAhead
      <3> QED
        BY <3>1 DEF nextID
    <2> QED
      BY <2>2, <2>3, <2>4, <2>5, <2>6 DEF StoreConsistent
  <1> QED
    BY <1>1, StoreInvariant, PTL
-----------------------------------------------------------------------------
(* The in-memory graph.                                                    *)

\* The ends of an edge of the edge table, in the graph.
From(x) == node(Source(x))
To(x)   == node(Target(x))
IsEdge(x) == x = [tenant |-> x.tenant, source |-> <<x.source[1], x.source[2]>>,
                  target |-> <<x.target[1], x.target[2]>>, rel |-> x.rel]
IsNode(n) == n = NodeID(n.tenant, n.entity, n.id)

\* The graph has the edge x.
Linked(g, x) == <<From(x), To(x)>> \in DOMAIN g.out /\ g.out[<<From(x), To(x)>>] = x.rel

IsGraph(g) == g = [f \in {"cycleDetection", "cycleCheckLimit", "typ", "out", "in", "index", "tenantNodes",
                           "edgeCount", "nodeCounters", "edgeCounters", "vodeCounters"} |-> g[f]]

\* The same edges, seen from both ends.
SameEdges(g, h) == h.out = g.out /\ h.in = g.in /\ h.cycleDetection = g.cycleDetection

\* A graph whose edges run within a tenant, between nodes it has, and that has
\* them from both ends.
GraphOK(g) ==
    /\ IsGraph(g)
    /\ g.cycleDetection # "error"
    /\ IsFiniteSet(DOMAIN g.out)
    /\ DOMAIN g.in = {<<e[2], e[1]>> : e \in DOMAIN g.out}
    /\ \A e \in DOMAIN g.out :
           /\ e = <<e[1], e[2]>> /\ IsNode(e[1]) /\ IsNode(e[2])
           /\ e[1].tenant = e[2].tenant
           /\ {e[1], e[2]} \subseteq Nodes(g)
    /\ \A n \in Nodes(g) : g.typ[n] \in {n.entity, NodeTypeVode}

LEMMA EmptyGraph ==
    ASSUME NEW g, GraphOK(g)
    PROVE  GraphOK(Clear(g)) /\ DOMAIN Clear(g).out = {}
  <1>1. IsFiniteSet({})
    BY FS_EmptySet
  <1>2. PICK c : c = Clear(g)
    OBVIOUS
  <1>3. \E t : c = newFlatGraph(t, g.cycleDetection, g.cycleCheckLimit)
    BY <1>2 DEF Clear
  <1>4. PICK nc : c = [cycleDetection |-> g.cycleDetection, cycleCheckLimit |-> g.cycleCheckLimit,
            typ |-> << >>, out |-> << >>, in |-> << >>, index |-> {}, tenantNodes |-> {},
            edgeCount |-> 0, nodeCounters |-> nc, edgeCounters |-> nc, vodeCounters |-> nc]
    BY <1>3 DEF newFlatGraph
  <1>5. DOMAIN c.out = {} /\ DOMAIN c.in = {} /\ DOMAIN c.typ = {}
    BY <1>4
  <1>6. DOMAIN c.in = {<<e[2], e[1]>> : e \in DOMAIN c.out}
    BY <1>5
  <1>7. c.cycleDetection # "error"
    BY <1>4 DEF GraphOK
  <1>8. IsGraph(c)
    BY <1>4 DEF IsGraph
  <1> QED
    BY <1>1, <1>2, <1>5, <1>6, <1>7, <1>8 DEF GraphOK, Nodes

\* Types of nodes do not matter to the edges.
LEMMA Retyped ==
    ASSUME NEW g, GraphOK(g), NEW h, IsGraph(h), SameEdges(g, h), Nodes(g) \subseteq Nodes(h),
           \A n \in Nodes(h) : h.typ[n] \in {n.entity, NodeTypeVode}
    PROVE  GraphOK(h)
  BY DEF GraphOK, SameEdges

\* The parts of addNodeLocked leave the edges alone.
LEMMA NodeParts ==
    ASSUME NEW g, IsGraph(g), NEW n
    PROVE  /\ LET h == created(g, n) IN IsGraph(h) /\ SameEdges(g, h) /\ h.typ = put(g.typ, n, "")
           /\ \A old, type : LET h == retyped(g, n, old, type)
                             IN  IsGraph(h) /\ SameEdges(g, h) /\ h.typ = put(g.typ, n, type)
           /\ \A by : LET h == countVode(g, n, by) IN IsGraph(h) /\ SameEdges(g, h) /\ h.typ = g.typ
  <1>1. LET h == created(g, n) IN IsGraph(h) /\ SameEdges(g, h) /\ h.typ = put(g.typ, n, "")
    BY DEF IsGraph, SameEdges, created
  <1>2. ASSUME NEW old, NEW type PROVE LET h == retyped(g, n, old, type)
                             IN  IsGraph(h) /\ SameEdges(g, h) /\ h.typ = put(g.typ, n, type)
    BY DEF IsGraph, SameEdges, retyped
  <1>3. ASSUME NEW by PROVE LET h == countVode(g, n, by) IN IsGraph(h) /\ SameEdges(g, h) /\ h.typ = g.typ
    BY DEF IsGraph, SameEdges, countVode
  <1> QED
    BY <1>1, <1>2, <1>3

LEMMA SameEdgesTwice ==
    ASSUME NEW g, NEW h, NEW k, SameEdges(g, h), SameEdges(h, k)
    PROVE  SameEdges(g, k)
  BY DEF SameEdges

\* A node that is added is created when it is new, and then has the type it
\* had or gets another one.
Made(g, n) == IF n \notin Nodes(g) THEN created(g, n) ELSE g
TypeIn(g, n) == IF n \notin Nodes(g) THEN "" ELSE g.typ[n]
Adds(g, n, type, a) ==
    LET old == TypeIn(g, n)
        typed == retyped(Made(g, n), n, old, type)
    IN  \/ /\ a.g = Made(g, n)
           /\ type \in {"", old} \/ old \notin {"", NodeTypeVode}
           /\ (type \in {"", old} \/ type = NodeTypeVode) => a.err = ""
        \/ /\ type \notin {"", old} /\ a.err = ""
           /\ \/ old = "" /\ type = NodeTypeVode /\ a.g = countVode(typed, n, 1)
              \/ old = "" /\ type # NodeTypeVode /\ a.g = typed
              \/ old = NodeTypeVode /\ a.g = countVode(typed, n, -1)

LEMMA NodeCases ==
    ASSUME NEW g, NEW n, NEW type
    PROVE  Adds(g, n, type, addNodeLocked(g, n, type))
  <1> DEFINE old == TypeIn(g, n)
             typed == retyped(Made(g, n), n, old, type)
             minus == countVode(typed, n, -1)
             plus == countVode(typed, n, 1)
             made == Made(g, n)
  <1>1. addNodeLocked(g, n, type) =
          IF type \in {"", old} THEN result(made, "")
          ELSE IF old = NodeTypeVode THEN result(minus, "")
          ELSE IF old # "" THEN result(made, IF type = NodeTypeVode THEN "" ELSE "ErrNodeTypeMismatch")
          ELSE result(IF type = NodeTypeVode THEN plus ELSE typed, "")
    BY DEF addNodeLocked, TypeIn, Made
  <1> HIDE DEF old, typed, minus, plus, made
  <1>2. \A x, e : result(x, e).g = x /\ result(x, e).err = e
    BY DEF result
  <1>3. CASE type \in {"", old}
    BY <1>1, <1>2, <1>3, Zenon DEF Adds, old, made
  <1>4. CASE type \notin {"", old} /\ old = NodeTypeVode
    <2>1. addNodeLocked(g, n, type) = result(minus, "")
      BY <1>1, <1>4, Zenon
    <2>2. addNodeLocked(g, n, type).g = minus /\ addNodeLocked(g, n, type).err = ""
      BY <1>2, <2>1, Zenon
    <2> QED
      BY <1>4, <2>2, Zenon DEF Adds, old, minus, typed, made
  <1>5. CASE type \notin {"", old} /\ old \notin {"", NodeTypeVode}
    <2>1. \E e : addNodeLocked(g, n, type) = result(made, e) /\ (type = NodeTypeVode => e = "")
      BY <1>1, <1>5, Zenon
    <2>2. addNodeLocked(g, n, type).g = made /\ (type = NodeTypeVode => addNodeLocked(g, n, type).err = "")
      BY <1>2, <2>1, Zenon
    <2> QED
      BY <1>5, <2>2, Zenon DEF Adds, old, made
  <1>6. CASE type \notin {"", old} /\ old # NodeTypeVode /\ old = ""
    <2>1. addNodeLocked(g, n, type) = result(IF type = NodeTypeVode THEN plus ELSE typed, "")
      BY <1>1, <1>6, Zenon
    <2>2. /\ addNodeLocked(g, n, type).g = IF type = NodeTypeVode THEN plus ELSE typed
          /\ addNodeLocked(g, n, type).err = ""
      BY <1>2, <2>1, ZenonT(60)
    <2> QED
      BY <1>6, <2>2, Zenon DEF Adds, old, plus, typed, made
  <1> QED
    BY <1>3, <1>4, <1>5, <1>6, Zenon

\* A node gets the type of its entity or is a placeholder, and is refused neither.
LEMMA AddNode ==
    ASSUME NEW g, GraphOK(g), NEW n, IsNode(n), NEW type \in {n.entity, NodeTypeVode}
    PROVE  LET a == addNodeLocked(g, n, type)
           IN  /\ GraphOK(a.g) /\ a.g.out = g.out /\ a.err = "" /\ Nodes(g) \subseteq Nodes(a.g)
               /\ n \in Nodes(a.g)
  <1> DEFINE old == TypeIn(g, n)
             made == Made(g, n)
             typed == retyped(made, n, old, type)
             minus == countVode(typed, n, -1)
             plus  == countVode(typed, n, 1)
             a == addNodeLocked(g, n, type)
  <1>1. \/ a.g = made /\ (type \in {"", old} \/ old \notin {"", NodeTypeVode})
           /\ (type \in {"", old} \/ type = NodeTypeVode => a.err = "")
        \/ a.g \in {plus, typed, minus} /\ a.err = ""
    <2>1. \/ /\ a.g = made
             /\ type \in {"", old} \/ old \notin {"", NodeTypeVode}
             /\ (type \in {"", old} \/ type = NodeTypeVode) => a.err = ""
          \/ /\ type \notin {"", old} /\ a.err = ""
             /\ \/ old = "" /\ type = NodeTypeVode /\ a.g = plus
                \/ old = "" /\ type # NodeTypeVode /\ a.g = typed
                \/ old = NodeTypeVode /\ a.g = minus
      <3>1. Adds(g, n, type, a)
        BY NodeCases, Zenon
      <3> QED
        BY <3>1, Zenon DEF Adds
    <2> HIDE DEF a, made, old, typed, plus, minus
    <2> QED
      BY <2>1, Zenon
  <1>2. (old = "" /\ n \notin Nodes(g)) \/ (old = g.typ[n] /\ old \in {n.entity, NodeTypeVode} /\ n \in Nodes(g))
    BY DEF GraphOK, TypeIn
  <1>3. /\ IsGraph(made) /\ SameEdges(g, made)
        /\ made.typ = IF n \in Nodes(g) THEN g.typ ELSE put(g.typ, n, "")
    <2>1. IsGraph(g) /\ SameEdges(g, g)
      BY DEF GraphOK, SameEdges
    <2> QED
      BY <2>1, NodeParts DEF Made
  <1> HIDE DEF made, old
  <1>4. IsGraph(typed) /\ SameEdges(made, typed) /\ typed.typ = put(made.typ, n, type)
    <2>1. \A o, t : IsGraph(retyped(made, n, o, t)) /\ SameEdges(made, retyped(made, n, o, t))
                   /\ retyped(made, n, o, t).typ = put(made.typ, n, t)
      BY <1>3, NodeParts
    <2> QED
      BY <2>1
  <1>5. IsGraph(typed) /\ SameEdges(g, typed) /\ typed.typ = put(g.typ, n, type)
    <2>1. put(made.typ, n, type) = put(g.typ, n, type)
      BY <1>3 DEF put
    <2> QED
      BY <1>3, <1>4, <2>1, SameEdgesTwice
  <1> HIDE DEF typed
  <1>6. ASSUME NEW by PROVE LET x == countVode(typed, n, by) IN
           IsGraph(x) /\ SameEdges(g, x) /\ x.typ = put(g.typ, n, type)
    <2>1. IsGraph(countVode(typed, n, by)) /\ SameEdges(typed, countVode(typed, n, by))
          /\ countVode(typed, n, by).typ = typed.typ
      BY <1>5, NodeParts
    <2> QED
      BY <1>5, <2>1, SameEdgesTwice
  <1>7. \A x \in {plus, typed, minus} : IsGraph(x) /\ SameEdges(g, x) /\ x.typ = put(g.typ, n, type)
    BY <1>5, <1>6
  <1> HIDE DEF minus, plus
  <1>8. ASSUME NEW x, IsGraph(x), SameEdges(g, x), NEW t \in {n.entity, NodeTypeVode}, x.typ = put(g.typ, n, t)
        PROVE  GraphOK(x) /\ x.out = g.out /\ Nodes(x) = Nodes(g) \cup {n}
    <2>1. Nodes(x) = Nodes(g) \cup {n} /\ \A m \in Nodes(x) : x.typ[m] = IF m = n THEN t ELSE g.typ[m]
      BY <1>8 DEF Nodes, put
    <2>2. \A m \in Nodes(x) : x.typ[m] \in {m.entity, NodeTypeVode}
      BY <2>1 DEF GraphOK
    <2>3. GraphOK(x)
      BY <1>8, <2>1, <2>2, Retyped
    <2> QED
      BY <1>8, <2>1, <2>3 DEF SameEdges
  <1>9. CASE a.g \in {plus, typed, minus} /\ a.err = ""
    <2>1. PICK x \in {plus, typed, minus} : a.g = x
      BY <1>9
    <2>2. GraphOK(x) /\ x.out = g.out /\ Nodes(x) = Nodes(g) \cup {n}
      BY <1>7, <1>8
    <2> QED
      BY <1>9, <2>1, <2>2
  <1>10. CASE /\ a.g = made /\ (type \in {"", old} \/ old \notin {"", NodeTypeVode})
              /\ (type \in {"", old} \/ type = NodeTypeVode => a.err = "")
    <2>1. CASE n \in Nodes(g)
      <3>1. made = g
        BY <2>1 DEF Made, made
      <3>2. type \in {"", old} \/ type = NodeTypeVode
        BY <1>2, <1>10, <2>1
      <3> QED
        BY <1>10, <2>1, <3>1, <3>2
    <2>2. CASE n \notin Nodes(g)
      <3>1. type = ""
        BY <1>2, <1>10, <2>2
      <3>2. GraphOK(made) /\ made.out = g.out /\ Nodes(made) = Nodes(g) \cup {n}
        BY <1>3, <1>8, <2>2, <3>1
      <3> QED
        BY <1>10, <3>1, <3>2
    <2> QED
      BY <2>1, <2>2
  <1> QED
    BY <1>1, <1>9, <1>10

\* h has one edge more than g, unless g has one between the two nodes.
WithEdge(g, h, n, m, rel) ==
    /\ \A e : e \in DOMAIN h.out <=> (e \in DOMAIN g.out \/ e = <<n, m>>)
    /\ \A e \in DOMAIN h.out : h.out[e] = IF e \in DOMAIN g.out THEN g.out[e] ELSE rel

\* h has the edges of g without that from n to m, and without those of n.
WithoutEdge(g, h, n, m) ==
    /\ \A e : e \in DOMAIN h.out <=> (e \in DOMAIN g.out /\ e # <<n, m>>)
    /\ \A e \in DOMAIN h.out : h.out[e] = g.out[e]
WithoutNode(g, h, n) ==
    /\ \A e : e \in DOMAIN h.out <=> (e \in DOMAIN g.out /\ n \notin {e[1], e[2]})
    /\ \A e \in DOMAIN h.out : h.out[e] = g.out[e]

Pairs(E) == \A e \in E : e = <<e[1], e[2]>>

\* The reversed edges.
LEMMA ReversedWith ==
    ASSUME NEW E, Pairs(E), NEW F, NEW n, NEW m, \A e : e \in F <=> (e \in E \/ e = <<n, m>>)
    PROVE  {<<e[2], e[1]>> : e \in F} = {<<e[2], e[1]>> : e \in E} \cup {<<m, n>>}
  <1>1. \E e \in F : <<m, n>> = <<e[2], e[1]>>
    <2>1. <<n, m>> \in F
      OBVIOUS
    <2>2. <<m, n>> = <<(<<n, m>>)[2], (<<n, m>>)[1]>>
      OBVIOUS
    <2> QED
      BY <2>1, <2>2, Zenon
  <1> QED
    BY <1>1 DEF Pairs

LEMMA ReversedApart ==
    ASSUME NEW E, Pairs(E), NEW F, NEW n, \A e : e \in F <=> (e \in E /\ n \notin {e[1], e[2]}),
           NEW R, R = {<<e[2], e[1]>> : e \in E}
    PROVE  {<<e[2], e[1]>> : e \in F} = R \ {x \in R : n \in {x[1], x[2]}}
  BY DEF Pairs

LEMMA JoinedGraph ==
    ASSUME NEW g, GraphOK(g), NEW n, NEW m, IsNode(n), IsNode(m), n.tenant = m.tenant,
           n \in Nodes(g), m \in Nodes(g), NEW rel, <<n, m>> \notin DOMAIN g.out
    PROVE  GraphOK(joined(g, n, m, rel)) /\ WithEdge(g, joined(g, n, m, rel), n, m, rel)
  <1> DEFINE h == joined(g, n, m, rel)
  <1>1. /\ IsGraph(h) /\ h.cycleDetection = g.cycleDetection /\ h.typ = g.typ
        /\ h.out = put(g.out, <<n, m>>, rel) /\ h.in = put(g.in, <<m, n>>, rel)
    <2>1. IsGraph(g)
      BY DEF GraphOK
    <2> QED
      BY <2>1 DEF joined, IsGraph
  <1> HIDE DEF h
  <1>2. DOMAIN h.out = DOMAIN g.out \cup {<<n, m>>}
    BY <1>1 DEF put
  <1>w. WithEdge(g, h, n, m, rel)
    BY <1>1, <1>2 DEF WithEdge, put
  <1>3. IsFiniteSet(DOMAIN h.out)
    BY <1>2, FS_AddElement, SMTT(30) DEF GraphOK
  <1>4. DOMAIN h.in = {<<e[2], e[1]>> : e \in DOMAIN h.out}
    <2>1. DOMAIN h.in = DOMAIN g.in \cup {<<m, n>>}
      BY <1>1 DEF put
    <2>2. DOMAIN g.in = {<<e[2], e[1]>> : e \in DOMAIN g.out} /\ Pairs(DOMAIN g.out)
      BY DEF GraphOK, Pairs
    <2>3. \A e : e \in DOMAIN h.out <=> (e \in DOMAIN g.out \/ e = <<n, m>>)
      BY <1>2
    <2> QED
      BY <2>1, <2>2, <2>3, ReversedWith
  <1>5. Nodes(h) = Nodes(g)
    BY <1>1 DEF Nodes
  <1>6. \A e \in DOMAIN h.out : e \in DOMAIN g.out \/ e = <<n, m>>
    BY <1>2
  <1>7. \A e \in DOMAIN h.out : /\ e = <<e[1], e[2]>> /\ IsNode(e[1]) /\ IsNode(e[2])
                             /\ e[1].tenant = e[2].tenant /\ {e[1], e[2]} \subseteq Nodes(h)
    BY <1>5, <1>6 DEF GraphOK
  <1>8. g.cycleDetection # "error" /\ \A x \in Nodes(g) : g.typ[x] \in {x.entity, NodeTypeVode}
    BY DEF GraphOK
  <1>9. GraphOK(h)
    BY <1>1, <1>3, <1>4, <1>5, <1>7, <1>8 DEF GraphOK
  <1> QED
    BY <1>w, <1>9 DEF h

\* An edge within a tenant is added, unless there is one between the two nodes.
LEMMA AddEdge ==
    ASSUME NEW g, GraphOK(g), NEW n, NEW m, IsNode(n), IsNode(m), n.tenant = m.tenant, NEW rel
    PROVE  LET h == addEdgeLocked(g, n, m, rel).g
           IN  GraphOK(h) /\ WithEdge(g, h, n, m, rel)
  <1> DEFINE a1 == addNodeLocked(g, n, NodeTypeVode).g
             a2 == addNodeLocked(a1, m, NodeTypeVode).g
             j  == joined(a2, n, m, rel)
             h == addEdgeLocked(g, n, m, rel).g
  <1>1. GraphOK(a1) /\ a1.out = g.out /\ n \in Nodes(a1)
    BY AddNode
  <1> HIDE DEF a1
  <1>2. GraphOK(a2) /\ a2.out = g.out /\ n \in Nodes(a2) /\ m \in Nodes(a2)
    <2>1. GraphOK(a2) /\ a2.out = a1.out /\ Nodes(a1) \subseteq Nodes(a2) /\ m \in Nodes(a2)
      BY <1>1, AddNode
    <2> QED
      BY <1>1, <2>1
  <1>3. ~CrossTenant(n, m)
    BY DEF CrossTenant, NodeIDPrefix
  <1>4. g.cycleDetection # "error"
    BY DEF GraphOK
  <1>5. h = IF <<n, m>> \in DOMAIN g.out THEN a2 ELSE j
    BY <1>3, <1>4 DEF addEdgeLocked, result, a1
  <1> HIDE DEF a2
  <1>6. CASE <<n, m>> \in DOMAIN g.out
    <2>1. h = a2
      BY <1>5, <1>6
    <2> HIDE DEF h
    <2>2. WithEdge(g, h, n, m, rel)
      BY <1>2, <1>6, <2>1 DEF WithEdge
    <2> QED
      BY <1>2, <2>1, <2>2 DEF h
  <1>7. CASE <<n, m>> \notin DOMAIN g.out
    <2>1. GraphOK(a2) /\ n \in Nodes(a2) /\ m \in Nodes(a2) /\ <<n, m>> \notin DOMAIN a2.out
      BY <1>2, <1>7
    <2>2. GraphOK(j) /\ WithEdge(a2, j, n, m, rel)
      BY <2>1, JoinedGraph
    <2> HIDE DEF j
    <2>3. h = j
      BY <1>5, <1>7
    <2> HIDE DEF h
    <2>4. WithEdge(g, h, n, m, rel)
      BY <1>2, <2>2, <2>3 DEF WithEdge
    <2> QED
      BY <2>2, <2>3, <2>4 DEF h
  <1> QED
    BY <1>6, <1>7

LEMMA DropEdge ==
    ASSUME NEW g, GraphOK(g), NEW n, NEW m
    PROVE  GraphOK(RemoveEdge(g, n, m)) /\ WithoutEdge(g, RemoveEdge(g, n, m), n, m)
  <1> DEFINE h == RemoveEdge(g, n, m)
  <1>1. CASE <<n, m>> \notin DOMAIN g.out
    BY <1>1 DEF RemoveEdge, WithoutEdge
  <1>2. CASE <<n, m>> \in DOMAIN g.out
    <2>1. /\ IsGraph(h) /\ h.cycleDetection = g.cycleDetection /\ h.typ = g.typ
          /\ h.out = drop(g.out, {<<n, m>>}) /\ h.in = drop(g.in, {<<m, n>>})
      <3>1. IsGraph(g)
        BY DEF GraphOK
      <3> QED
        BY <1>2, <3>1 DEF RemoveEdge, IsGraph
    <2> HIDE DEF h
    <2>2. DOMAIN h.out = DOMAIN g.out \ {<<n, m>>}
      BY <2>1 DEF drop
    <2>w. WithoutEdge(g, h, n, m)
      BY <2>1, <2>2 DEF WithoutEdge, drop
    <2>3. IsFiniteSet(DOMAIN h.out)
      BY <2>2, FS_Subset DEF GraphOK
    <2>4. DOMAIN h.in = {<<e[2], e[1]>> : e \in DOMAIN h.out}
      <3>1. DOMAIN h.in = DOMAIN g.in \ {<<m, n>>}
        BY <2>1 DEF drop
      <3>2. DOMAIN g.in = {<<e[2], e[1]>> : e \in DOMAIN g.out} /\ Pairs(DOMAIN g.out)
        BY DEF GraphOK, Pairs
      <3>3. \A e : e \in DOMAIN h.out <=> (e \in DOMAIN g.out /\ e # <<n, m>>)
        BY <2>2
      <3> QED
        BY <3>1, <3>2, <3>3 DEF Pairs
    <2>5. Nodes(h) = Nodes(g)
      BY <2>1 DEF Nodes
    <2>6. \A e \in DOMAIN h.out : e \in DOMAIN g.out
      BY <2>2
    <2>7. GraphOK(h)
      BY <2>1, <2>3, <2>4, <2>5, <2>6 DEF GraphOK
    <2> QED
      BY <2>w, <2>7 DEF h
  <1> QED
    BY <1>1, <1>2

LEMMA DropNode ==
    ASSUME NEW g, GraphOK(g), NEW n
    PROVE  GraphOK(RemoveNode(g, n)) /\ WithoutNode(g, RemoveNode(g, n), n)
  <1> DEFINE h == RemoveNode(g, n)
  <1>1. CASE n \notin Nodes(g)
    <2>1. \A e \in DOMAIN g.out : n \notin {e[1], e[2]}
      BY <1>1 DEF GraphOK
    <2> QED
      BY <1>1, <2>1 DEF RemoveNode, WithoutNode
  <1>2. CASE n \in Nodes(g)
    <2>1. /\ IsGraph(h) /\ h.cycleDetection = g.cycleDetection /\ h.typ = drop(g.typ, {n})
          /\ h.out = drop(g.out, {e \in DOMAIN g.out : n \in {e[1], e[2]}})
          /\ h.in = drop(g.in, {e \in DOMAIN g.in : n \in {e[1], e[2]}})
      <3>1. IsGraph(g)
        BY DEF GraphOK
      <3> QED
        BY <1>2, <3>1, ZenonT(90) DEF RemoveNode, IsGraph
    <2> HIDE DEF h
    <2>2. DOMAIN h.out = {e \in DOMAIN g.out : n \notin {e[1], e[2]}}
      BY <2>1 DEF drop
    <2>w. WithoutNode(g, h, n)
      BY <2>1, <2>2 DEF WithoutNode, drop
    <2>3. IsFiniteSet(DOMAIN h.out)
      BY <2>2, FS_Subset DEF GraphOK
    <2>4. DOMAIN h.in = {<<e[2], e[1]>> : e \in DOMAIN h.out}
      <3>1. DOMAIN h.in = DOMAIN g.in \ {e \in DOMAIN g.in : n \in {e[1], e[2]}}
        BY <2>1 DEF drop
      <3>2. DOMAIN g.in = {<<e[2], e[1]>> : e \in DOMAIN g.out} /\ Pairs(DOMAIN g.out)
        BY DEF GraphOK, Pairs
      <3>3. \A e : e \in DOMAIN h.out <=> (e \in DOMAIN g.out /\ n \notin {e[1], e[2]})
        BY <2>2
      <3> QED
        BY <3>1, <3>2, <3>3, ReversedApart
    <2>5. Nodes(h) = Nodes(g) \ {n} /\ \A x \in Nodes(h) : h.typ[x] = g.typ[x]
      BY <2>1 DEF Nodes, drop
    <2>6. \A e \in DOMAIN h.out : e \in DOMAIN g.out /\ n \notin {e[1], e[2]}
      BY <2>2
    <2>7. GraphOK(h)
      BY <2>1, <2>3, <2>4, <2>5, <2>6 DEF GraphOK
    <2> QED
      BY <2>w, <2>7 DEF h
  <1> QED
    BY <1>1, <1>2

\* The ends of an edge of the edge table are nodes of its tenant, and name it.
LEMMA Ends ==
    ASSUME NEW x, IsEdge(x)
    PROVE  /\ IsNode(From(x)) /\ IsNode(To(x)) /\ From(x).tenant = x.tenant /\ To(x).tenant = x.tenant
           /\ From(x) = NodeID(x.tenant, x.source[1], x.source[2])
           /\ To(x) = NodeID(x.tenant, x.target[1], x.target[2])
           /\ \A y : IsEdge(y) /\ From(y) = From(x) /\ To(y) = To(x) =>
                y.tenant = x.tenant /\ y.source = x.source /\ y.target = x.target
  <1> USE DEF IsNode, NodeID, node, From, To, Source, Target
  <1>1. /\ IsNode(From(x)) /\ IsNode(To(x)) /\ From(x).tenant = x.tenant /\ To(x).tenant = x.tenant
        /\ From(x) = NodeID(x.tenant, x.source[1], x.source[2])
        /\ To(x) = NodeID(x.tenant, x.target[1], x.target[2])
    OBVIOUS
  <1>2. ASSUME NEW y, IsEdge(y), From(y) = From(x), To(y) = To(x)
        PROVE  y.tenant = x.tenant /\ y.source = x.source /\ y.target = x.target
    <2>1. /\ y.tenant = x.tenant /\ y.source[1] = x.source[1] /\ y.source[2] = x.source[2]
          /\ y.target[1] = x.target[1] /\ y.target[2] = x.target[2]
      BY <1>2
    <2>2. /\ x.source = <<x.source[1], x.source[2]>> /\ x.target = <<x.target[1], x.target[2]>>
          /\ y.source = <<y.source[1], y.source[2]>> /\ y.target = <<y.target[1], y.target[2]>>
      BY <1>2 DEF IsEdge
    <2> QED
      BY <2>1, <2>2
  <1> QED
    BY <1>1, <1>2

\* Loading an edge types both ends first.
LEMMA LoadKeeps ==
    ASSUME NEW g, GraphOK(g), NEW x, IsEdge(x)
    PROVE  GraphOK(loadEdge(g, x)) /\ WithEdge(g, loadEdge(g, x), From(x), To(x), x.rel)
  <1> DEFINE s == From(x)
             t == To(x)
             a1 == addNodeLocked(g, s, s.entity).g
             a2 == addNodeLocked(a1, t, t.entity).g
             h == addEdgeLocked(a2, s, t, x.rel).g
  <1>1. IsNode(s) /\ IsNode(t) /\ s.tenant = t.tenant
    BY Ends
  <1>2. loadEdge(g, x) = h
    BY DEF loadEdge, From, To, Source, Target
  <1> HIDE DEF s, t
  <1>3. GraphOK(a1) /\ a1.out = g.out
    BY <1>1, AddNode
  <1> HIDE DEF a1
  <1>4. GraphOK(a2) /\ a2.out = g.out
    BY <1>1, <1>3, AddNode
  <1> HIDE DEF a2
  <1>5. GraphOK(h) /\ WithEdge(a2, h, s, t, x.rel)
    BY <1>1, <1>4, AddEdge
  <1> HIDE DEF h
  <1>6. WithEdge(g, h, s, t, x.rel)
    BY <1>4, <1>5 DEF WithEdge
  <1> QED
    BY <1>2, <1>5, <1>6 DEF s, t

\* Among finite sets there is a smallest one.
LEMMA SmallestSet ==
    ASSUME NEW F, F # {}, \A T \in F : IsFiniteSet(T)
    PROVE  \E T \in F : \A V \in F : ~(Cardinality(V) < Cardinality(T))
  <1> DEFINE C == {Cardinality(T) : T \in F}
  <1>1. C \subseteq Nat /\ C # {}
    BY FS_CardinalityType
  <1>2. PICK n \in C : \A m \in C : ~(<<m, n>> \in OpToRel(<, Nat))
    <2> HIDE DEF C
    <2> QED
      BY <1>1, NatLessThanWellFounded, WFMin
  <1>3. PICK T \in F : Cardinality(T) = n
    OBVIOUS
  <1>4. ASSUME NEW V \in F PROVE ~(Cardinality(V) < Cardinality(T))
    <2>1. Cardinality(V) \in C /\ Cardinality(V) \in Nat /\ n \in Nat
      BY <1>1
    <2> QED
      BY <1>2, <1>3, <2>1 DEF OpToRel
  <1> QED
    BY <1>3, <1>4

\* The edges of a set loaded one after the other: the value for every subset.
Pick(s) == CHOOSE x \in s : TRUE
Rest(s) == s \ {Pick(s)}
Loads(f, base, E) ==
    f = [s \in SUBSET E |-> IF s = {} THEN base ELSE loadEdge(f[Rest(s)], Pick(s))]

LEMMA RestSmaller ==
    ASSUME NEW s, IsFiniteSet(s), s # {}
    PROVE  /\ Pick(s) \in s /\ Rest(s) \subseteq s /\ Rest(s) # s /\ IsFiniteSet(Rest(s))
           /\ Cardinality(Rest(s)) < Cardinality(s) /\ s = Rest(s) \cup {Pick(s)}
  <1>1. Pick(s) \in s
    BY DEF Pick
  <1>2. Cardinality(s) \in Nat
    BY FS_CardinalityType
  <1>3. IsFiniteSet(Rest(s)) /\ Cardinality(Rest(s)) = Cardinality(s) - 1
    BY <1>1, FS_RemoveElement DEF Rest
  <1> QED
    BY <1>1, <1>2, <1>3 DEF Rest

LEMMA LoadsUnique ==
    ASSUME NEW base, NEW A, NEW B, NEW f, NEW h, Loads(f, base, A), Loads(h, base, B),
           NEW T, IsFiniteSet(T), T \subseteq A, T \subseteq B
    PROVE  f[T] = h[T]
  <1> DEFINE F == {s \in SUBSET T : f[s] # h[s]}
  <1>1. SUFFICES ASSUME F # {} PROVE FALSE
    OBVIOUS
  <1>2. \A s \in F : IsFiniteSet(s) /\ s \in SUBSET A /\ s \in SUBSET B
    BY FS_Subset
  <1>3. PICK s \in F : \A V \in F : ~(Cardinality(V) < Cardinality(s))
    <2> HIDE DEF F
    <2> QED
      BY <1>1, <1>2, SmallestSet
  <1>4. /\ f[s] = IF s = {} THEN base ELSE loadEdge(f[Rest(s)], Pick(s))
        /\ h[s] = IF s = {} THEN base ELSE loadEdge(h[Rest(s)], Pick(s))
    BY <1>2, <1>3 DEF Loads
  <1>5. s # {}
    BY <1>3, <1>4
  <1>6. Rest(s) \in SUBSET T /\ Rest(s) \notin F
    BY <1>2, <1>3, <1>5, RestSmaller
  <1> QED
    BY <1>3, <1>4, <1>5, <1>6

LEMMA LoadsExist ==
    ASSUME NEW base, NEW E, IsFiniteSet(E)
    PROVE  \E f : Loads(f, base, E)
  <1> DEFINE F == {T \in SUBSET E : ~\E f : Loads(f, base, T)}
  <1>1. SUFFICES ASSUME F # {} PROVE FALSE
    OBVIOUS
  <1>2. \A s \in SUBSET E : IsFiniteSet(s)
    BY FS_Subset
  <1>3. PICK T \in F : \A V \in F : ~(Cardinality(V) < Cardinality(T))
    <2> HIDE DEF F
    <2>1. \A s \in F : IsFiniteSet(s)
      BY <1>2 DEF F
    <2> QED
      BY <1>1, <2>1, SmallestSet
  <1>4. T \in SUBSET E /\ IsFiniteSet(T)
    BY <1>2, <1>3
  <1> DEFINE L(s) == CHOOSE f : Loads(f, base, s)
             val == [s \in SUBSET T |-> IF s = {} THEN base
                                        ELSE IF s = T THEN loadEdge(L(Rest(T))[Rest(T)], Pick(T))
                                        ELSE L(s)[s]]
  <1>5. ASSUME NEW s \in SUBSET T, s # T PROVE Loads(L(s), base, s)
    <2>1. Cardinality(s) < Cardinality(T)
      BY <1>4, <1>5, FS_Subset, FS_CardinalityType
    <2>2. s \notin F /\ s \in SUBSET E
      BY <1>3, <1>4, <2>1
    <2>3. \E f : Loads(f, base, s)
      BY <2>2
    <2> QED
      BY <2>3
  <1> HIDE DEF L
  <1>6. ASSUME NEW s \in SUBSET T, s # T PROVE val[s] = L(s)[s]
    <2>1. CASE s = {}
      BY <1>5, <1>6, <2>1 DEF Loads
    <2>2. CASE s # {}
      BY <1>6, <2>2
    <2> QED
      BY <2>1, <2>2
  <1>7. ASSUME NEW s \in SUBSET T, s # {} PROVE val[s] = loadEdge(val[Rest(s)], Pick(s))
    <2>1. IsFiniteSet(s) /\ Rest(s) \in SUBSET T /\ Rest(s) # T /\ Rest(s) \subseteq s /\ IsFiniteSet(Rest(s))
      <3>1. IsFiniteSet(s)
        BY <1>4, FS_Subset
      <3>2. Pick(s) \in s /\ Rest(s) \subseteq s /\ IsFiniteSet(Rest(s))
        BY <1>7, <3>1, RestSmaller
      <3>3. Pick(s) \in T /\ Pick(s) \notin Rest(s)
        BY <3>2 DEF Rest
      <3> QED
        BY <3>1, <3>2, <3>3
    <2>2. val[Rest(s)] = L(Rest(s))[Rest(s)]
      BY <1>6, <2>1
    <2>3. CASE s = T
      BY <1>7, <2>2, <2>3
    <2>4. CASE s # T
      <3>1. val[s] = L(s)[s]
        BY <1>6, <2>4
      <3> HIDE DEF val
      <3>2. Loads(L(s), base, s) /\ Loads(L(Rest(s)), base, Rest(s))
        BY <1>5, <2>1, <2>4
      <3>3. L(s)[s] = loadEdge(L(s)[Rest(s)], Pick(s))
        BY <1>7, <3>2 DEF Loads
      <3>4. L(s)[Rest(s)] = L(Rest(s))[Rest(s)]
        BY <2>1, <3>2, LoadsUnique
      <3> QED
        BY <2>2, <3>1, <3>3, <3>4
    <2> QED
      BY <2>3, <2>4
  <1>8. val[{}] = base
    BY <1>4
  <1>9. val = [s \in SUBSET T |-> val[s]]
    OBVIOUS
  <1> HIDE DEF val
  <1>10. Loads(val, base, T)
    BY <1>7, <1>8, <1>9 DEF Loads
  <1> QED
    BY <1>3, <1>10

LEMMA Loaded ==
    ASSUME NEW base, NEW E, IsFiniteSet(E)
    PROVE  \E f : Loads(f, base, E) /\ FoldSet(LAMBDA e, g : loadEdge(g, e), base, E) = f[E]
  <1> DEFINE f == CHOOSE it : Loads(it, base, E)
  <1>1. FoldSet(LAMBDA e, g : loadEdge(g, e), base, E)
          = (CHOOSE it : it = [s \in SUBSET E |-> IF s = {} THEN base
                ELSE LET x == CHOOSE y \in s : TRUE IN loadEdge(it[s \ {x}], x)])[E]
    BY Zenon DEF FoldSet, MapThenFoldSet
  <1>2. FoldSet(LAMBDA e, g : loadEdge(g, e), base, E) = f[E]
    BY <1>1, Zenon DEF Loads, Rest, Pick
  <1>3. Loads(f, base, E)
    BY LoadsExist
  <1> QED
    BY <1>2, <1>3

\* Loading edges into an empty graph.
LoadAll(base, E) == FoldSet(LAMBDA e, g : loadEdge(g, e), base, E)

LEMMA LoadedGraph ==
    ASSUME NEW base, GraphOK(base), DOMAIN base.out = {},
           NEW E, IsFiniteSet(E), \A x \in E : IsEdge(x),
           NEW g, g = LoadAll(base, E)
    PROVE  /\ GraphOK(g)
           /\ \A x \in E : <<From(x), To(x)>> \in DOMAIN g.out
           /\ \A e \in DOMAIN g.out : \E x \in E : e = <<From(x), To(x)>> /\ g.out[e] = x.rel
  <1> DEFINE Good(h, s) ==
               /\ GraphOK(h)
               /\ \A x \in s : <<From(x), To(x)>> \in DOMAIN h.out
               /\ \A e \in DOMAIN h.out : \E x \in s : e = <<From(x), To(x)>> /\ h.out[e] = x.rel
  <1>1. PICK f : Loads(f, base, E) /\ g = f[E]
    BY Loaded DEF LoadAll
  <1> DEFINE F == {s \in SUBSET E : ~Good(f[s], s)}
  <1>2. SUFFICES ASSUME ~Good(g, E) PROVE FALSE
    OBVIOUS
  <1> HIDE DEF Good
  <1>e. F # {}
    BY <1>1, <1>2
  <1>3. \A s \in F : IsFiniteSet(s)
    BY FS_Subset
  <1>4. PICK s \in F : \A V \in F : ~(Cardinality(V) < Cardinality(s))
    <2> HIDE DEF F
    <2> QED
      BY <1>e, <1>3, SmallestSet
  <1>5. f[s] = IF s = {} THEN base ELSE loadEdge(f[Rest(s)], Pick(s))
    BY <1>1, <1>4 DEF Loads
  <1>6. s # {}
    BY <1>4, <1>5 DEF Good
  <1>7. IsFiniteSet(s) /\ s \in SUBSET E
    BY <1>3, <1>4
  <1>8. Pick(s) \in s /\ Rest(s) \in SUBSET E /\ Rest(s) \notin F /\ s = Rest(s) \cup {Pick(s)}
    BY <1>4, <1>6, <1>7, RestSmaller
  <1>9. Good(f[Rest(s)], Rest(s))
    BY <1>8
  <1>10. PICK k : k = f[Rest(s)]
    OBVIOUS
  <1>11. PICK x : x = Pick(s)
    OBVIOUS
  <1>12. GraphOK(loadEdge(k, x)) /\ WithEdge(k, loadEdge(k, x), From(x), To(x), x.rel)
    <2>1. IsEdge(x)
      BY <1>7, <1>8, <1>11
    <2>2. GraphOK(k)
      BY <1>9, <1>10 DEF Good
    <2> QED
      BY <2>1, <2>2, LoadKeeps
  <1>13. PICK h : h = loadEdge(k, x)
    OBVIOUS
  <1>14. Good(h, s)
    <2>1. GraphOK(h) /\ WithEdge(k, h, From(x), To(x), x.rel)
      BY <1>12, <1>13
    <2>2. Good(k, Rest(s)) /\ s = Rest(s) \cup {x}
      BY <1>8, <1>9, <1>10, <1>11
    <2>3. \A y \in s : <<From(y), To(y)>> \in DOMAIN h.out
      BY <2>1, <2>2 DEF WithEdge, Good
    <2>4. ASSUME NEW e \in DOMAIN h.out PROVE \E y \in s : e = <<From(y), To(y)>> /\ h.out[e] = y.rel
      <3>1. CASE e \in DOMAIN k.out
        BY <2>1, <2>2, <3>1 DEF WithEdge, Good
      <3>2. CASE e \notin DOMAIN k.out
        BY <2>1, <2>2, <3>2 DEF WithEdge, Good
      <3> QED
        BY <3>1, <3>2
    <2> QED
      BY <2>1, <2>3, <2>4 DEF Good
  <1> QED
    BY <1>4, <1>5, <1>6, <1>10, <1>11, <1>13, <1>14

LEMMA NewGraph ==
    ASSUME NEW mode, mode # "error"
    PROVE  GraphOK(newFlatGraph(Tenants, mode, 0)) /\ DOMAIN newFlatGraph(Tenants, mode, 0).out = {}
  <1>1. IsFiniteSet({})
    BY FS_EmptySet
  <1>2. PICK c : c = newFlatGraph(Tenants, mode, 0)
    OBVIOUS
  <1>4. PICK nc : c = [cycleDetection |-> mode, cycleCheckLimit |-> 0,
            typ |-> << >>, out |-> << >>, in |-> << >>, index |-> {}, tenantNodes |-> {},
            edgeCount |-> 0, nodeCounters |-> nc, edgeCounters |-> nc, vodeCounters |-> nc]
    BY <1>2 DEF newFlatGraph
  <1>5. DOMAIN c.out = {} /\ DOMAIN c.in = {} /\ DOMAIN c.typ = {}
    BY <1>4
  <1>6. DOMAIN c.in = {<<e[2], e[1]>> : e \in DOMAIN c.out}
    BY <1>5
  <1>7. c.cycleDetection # "error"
    BY <1>4
  <1>8. IsGraph(c)
    BY <1>4 DEF IsGraph
  <1> QED
    BY <1>1, <1>2, <1>5, <1>6, <1>7, <1>8 DEF GraphOK, Nodes
-----------------------------------------------------------------------------
(* The requests and the graph.                                             *)

\* Between its store write and the end of its work on the graph.
Linking == {"reget", "node", "look", "cut", "link"}
InFlight(h) == h.pc \in Linking \cup {"unlink"} \cup RebuildPcs

\* The documents a request has still to link, and the one after the current.
Later(h, k) == Len(h.todo) = 2 /\ k = h.todo[2]
Owed(h, k) == k = h.todo[1] \/ Later(h, k)

\* The references of a document as addEdgeLocked takes them.
Wanted(d, k) == {<<To(x), x.rel>> : x \in RefsOf(d, k)}

\* What a request has in hand is what the store says of the rows it wrote.
HandlerOK(h, d) ==
    /\ h.pc \in Linking =>
         /\ h.req.op \notin {"delete", "rebuild"}
         /\ \/ h.todo = <<h.todo[1]>>
            \/ /\ h.todo = <<h.todo[1], h.todo[2]>> /\ h.todo[1] # h.todo[2]
               /\ h.req.op \in {"patch", "commit"}
         /\ \A k : Owed(h, k) => k \in h.keys /\ Has(d, k) /\ RefsOf(d, k) \subseteq d.edges
    /\ h.pc = "node" => /\ ExtractEntityEdges(h.todo[1], h.doc) = RefsOf(d, h.todo[1])
                        /\ ~DuplicateTarget(h.doc)
    /\ h.pc \in {"look", "cut"} => h.new = Wanted(d, h.todo[1])
    /\ h.pc = "link" => h.new \subseteq Wanted(d, h.todo[1])
    /\ h.pc = "unlink" =>
         /\ h.req.op = "delete" /\ h.keys = {h.req.key}
         /\ \A x \in d.edges : node(h.req.key) \notin {From(x), To(x)}
    /\ h.pc \in RebuildPcs => h.req.op = "rebuild"
    /\ h.pc = "load" => h.old \subseteq d.edges

\* The edges a request will still put into the graph or take out of it.
WillAdd(h, x) ==
    \/ h.pc \in {"reget", "node", "look", "cut"} /\ Owed(h, Source(x))
    \/ h.pc = "link" /\ \/ Later(h, Source(x))
                        \/ Source(x) = h.todo[1] /\ <<To(x), x.rel>> \in h.new
    \/ h.pc \in {"clear", "scan"}
    \/ h.pc = "load" /\ x \in h.old

WillCut(h, x) ==
    \/ h.pc \in {"reget", "node", "look"} /\ Owed(h, Source(x))
    \/ h.pc \in {"cut", "link"} /\ Later(h, Source(x))
    \/ h.pc = "cut" /\ Source(x) = h.todo[1] /\ To(x) \in h.old
    \/ h.pc = "unlink" /\ node(h.req.key) \in {From(x), To(x)}
    \/ h.pc = "clear"

\* Two requests between store write and graph update that do not concern the
\* same nodes; any two, unless one has overtaken the other.
Apart(g, h, d) ==
    /\ "rebuild" \notin {g.req.op, h.req.op}
    /\ g.keys \cap h.keys = {}
    /\ g.req.op = "delete" => node(g.req.key) \notin Named(d, h.keys)

AllApart(H, d) ==
    \A i, j \in DOMAIN H : i # j /\ InFlight(H[i]) /\ InFlight(H[j]) => Apart(H[i], H[j], d)

\* Where graph and edge table differ, a request is about to mend it.
Agree(g, d, H) ==
    /\ \A x \in d.edges : Linked(g, x) \/ \E j \in DOMAIN H : WillAdd(H[j], x)
    /\ \A x : IsEdge(x) /\ Linked(g, x) => x \in d.edges \/ \E j \in DOMAIN H : WillCut(H[j], x)

Mended(g, d, H) ==
    /\ GraphOK(g)
    /\ \A j \in DOMAIN H : HandlerOK(H[j], d)
    /\ AllApart(H, d)
    /\ Agree(g, d, H)

GraphInv == (config.cycleDetection # "error" /\ ~overtaken) => Mended(graph, db, handler)

\* The edges of a store, and the rows they belong to.
EdgesOK(d) ==
    /\ \A x \in d.edges : /\ IsEdge(x) /\ x.tenant \in Tenants
                          /\ Has(d, Source(x)) /\ x \in RefsOf(d, Source(x))
    /\ \A k : Has(d, k) => IsDocumentKey(k) /\ ~DuplicateTarget(RowOf(d, k).data)

\* An edge of a document.
LEMMA RefEdge ==
    ASSUME NEW k, IsKey(k), NEW data, NEW x \in ExtractEntityEdges(k, data)
    PROVE  IsEdge(x) /\ Source(x) = k /\ x.tenant = k[1] /\ From(x) = node(k)
  <1>1. Source(x) = k
    BY EdgeOf
  <1>2. IsEdge(x) /\ x.tenant = k[1]
    BY DEF IsEdge, ExtractEntityEdges
  <1> QED
    BY <1>1, <1>2 DEF From

\* Two edges of the edge table with the same ends are the same.
LEMMA SameEnds ==
    ASSUME NEW d, EdgesOK(d), NEW x \in d.edges, NEW y, IsEdge(y), y \in d.edges,
           From(x) = From(y), To(x) = To(y)
    PROVE  x = y
  <1>1. IsEdge(x) /\ Has(d, Source(x)) /\ x \in RefsOf(d, Source(x)) /\ y \in RefsOf(d, Source(y))
    BY DEF EdgesOK
  <1>2. x.tenant = y.tenant /\ x.source = y.source /\ x.target = y.target
    BY <1>1, Ends
  <1>3. PICK data : data = RowOf(d, Source(x)).data
    OBVIOUS
  <1>4. ~DuplicateTarget(data)
    BY <1>1, <1>3 DEF EdgesOK
  <1>5. Source(y) = Source(x)
    BY <1>2 DEF Source
  <1>6. x \in ExtractEntityEdges(Source(x), data) /\ y \in ExtractEntityEdges(Source(x), data)
    BY <1>1, <1>3, <1>5 DEF RefsOf
  <1>7. PICK f \in ExtractRefs(data), h \in ExtractRefs(data) :
            /\ x.rel = f /\ x.target = <<data[f][2], data[f][3]>>
            /\ y.rel = h /\ y.target = <<data[h][2], data[h][3]>>
    BY <1>6 DEF ExtractEntityEdges
  <1>8. x.rel = y.rel
    BY <1>2, <1>4, <1>7 DEF DuplicateTarget
  <1> QED
    BY <1>1, <1>2, <1>8 DEF IsEdge

\* Two keys of one node are the same.
LEMMA NodeKeys ==
    ASSUME NEW k, IsDocumentKey(k), NEW l, IsDocumentKey(l), node(k) = node(l)
    PROVE  k = l
  BY DEF node, NodeID, IsDocumentKey

\* The references updateGraph takes from a document are its edges.
LEMMA EdgesWanted ==
    ASSUME NEW k, IsDocumentKey(k), NEW data
    PROVE  edgesOf(k, data) = {<<To(x), x.rel>> : x \in ExtractEntityEdges(k, data)}
  <1> DEFINE edge(f) == [tenant |-> k[1], source |-> <<k[2], k[3]>>,
                         target |-> <<data[f][2], data[f][3]>>, rel |-> f]
  <1>1. \A f : To(edge(f)) = node(<<k[1], data[f][2], data[f][3]>>) /\ edge(f).rel = f
    BY DEF To, Target
  <1>2. \A x : x \in ExtractEntityEdges(k, data) <=> \E f \in ExtractRefs(data) : x = edge(f)
    BY DEF ExtractEntityEdges
  <1>3. \A p : p \in edgesOf(k, data) <=>
                 \E f \in ExtractRefs(data) : p = <<node(<<k[1], data[f][2], data[f][3]>>), f>>
    BY DEF edgesOf
  <1>4. \A p : p \in {<<To(x), x.rel>> : x \in ExtractEntityEdges(k, data)} <=>
                 \E x \in ExtractEntityEdges(k, data) : p = <<To(x), x.rel>>
    OBVIOUS
  <1> HIDE DEF edge
  <1>5. ASSUME NEW x \in ExtractEntityEdges(k, data) PROVE <<To(x), x.rel>> \in edgesOf(k, data)
    <2>1. PICK f \in ExtractRefs(data) : x = edge(f)
      BY <1>2
    <2>2. <<To(x), x.rel>> = <<node(<<k[1], data[f][2], data[f][3]>>), f>>
      BY <1>1, <2>1
    <2> QED
      BY <1>3, <2>2
  <1>6. ASSUME NEW p \in edgesOf(k, data)
        PROVE  \E x \in ExtractEntityEdges(k, data) : p = <<To(x), x.rel>>
    <2>1. PICK f \in ExtractRefs(data) : p = <<node(<<k[1], data[f][2], data[f][3]>>), f>>
      BY <1>3
    <2>2. p = <<To(edge(f)), edge(f).rel>> /\ edge(f) \in ExtractEntityEdges(k, data)
      BY <1>1, <1>2, <2>1
    <2> QED
      BY <2>2
  <1>7. \A p : p \in {<<To(x), x.rel>> : x \in ExtractEntityEdges(k, data)} <=> p \in edgesOf(k, data)
    BY <1>4, <1>5, <1>6
  <1> QED
    BY <1>7

\* The nodes the rows of K refer to.
LEMMA NamedTargets ==
    ASSUME NEW d, NEW K, NEW k \in K, IsDocumentKey(k), Has(d, k), NEW x \in RefsOf(d, k)
    PROVE  To(x) \in Named(d, K)
  <1>1. PICK data : data = RowOf(d, k).data
    OBVIOUS
  <1>2. <<To(x), x.rel>> \in edgesOf(k, data)
    BY <1>1, EdgesWanted DEF RefsOf
  <1>3. To(x) \in {e[1] : e \in edgesOf(k, data)}
    BY <1>2
  <1>4. k \in {y \in K : Exists(d, Adapted, y)} /\ data = Get(d, Adapted, k).data
    BY <1>1 DEF Has, RowOf
  <1> QED
    BY <1>3, <1>4 DEF Named

LEMMA NamedSame ==
    ASSUME NEW d, NEW e, NEW K, \A k \in K : SameRow(d, e, k)
    PROVE  Named(e, K) = Named(d, K)
  <1>1. \A k \in K : /\ Exists(d, Adapted, k) <=> Exists(e, Adapted, k)
                     /\ Exists(d, Adapted, k) => Get(e, Adapted, k) = Get(d, Adapted, k)
    BY DEF SameRow, Has, RowOf
  <1>2. {x \in K : Exists(e, Adapted, x)} = {x \in K : Exists(d, Adapted, x)}
    BY <1>1
  <1>3. \A k \in {x \in K : Exists(d, Adapted, x)} : Get(e, Adapted, k).data = Get(d, Adapted, k).data
    BY <1>1
  <1> QED
    BY <1>2, <1>3 DEF Named

\* A step of one request: what it links or unlinks, and what it no longer
\* promises to.
LEMMA GraphStep ==
    ASSUME NEW g, NEW d, NEW H, Mended(g, d, H), NEW i \in DOMAIN H, InFlight(H[i]),
           NEW K, DOMAIN K = DOMAIN H, \A j \in DOMAIN H \ {i} : K[j] = H[j],
           K[i].req = H[i].req, K[i].keys = H[i].keys, HandlerOK(K[i], d),
           NEW e, GraphOK(e),
           \A x \in d.edges : Linked(e, x) \/ WillAdd(K[i], x) \/ (~Linked(g, x) /\ ~WillAdd(H[i], x)),
           \A x : IsEdge(x) /\ Linked(e, x) =>
               x \in d.edges \/ WillCut(K[i], x) \/ (Linked(g, x) /\ ~WillCut(H[i], x))
    PROVE  Mended(e, d, K)
  <1>1. \A j \in DOMAIN K : HandlerOK(K[j], d)
    BY DEF Mended
  <1>2. AllApart(K, d)
    <2> SUFFICES ASSUME NEW a \in DOMAIN K, NEW b \in DOMAIN K, a # b, InFlight(K[a]), InFlight(K[b])
                 PROVE  Apart(K[a], K[b], d)
      BY DEF AllApart
    <2>1. Apart(H[a], H[b], d)
      BY DEF Mended, AllApart
    <2>2. /\ K[a].req = H[a].req /\ K[a].keys = H[a].keys
          /\ K[b].req = H[b].req /\ K[b].keys = H[b].keys
      OBVIOUS
    <2> QED
      BY <2>1, <2>2 DEF Apart
  <1>3. ASSUME NEW x \in d.edges
        PROVE  Linked(e, x) \/ \E j \in DOMAIN K : WillAdd(K[j], x)
    BY <1>3 DEF Mended, Agree
  <1>4. ASSUME NEW x, IsEdge(x), Linked(e, x)
        PROVE  x \in d.edges \/ \E j \in DOMAIN K : WillCut(K[j], x)
    BY <1>4 DEF Mended, Agree
  <1> QED
    BY <1>1, <1>2, <1>3, <1>4 DEF Mended, Agree

\* The next document of a request is the one it owed after the current.
LEMMA NextKeeps ==
    ASSUME Goroutines, NEW i \in DOMAIN handler, HandlerOK(handler[i], db), handler[i].pc \in Linking
    PROVE  LET h == handler[i] IN
           /\ HandlerOK(NextNode(i), db)
           /\ NextNode(i).req = h.req /\ NextNode(i).keys = h.keys
           /\ \A x : /\ WillAdd(NextNode(i), x) <=> Later(h, Source(x))
                     /\ WillCut(NextNode(i), x) <=> Later(h, Source(x))
  <1> DEFINE h == handler[i]
             n == NextNode(i)
  <1>1. Shape(h)
    BY DEF Goroutines
  <1>2. /\ h.req.op \notin {"delete", "rebuild"}
        /\ \A k : Owed(h, k) => k \in h.keys /\ Has(db, k) /\ RefsOf(db, k) \subseteq db.edges
    BY DEF HandlerOK
  <1>3. CASE h.todo = <<h.todo[1]>>
    <2>1. n.req = h.req /\ n.keys = h.keys /\ n.pc = "invalidate"
      <3>1. Len(h.todo) = 1
        BY <1>3
      <3> QED
        BY <1>1, <3>1 DEF NextNode, Shape
    <2>2. \A k : ~Later(h, k)
      BY <1>3 DEF Later
    <2> HIDE DEF n
    <2>3. HandlerOK(n, db)
      BY <2>1 DEF HandlerOK, Linking, RebuildPcs
    <2>4. \A x : ~WillAdd(n, x) /\ ~WillCut(n, x)
      BY <2>1 DEF WillAdd, WillCut
    <2> QED
      BY <2>1, <2>2, <2>3, <2>4 DEF n
  <1>4. CASE /\ h.todo = <<h.todo[1], h.todo[2]>> /\ h.todo[1] # h.todo[2]
             /\ h.req.op \in {"patch", "commit"}
    <2>1. PICK a, b : h.todo = <<a, b>>
      BY <1>4
    <2>2. Len(h.todo) = 2 /\ Tail(h.todo) = <<b>> /\ h.todo[2] = b
      BY <2>1
    <2>3. Is(i, {"patch", "commit"})
      BY <1>4 DEF Is, Req
    <2>4. n.req = h.req /\ n.keys = h.keys /\ n.pc = "reget" /\ n.todo = <<b>>
      BY <1>1, <2>2, <2>3 DEF NextNode, Shape
    <2>5. \A k : Owed(n, k) <=> k = b
      BY <2>4 DEF Owed, Later
    <2>6. \A k : Later(h, k) <=> k = b
      BY <2>2 DEF Later
    <2> HIDE DEF n
    <2>7. n.todo = <<n.todo[1]>>
      BY <2>4
    <2>8. Owed(h, b)
      BY <2>6 DEF Owed
    <2>9. HandlerOK(n, db)
      BY <1>2, <2>4, <2>5, <2>7, <2>8 DEF HandlerOK, Linking, RebuildPcs
    <2>10. \A x : /\ WillAdd(n, x) <=> Source(x) = b
                  /\ WillCut(n, x) <=> Source(x) = b
      BY <2>4, <2>5 DEF WillAdd, WillCut
    <2> QED
      BY <2>4, <2>6, <2>9, <2>10 DEF n
  <1> QED
    BY <1>3, <1>4 DEF HandlerOK

\* A call of the graph by one goroutine.
LEMMA CallMends ==
    ASSUME Mended(graph, db, handler), NEW i \in DOMAIN handler, InFlight(handler[i]),
           NEW h, Go(i, h), h.req = handler[i].req, h.keys = handler[i].keys, HandlerOK(h, db),
           GraphOK(graph'),
           \A x \in db.edges : \/ Linked(graph', x) \/ WillAdd(h, x)
                               \/ ~Linked(graph, x) /\ ~WillAdd(handler[i], x),
           \A x : IsEdge(x) /\ Linked(graph', x) =>
               x \in db.edges \/ WillCut(h, x) \/ (Linked(graph, x) /\ ~WillCut(handler[i], x))
    PROVE  Mended(graph', db, handler')
  <1>1. /\ DOMAIN handler' = DOMAIN handler
        /\ \A j \in DOMAIN handler \ {i} : handler'[j] = handler[j]
        /\ handler'[i] = h
    BY DEF Go
  <1> QED
    BY <1>1, GraphStep

\* Reading the row again: it is there, for nobody has come between.
LEMMA RegetMends ==
    ASSUME Goroutines, EdgesOK(db), Mended(graph, db, handler), NEW i \in DOMAIN handler, Reget(i)
    PROVE  Mended(graph', db, handler')
  <1> DEFINE h == handler[i]
             k == Head(h.todo)
             n == [h EXCEPT !.doc = Get(db, Adapted, k).data, !.pc = "node"]
  <1>1. HandlerOK(h, db) /\ GraphOK(graph) /\ Shape(h) /\ h.pc = "reget" /\ graph' = graph
    BY DEF Mended, Goroutines, Reget, At
  <1>2. k = h.todo[1]
    BY DEF Head
  <1>3. Has(db, k)
    BY <1>1, <1>2 DEF HandlerOK, Linking, Owed
  <1>4. Go(i, n)
    BY <1>3 DEF Reget, Has
  <1>5. /\ n.pc = "node" /\ n.req = h.req /\ n.keys = h.keys /\ n.todo = h.todo
        /\ n.doc = RowOf(db, k).data
    BY <1>1 DEF Shape, RowOf
  <1> HIDE DEF n
  <1>6. \A y : Owed(n, y) <=> Owed(h, y)
    BY <1>5 DEF Owed, Later
  <1>7. ExtractEntityEdges(n.todo[1], n.doc) = RefsOf(db, n.todo[1]) /\ ~DuplicateTarget(n.doc)
    BY <1>2, <1>3, <1>5 DEF RefsOf, EdgesOK
  <1>8. HandlerOK(n, db)
    BY <1>1, <1>5, <1>6, <1>7 DEF HandlerOK, Linking, RebuildPcs
  <1>9. \A x : (WillAdd(h, x) => WillAdd(n, x)) /\ (WillCut(h, x) => WillCut(n, x))
    BY <1>1, <1>5, <1>6 DEF WillAdd, WillCut
  <1>10. InFlight(h)
    BY <1>1 DEF InFlight, Linking
  <1>11. \A x : Linked(graph', x) <=> Linked(graph, x)
    BY <1>1
  <1>12. GraphOK(graph')
    BY <1>1
  <1> HIDE DEF h
  <1> QED
    BY <1>4, <1>5, <1>8, <1>9, <1>10, <1>11, <1>12, CallMends DEF h

\* The node is there or gets its type; its references are at hand.
LEMMA PutNodeMends ==
    ASSUME Goroutines, EdgesOK(db), Mended(graph, db, handler), NEW i \in DOMAIN handler, PutNode(i)
    PROVE  Mended(graph', db, handler')
  <1> DEFINE h == handler[i]
             k == Head(h.todo)
             a == addNodeLocked(graph, node(k), k[2])
             n == [h EXCEPT !.pc = "look", !.new = edgesOf(k, h.doc)]
  <1>1. HandlerOK(h, db) /\ GraphOK(graph) /\ Shape(h) /\ h.pc = "node"
    BY DEF Mended, Goroutines, PutNode, At
  <1>2. k = h.todo[1]
    BY DEF Head
  <1>3. /\ Has(db, k) /\ IsDocumentKey(k)
        /\ ExtractEntityEdges(k, h.doc) = RefsOf(db, k) /\ ~DuplicateTarget(h.doc)
    BY <1>1, <1>2 DEF HandlerOK, Linking, Owed, EdgesOK
  <1>4. GraphOK(a.g) /\ a.g.out = graph.out /\ a.err = ""
    <2>1. IsNode(node(k)) /\ k[2] = node(k).entity
      BY DEF IsNode, node, NodeID
    <2>2. PICK p, t : p = node(k) /\ t = k[2]
      OBVIOUS
    <2>3. IsNode(p) /\ t \in {p.entity, NodeTypeVode}
      BY <2>1, <2>2
    <2>4. GraphOK(addNodeLocked(graph, p, t).g) /\ addNodeLocked(graph, p, t).g.out = graph.out
          /\ addNodeLocked(graph, p, t).err = ""
      BY <1>1, <2>3, AddNode
    <2> QED
      BY <2>2, <2>4
  <1>5. graph' = a.g
    BY Zenon DEF PutNode
  <1>6. Go(i, n)
    BY <1>3, <1>4, Zenon DEF PutNode
  <1> HIDE DEF a
  <1>7. /\ n.pc = "look" /\ n.req = h.req /\ n.keys = h.keys /\ n.todo = h.todo
        /\ n.new = edgesOf(k, h.doc)
    BY <1>1 DEF Shape
  <1> HIDE DEF n
  <1>8. n.new = Wanted(db, n.todo[1])
    BY <1>2, <1>3, <1>7, EdgesWanted DEF Wanted
  <1>9. \A y : Owed(n, y) <=> Owed(h, y)
    BY <1>7 DEF Owed, Later
  <1>10. HandlerOK(n, db)
    BY <1>1, <1>7, <1>8, <1>9 DEF HandlerOK, Linking, RebuildPcs
  <1>11. \A x : (WillAdd(h, x) => WillAdd(n, x)) /\ (WillCut(h, x) => WillCut(n, x))
    BY <1>1, <1>7, <1>9 DEF WillAdd, WillCut
  <1>12. InFlight(h)
    BY <1>1 DEF InFlight, Linking
  <1>13. \A x : Linked(graph', x) <=> Linked(graph, x)
    BY <1>4, <1>5 DEF Linked
  <1>14. GraphOK(graph')
    BY <1>4, <1>5
  <1> HIDE DEF h, k
  <1> QED
    BY <1>6, <1>7, <1>10, <1>11, <1>12, <1>13, <1>14, CallMends DEF h

\* What will be cut are the references the node has now.
LEMMA LookMends ==
    ASSUME Goroutines, EdgesOK(db), Mended(graph, db, handler), NEW i \in DOMAIN handler, Look(i)
    PROVE  Mended(graph', db, handler')
  <1> DEFINE h == handler[i]
             k == Head(h.todo)
             n == [h EXCEPT !.pc = "cut", !.old = Targets(graph, node(k))]
  <1>1. HandlerOK(h, db) /\ GraphOK(graph) /\ Shape(h) /\ h.pc = "look" /\ graph' = graph /\ Go(i, n)
    BY DEF Mended, Goroutines, Look, At
  <1>2. k = h.todo[1]
    BY DEF Head
  <1>3. /\ n.pc = "cut" /\ n.req = h.req /\ n.keys = h.keys /\ n.todo = h.todo /\ n.new = h.new
        /\ n.old = Targets(graph, node(k))
    BY <1>1 DEF Shape
  <1>4. Go(i, n)
    BY <1>1
  <1> HIDE DEF n
  <1>5. \A y : (Owed(n, y) <=> Owed(h, y)) /\ (Later(n, y) <=> Later(h, y))
    BY <1>3 DEF Owed, Later
  <1>6. HandlerOK(n, db)
    BY <1>1, <1>3, <1>5 DEF HandlerOK, Linking, RebuildPcs
  <1>7. \A x : WillAdd(h, x) => WillAdd(n, x)
    BY <1>1, <1>3, <1>5 DEF WillAdd
  <1>8. ASSUME NEW x, Linked(graph, x), WillCut(h, x)
        PROVE  WillCut(n, x)
    <2>1. Owed(h, Source(x))
      BY <1>1, <1>8 DEF WillCut, RebuildPcs
    <2>2. CASE Later(h, Source(x))
      BY <1>3, <1>5, <2>2 DEF WillCut
    <2>3. CASE Source(x) = h.todo[1]
      <3>1. From(x) = node(k)
        BY <1>2, <2>3 DEF From
      <3>2. <<node(k), To(x)>> \in DOMAIN graph.out
        BY <1>8, <3>1 DEF Linked
      <3>3. To(x) \in Targets(graph, node(k))
        BY <3>2 DEF Targets
      <3> QED
        BY <1>3, <2>3, <3>3 DEF WillCut
    <2> QED
      BY <2>1, <2>2, <2>3 DEF Owed
  <1>9. InFlight(h)
    BY <1>1 DEF InFlight, Linking
  <1>10. \A x : Linked(graph', x) <=> Linked(graph, x)
    BY <1>1
  <1>11. GraphOK(graph')
    BY <1>1
  <1> HIDE DEF h, k
  <1> QED
    BY <1>3, <1>4, <1>6, <1>7, <1>8, <1>9, <1>10, <1>11, CallMends DEF h

\* The edges after one was removed, and after one was added.
LEMMA CutLinked ==
    ASSUME NEW g, NEW e, NEW n, NEW m, WithoutEdge(g, e, n, m), NEW x
    PROVE  Linked(e, x) <=> Linked(g, x) /\ ~(From(x) = n /\ To(x) = m)
  BY DEF WithoutEdge, Linked

LEMMA AddLinked ==
    ASSUME NEW g, NEW e, NEW n, NEW m, NEW rel, WithEdge(g, e, n, m, rel), NEW x
    PROVE  /\ Linked(g, x) => Linked(e, x)
           /\ Linked(e, x) => Linked(g, x) \/ (From(x) = n /\ To(x) = m /\ x.rel = rel)
           /\ From(x) = n /\ To(x) = m /\ x.rel = rel =>
                  Linked(e, x) \/ (<<From(x), To(x)>> \in DOMAIN g.out /\ ~Linked(g, x))
  BY DEF WithEdge, Linked

\* An edge of the graph between the ends of x, as the edge table would have it.
LEMMA Rival ==
    ASSUME NEW g, NEW d, EdgesOK(d), NEW x \in d.edges, <<From(x), To(x)>> \in DOMAIN g.out,
           ~Linked(g, x)
    PROVE  \E y : /\ IsEdge(y) /\ Linked(g, y) /\ y \notin d.edges
                  /\ From(y) = From(x) /\ To(y) = To(x) /\ Source(y) = Source(x)
  <1>1. IsEdge(x)
    BY DEF EdgesOK
  <1>2. PICK y : y = [tenant |-> x.tenant, source |-> <<x.source[1], x.source[2]>>,
                      target |-> <<x.target[1], x.target[2]>>, rel |-> g.out[<<From(x), To(x)>>]]
    OBVIOUS
  <1>3. IsEdge(y)
    BY <1>2 DEF IsEdge
  <1>4. Source(y) = Source(x) /\ From(y) = From(x) /\ To(y) = To(x)
    BY <1>2 DEF From, To, Source, Target
  <1>5. y.rel = g.out[<<From(x), To(x)>>]
    BY <1>2
  <1>6. Linked(g, y)
    BY <1>4, <1>5 DEF Linked
  <1>7. y # x
    BY <1>6
  <1>8. y \notin d.edges
    BY <1>3, <1>4, <1>7, SameEnds
  <1> QED
    BY <1>3, <1>4, <1>6, <1>8

\* Once the old references of a node are cut, nobody else has one of its edges
\* to cut: two fields of a document name two targets.
LEMMA NoRival ==
    ASSUME EdgesOK(db), Mended(graph, db, handler), NEW i \in DOMAIN handler, handler[i].pc = "link",
           NEW x \in db.edges, Source(x) = handler[i].todo[1], <<From(x), To(x)>> \in DOMAIN graph.out
    PROVE  Linked(graph, x)
  <1> SUFFICES ASSUME ~Linked(graph, x) PROVE FALSE
    OBVIOUS
  <1>1. PICK y : /\ IsEdge(y) /\ Linked(graph, y) /\ y \notin db.edges
                 /\ From(y) = From(x) /\ To(y) = To(x) /\ Source(y) = Source(x)
    BY Rival
  <1>2. PICK j \in DOMAIN handler : WillCut(handler[j], y)
    BY <1>1 DEF Mended, Agree
  <1>3. HandlerOK(handler[i], db) /\ HandlerOK(handler[j], db)
    BY DEF Mended
  <1>4. PICK k : k = Source(x)
    OBVIOUS
  <1>5. k \in handler[i].keys /\ Has(db, k) /\ IsDocumentKey(k) /\ x \in RefsOf(db, k) /\ From(x) = node(k)
    BY <1>3, <1>4 DEF HandlerOK, Linking, Owed, EdgesOK, From
  <1>6. ~Later(handler[i], k)
    BY <1>3, <1>4 DEF HandlerOK, Linking, Later
  <1>7. j # i
    BY <1>1, <1>2, <1>4, <1>6 DEF WillCut, RebuildPcs
  <1>8. InFlight(handler[i]) /\ InFlight(handler[j])
    BY <1>2 DEF InFlight, Linking, RebuildPcs, WillCut
  <1>9. Apart(handler[j], handler[i], db)
    BY <1>7, <1>8 DEF Mended, AllApart
  <1>10. k \notin handler[j].keys
    BY <1>5, <1>9 DEF Apart
  <1>11. CASE handler[j].pc = "unlink"
    <2>1. /\ handler[j].req.op = "delete" /\ handler[j].keys = {handler[j].req.key}
          /\ node(handler[j].req.key) \in {From(y), To(y)}
          /\ \A z \in db.edges : node(handler[j].req.key) \notin {From(z), To(z)}
      BY <1>2, <1>3, <1>11 DEF HandlerOK, WillCut, RebuildPcs
    <2> QED
      BY <1>1, <2>1
  <1>12. CASE handler[j].pc = "clear"
    BY <1>3, <1>9, <1>12 DEF HandlerOK, RebuildPcs, Apart
  <1>13. CASE handler[j].pc \notin {"unlink", "clear"}
    <2>1. Owed(handler[j], k) /\ handler[j].pc \in Linking
      BY <1>1, <1>2, <1>4, <1>13 DEF WillCut, Owed, Linking
    <2> QED
      BY <1>3, <1>10, <2>1 DEF HandlerOK
  <1> QED
    BY <1>11, <1>12, <1>13

\* Cutting the old references: those the document still has are linked again.
LEMMA CutMends ==
    ASSUME Goroutines, EdgesOK(db), Mended(graph, db, handler), NEW i \in DOMAIN handler, Cut(i)
    PROVE  Mended(graph', db, handler')
  <1> DEFINE h == handler[i]
             k == Head(h.todo)
  <1>1. HandlerOK(h, db) /\ GraphOK(graph) /\ Shape(h) /\ h.pc = "cut"
    BY DEF Mended, Goroutines, Cut, At
  <1>2. k = h.todo[1]
    BY DEF Head
  <1>3. InFlight(h)
    BY <1>1 DEF InFlight, Linking
  <1>4. \A x \in db.edges : Source(x) = h.todo[1] => <<To(x), x.rel>> \in h.new
    BY <1>1 DEF HandlerOK, Wanted, EdgesOK
  <1>5. CASE h.old = {}
    <2> DEFINE n == [h EXCEPT !.pc = "link"]
    <2>1. Go(i, n) /\ graph' = graph
      BY <1>5 DEF Cut
    <2>2. /\ n.pc = "link" /\ n.req = h.req /\ n.keys = h.keys /\ n.todo = h.todo /\ n.new = h.new
          /\ n.old = {}
      BY <1>1, <1>5 DEF Shape
    <2> HIDE DEF n
    <2>3. \A y : (Owed(n, y) <=> Owed(h, y)) /\ (Later(n, y) <=> Later(h, y))
      BY <2>2 DEF Owed, Later
    <2>4. HandlerOK(n, db)
      BY <1>1, <2>2, <2>3 DEF HandlerOK, Linking, RebuildPcs
    <2>5. \A x \in db.edges : WillAdd(h, x) => WillAdd(n, x)
      BY <1>1, <1>4, <2>2, <2>3 DEF WillAdd, Owed
    <2>6. \A x : WillCut(h, x) => WillCut(n, x)
      BY <1>1, <1>5, <2>2, <2>3 DEF WillCut
    <2>7. GraphOK(graph') /\ \A x : Linked(graph', x) <=> Linked(graph, x)
      BY <1>1, <2>1
    <2> HIDE DEF h, k
    <2> QED
      BY <1>3, <2>1, <2>2, <2>4, <2>5, <2>6, <2>7, CallMends DEF h
  <1>6. CASE h.old # {}
    <2>1. PICK t \in h.old : /\ graph' = RemoveEdge(graph, node(k), t)
                             /\ Go(i, [h EXCEPT !.old = @ \ {t}])
      BY <1>6 DEF Cut
    <2> DEFINE n == [h EXCEPT !.old = @ \ {t}]
    <2>2. Go(i, n)
      BY <2>1
    <2>3. /\ n.pc = "cut" /\ n.req = h.req /\ n.keys = h.keys /\ n.todo = h.todo /\ n.new = h.new
          /\ n.old = h.old \ {t}
      BY <1>1 DEF Shape
    <2> HIDE DEF n
    <2>4. \A y : (Owed(n, y) <=> Owed(h, y)) /\ (Later(n, y) <=> Later(h, y))
      BY <2>3 DEF Owed, Later
    <2>5. HandlerOK(n, db)
      BY <1>1, <2>3, <2>4 DEF HandlerOK, Linking, RebuildPcs
    <2>6. GraphOK(graph') /\ WithoutEdge(graph, graph', node(k), t)
      BY <1>1, <2>1, DropEdge
    <2>7. \A x : Linked(graph', x) <=> Linked(graph, x) /\ ~(From(x) = node(k) /\ To(x) = t)
      BY <2>6, CutLinked
    <2>8. \A x : WillAdd(h, x) => WillAdd(n, x)
      BY <1>1, <2>3, <2>4 DEF WillAdd
    <2>9. ASSUME NEW x \in db.edges
          PROVE  Linked(graph', x) \/ WillAdd(n, x) \/ (~Linked(graph, x) /\ ~WillAdd(h, x))
      <3>1. CASE From(x) = node(k)
        <4>1. IsDocumentKey(Source(x)) /\ IsDocumentKey(k)
          BY <1>1, <1>2 DEF EdgesOK, HandlerOK, Linking, Owed
        <4>2. Source(x) = k
          BY <3>1, <4>1, NodeKeys DEF From
        <4> QED
          BY <1>2, <2>3, <4>2 DEF WillAdd, Owed
      <3>2. CASE From(x) # node(k)
        BY <2>7, <2>8, <3>2
      <3> QED
        BY <3>1, <3>2
    <2>10. ASSUME NEW x, Linked(graph', x), WillCut(h, x)
           PROVE  WillCut(n, x)
      <3>1. CASE Later(h, Source(x))
        BY <2>3, <2>4, <3>1 DEF WillCut
      <3>2. CASE Source(x) = h.todo[1] /\ To(x) \in h.old
        <4>1. From(x) = node(k)
          BY <1>2, <3>2 DEF From
        <4>2. To(x) # t
          BY <2>7, <2>10, <4>1
        <4> QED
          BY <2>3, <3>2, <4>2 DEF WillCut
      <3> QED
        BY <1>1, <2>10, <3>1, <3>2 DEF WillCut, RebuildPcs
    <2>11. \A x : Linked(graph', x) => Linked(graph, x)
      BY <2>7
    <2>12. GraphOK(graph')
      BY <2>6
    <2> HIDE DEF h, k
    <2> QED
      BY <1>3, <2>2, <2>3, <2>5, <2>9, <2>10, <2>11, <2>12, CallMends DEF h
  <1> QED
    BY <1>5, <1>6

\* Linking the new references.
LEMMA LinkMends ==
    ASSUME Goroutines, EdgesOK(db), Mended(graph, db, handler), NEW i \in DOMAIN handler, Link(i)
    PROVE  Mended(graph', db, handler')
  <1> DEFINE h == handler[i]
             k == Head(h.todo)
  <1>1. HandlerOK(h, db) /\ GraphOK(graph) /\ Shape(h) /\ h.pc = "link" /\ h.pc \in Linking
    BY DEF Mended, Goroutines, Link, At, Linking
  <1>2. k = h.todo[1]
    BY DEF Head
  <1>3. InFlight(h)
    BY <1>1 DEF InFlight
  <1>4. CASE h.new = {}
    <2> DEFINE n == NextNode(i)
    <2>1. Go(i, n) /\ graph' = graph
      BY <1>4 DEF Link
    <2>2. /\ HandlerOK(n, db) /\ n.req = h.req /\ n.keys = h.keys
          /\ \A x : /\ WillAdd(n, x) <=> Later(h, Source(x))
                    /\ WillCut(n, x) <=> Later(h, Source(x))
      BY <1>1, NextKeeps
    <2> HIDE DEF n
    <2>3. \A x : (WillAdd(h, x) => WillAdd(n, x)) /\ (WillCut(h, x) => WillCut(n, x))
      BY <1>1, <1>4, <2>2 DEF WillAdd, WillCut, RebuildPcs
    <2>4. GraphOK(graph') /\ \A x : Linked(graph', x) <=> Linked(graph, x)
      BY <1>1, <2>1
    <2> HIDE DEF h, k
    <2> QED
      BY <1>3, <2>1, <2>2, <2>3, <2>4, CallMends DEF h
  <1>5. CASE h.new # {}
    <2>1. PICK e \in h.new : /\ graph' = addEdgeLocked(graph, node(k), e[1], e[2]).g
                             /\ Go(i, [h EXCEPT !.new = @ \ {e}])
      BY <1>5 DEF Link
    <2> DEFINE n == [h EXCEPT !.new = @ \ {e}]
    <2>2. Go(i, n)
      BY <2>1
    <2>3. /\ n.pc = "link" /\ n.req = h.req /\ n.keys = h.keys /\ n.todo = h.todo
          /\ n.new = h.new \ {e}
      BY <1>1 DEF Shape
    <2> HIDE DEF n
    <2>4. \A y : (Owed(n, y) <=> Owed(h, y)) /\ (Later(n, y) <=> Later(h, y))
      BY <2>3 DEF Owed, Later
    <2>5. HandlerOK(n, db)
      BY <1>1, <2>3, <2>4 DEF HandlerOK, Linking, RebuildPcs
    <2>6. PICK z \in RefsOf(db, k) : e = <<To(z), z.rel>>
      BY <1>1, <1>2 DEF HandlerOK, Wanted
    <2>7. z \in db.edges /\ IsKey(k)
      BY <1>1, <1>2 DEF HandlerOK, Owed, EdgesOK, IsDocumentKey, IsKey
    <2>8. IsEdge(z) /\ Source(z) = k /\ From(z) = node(k)
      BY <2>7, RefEdge DEF RefsOf
    <2>9. IsNode(From(z)) /\ IsNode(To(z)) /\ From(z).tenant = To(z).tenant
      BY <2>8, Ends
    <2>10. graph' = addEdgeLocked(graph, From(z), To(z), z.rel).g
      BY <2>1, <2>6, <2>8
    <2>11. GraphOK(graph') /\ WithEdge(graph, graph', From(z), To(z), z.rel)
      BY <1>1, <2>9, <2>10, AddEdge
    <2>12. /\ \A x : Linked(graph, x) => Linked(graph', x)
           /\ \A x : Linked(graph', x) =>
                  Linked(graph, x) \/ (From(x) = From(z) /\ To(x) = To(z) /\ x.rel = z.rel)
           /\ Linked(graph', z) \/ (<<From(z), To(z)>> \in DOMAIN graph.out /\ ~Linked(graph, z))
      BY <2>11, AddLinked
    <2>13. Linked(graph', z)
      BY <1>1, <1>2, <2>7, <2>8, <2>12, NoRival
    <2>14. ASSUME NEW x \in db.edges, ~Linked(graph', x), WillAdd(h, x)
           PROVE  WillAdd(n, x)
      <3>1. CASE Later(h, Source(x))
        BY <2>3, <2>4, <3>1 DEF WillAdd
      <3>2. CASE Source(x) = h.todo[1] /\ <<To(x), x.rel>> \in h.new
        <4>1. x # z
          BY <2>13, <2>14
        <4>2. From(x) = From(z)
          BY <1>2, <2>8, <3>2 DEF From
        <4>3. To(x) # To(z)
          BY <2>7, <2>8, <4>1, <4>2, SameEnds
        <4>4. <<To(x), x.rel>> # e
          BY <2>6, <4>3
        <4> QED
          BY <2>3, <3>2, <4>4 DEF WillAdd
      <3> QED
        BY <1>1, <2>14, <3>1, <3>2 DEF WillAdd
    <2>15. ASSUME NEW x, IsEdge(x), Linked(graph', x), x \notin db.edges
           PROVE  Linked(graph, x)
      <3> SUFFICES ASSUME From(x) = From(z), To(x) = To(z), x.rel = z.rel PROVE FALSE
        BY <2>12, <2>15
      <3>1. x.tenant = z.tenant /\ x.source = z.source /\ x.target = z.target
        BY <2>8, <2>15, Ends
      <3>2. x = z
        BY <2>8, <2>15, <3>1 DEF IsEdge
      <3> QED
        BY <2>7, <2>15, <3>2
    <2>16. \A x : WillCut(h, x) => WillCut(n, x)
      BY <1>1, <2>3, <2>4 DEF WillCut
    <2>17. GraphOK(graph')
      BY <2>11
    <2> HIDE DEF h, k
    <2> QED
      BY <1>3, <2>2, <2>3, <2>5, <2>12, <2>14, <2>15, <2>16, <2>17, CallMends DEF h
  <1> QED
    BY <1>4, <1>5

\* The node goes with its edges; the store has none of them any more.
LEMMA UnlinkMends ==
    ASSUME Goroutines, EdgesOK(db), Mended(graph, db, handler), NEW i \in DOMAIN handler, removeGraph(i)
    PROVE  Mended(graph', db, handler')
  <1> DEFINE h == handler[i]
             n == [h EXCEPT !.pc = "invalidate"]
             v == node(h.req.key)
  <1>1. HandlerOK(h, db) /\ GraphOK(graph) /\ Shape(h) /\ h.pc = "unlink"
    BY DEF Mended, Goroutines, removeGraph, At
  <1>2. Go(i, n) /\ graph' = RemoveNode(graph, v)
    BY DEF removeGraph, Req
  <1>3. n.pc = "invalidate" /\ n.req = h.req /\ n.keys = h.keys
    BY <1>1 DEF Shape
  <1> HIDE DEF n
  <1>4. HandlerOK(n, db)
    BY <1>3 DEF HandlerOK, Linking, RebuildPcs
  <1>5. \A x \in db.edges : v \notin {From(x), To(x)}
    BY <1>1 DEF HandlerOK
  <1>6. GraphOK(graph') /\ WithoutNode(graph, graph', v)
    BY <1>1, <1>2, DropNode
  <1>7. \A x : Linked(graph', x) <=> Linked(graph, x) /\ v \notin {From(x), To(x)}
    BY <1>6 DEF WithoutNode, Linked
  <1>8. \A x : ~WillAdd(h, x) /\ (WillCut(h, x) => v \in {From(x), To(x)})
    BY <1>1 DEF WillAdd, WillCut
  <1>9. InFlight(h)
    BY <1>1 DEF InFlight
  <1>10. GraphOK(graph')
    BY <1>6
  <1> HIDE DEF h, v
  <1> QED
    BY <1>2, <1>3, <1>4, <1>5, <1>7, <1>8, <1>9, <1>10, CallMends DEF h

\* The graph is emptied; whatever the store has will be loaded.
LEMMA ClearMends ==
    ASSUME Goroutines, EdgesOK(db), Mended(graph, db, handler), NEW i \in DOMAIN handler, ClearGraph(i)
    PROVE  Mended(graph', db, handler')
  <1> DEFINE h == handler[i]
             n == [h EXCEPT !.pc = "scan"]
  <1>1. HandlerOK(h, db) /\ GraphOK(graph) /\ Shape(h) /\ h.pc = "clear"
    BY DEF Mended, Goroutines, ClearGraph, At
  <1>2. Go(i, n) /\ graph' = Clear(graph)
    BY DEF ClearGraph
  <1>3. n.pc = "scan" /\ n.req = h.req /\ n.keys = h.keys
    BY <1>1 DEF Shape
  <1> HIDE DEF n
  <1>4. HandlerOK(n, db)
    BY <1>1, <1>3 DEF HandlerOK, Linking, RebuildPcs
  <1>5. GraphOK(graph') /\ DOMAIN graph'.out = {}
    BY <1>1, <1>2, EmptyGraph
  <1>6. \A x : ~Linked(graph', x)
    BY <1>5 DEF Linked
  <1>7. \A x : WillAdd(n, x)
    BY <1>3 DEF WillAdd
  <1>8. InFlight(h)
    BY <1>1 DEF InFlight, RebuildPcs
  <1>9. GraphOK(graph')
    BY <1>5
  <1> HIDE DEF h
  <1> QED
    BY <1>2, <1>3, <1>4, <1>6, <1>7, <1>8, <1>9, CallMends DEF h

\* All tenants of the edge table are scanned.
LEMMA ScanMends ==
    ASSUME Goroutines, EdgesOK(db), Mended(graph, db, handler), NEW i \in DOMAIN handler, Scan(i)
    PROVE  Mended(graph', db, handler')
  <1> DEFINE h == handler[i]
             S == UNION {ScanGraphEdges(db, t) : t \in Tenants}
             n == [h EXCEPT !.pc = "load", !.old = S]
  <1>1. HandlerOK(h, db) /\ GraphOK(graph) /\ Shape(h) /\ h.pc = "scan"
    BY DEF Mended, Goroutines, Scan, At
  <1>2. Go(i, n) /\ graph' = graph
    BY DEF Scan
  <1>3. S = db.edges
    BY DEF ScanGraphEdges, EdgesOK
  <1>4. n.pc = "load" /\ n.req = h.req /\ n.keys = h.keys /\ n.old = db.edges
    BY <1>1, <1>3 DEF Shape
  <1> HIDE DEF n, S
  <1>5. HandlerOK(n, db)
    BY <1>1, <1>4 DEF HandlerOK, Linking, RebuildPcs
  <1>6. \A x \in db.edges : WillAdd(n, x)
    BY <1>4 DEF WillAdd
  <1>7. \A x : ~WillCut(h, x)
    BY <1>1 DEF WillCut
  <1>8. InFlight(h)
    BY <1>1 DEF InFlight, RebuildPcs
  <1>9. GraphOK(graph') /\ \A x : Linked(graph', x) <=> Linked(graph, x)
    BY <1>1, <1>2
  <1> HIDE DEF h
  <1> QED
    BY <1>2, <1>4, <1>5, <1>6, <1>7, <1>8, <1>9, CallMends DEF h

\* A reload is alone; it adds the edges one by one.
LEMMA LoadMends ==
    ASSUME Goroutines, EdgesOK(db), Mended(graph, db, handler), NEW i \in DOMAIN handler, LoadEdge(i)
    PROVE  Mended(graph', db, handler')
  <1> DEFINE h == handler[i]
  <1>1. HandlerOK(h, db) /\ GraphOK(graph) /\ Shape(h) /\ h.pc = "load"
    BY DEF Mended, Goroutines, LoadEdge, At
  <1>2. InFlight(h)
    BY <1>1 DEF InFlight, RebuildPcs
  <1>3. h.req.op = "rebuild" /\ h.old \subseteq db.edges
    BY <1>1 DEF HandlerOK, RebuildPcs
  <1>4. \A x : ~WillCut(h, x)
    BY <1>1 DEF WillCut
  <1>5. ASSUME NEW x, IsEdge(x), Linked(graph, x)
        PROVE  x \in db.edges
    <2> SUFFICES ASSUME NEW j \in DOMAIN handler, WillCut(handler[j], x) PROVE FALSE
      BY <1>5 DEF Mended, Agree
    <2>1. j # i
      BY <1>4
    <2>2. InFlight(handler[j])
      BY DEF WillCut, InFlight, Linking, RebuildPcs
    <2>3. Apart(h, handler[j], db)
      BY <1>2, <2>1, <2>2 DEF Mended, AllApart
    <2> QED
      BY <1>3, <2>3 DEF Apart
  <1>6. CASE h.old = {}
    <2> DEFINE n == [h EXCEPT !.pc = "done"]
    <2>1. Go(i, n) /\ graph' = graph
      BY <1>6 DEF LoadEdge, Done
    <2>2. n.pc = "done" /\ n.req = h.req /\ n.keys = h.keys
      BY <1>1 DEF Shape
    <2> HIDE DEF n
    <2>3. HandlerOK(n, db)
      BY <2>2 DEF HandlerOK, Linking, RebuildPcs
    <2>4. \A x : ~WillAdd(h, x)
      BY <1>1, <1>6 DEF WillAdd
    <2>5. GraphOK(graph') /\ \A x : Linked(graph', x) <=> Linked(graph, x)
      BY <1>1, <2>1
    <2> HIDE DEF h
    <2> QED
      BY <1>2, <1>4, <2>1, <2>2, <2>3, <2>4, <2>5, CallMends DEF h
  <1>7. CASE h.old # {}
    <2>1. PICK e \in h.old : graph' = loadEdge(graph, e) /\ Go(i, [h EXCEPT !.old = @ \ {e}])
      BY <1>7 DEF LoadEdge
    <2> DEFINE n == [h EXCEPT !.old = @ \ {e}]
    <2>2. Go(i, n)
      BY <2>1
    <2>3. n.pc = "load" /\ n.req = h.req /\ n.keys = h.keys /\ n.old = h.old \ {e}
      BY <1>1 DEF Shape
    <2> HIDE DEF n
    <2>4. HandlerOK(n, db)
      BY <1>1, <2>3 DEF HandlerOK, Linking, RebuildPcs
    <2>5. e \in db.edges /\ IsEdge(e)
      BY <1>3 DEF EdgesOK
    <2>6. GraphOK(graph') /\ WithEdge(graph, graph', From(e), To(e), e.rel)
      BY <1>1, <2>1, <2>5, LoadKeeps
    <2>7. /\ \A x : Linked(graph, x) => Linked(graph', x)
          /\ \A x : Linked(graph', x) =>
                  Linked(graph, x) \/ (From(x) = From(e) /\ To(x) = To(e) /\ x.rel = e.rel)
          /\ Linked(graph', e) \/ (<<From(e), To(e)>> \in DOMAIN graph.out /\ ~Linked(graph, e))
      BY <2>6, AddLinked
    <2>8. Linked(graph', e)
      <3> SUFFICES ASSUME <<From(e), To(e)>> \in DOMAIN graph.out, ~Linked(graph, e) PROVE FALSE
        BY <2>7
      <3> QED
        BY <1>5, <2>5, Rival
    <2>9. ASSUME NEW x, IsEdge(x), Linked(graph', x)
          PROVE  x \in db.edges
      <3> SUFFICES ASSUME From(x) = From(e), To(x) = To(e), x.rel = e.rel PROVE x \in db.edges
        BY <1>5, <2>7, <2>9
      <3>1. x.tenant = e.tenant /\ x.source = e.source /\ x.target = e.target
        BY <2>5, <2>9, Ends
      <3>2. x = e
        BY <2>5, <2>9, <3>1 DEF IsEdge
      <3> QED
        BY <2>5, <3>2
    <2>10. \A x \in db.edges : Linked(graph', x) \/ (WillAdd(h, x) => WillAdd(n, x))
      BY <1>1, <2>3, <2>8 DEF WillAdd
    <2>11. GraphOK(graph')
      BY <2>6
    <2> HIDE DEF h
    <2> QED
      BY <1>2, <2>2, <2>3, <2>4, <2>7, <2>9, <2>10, <2>11, CallMends DEF h
  <1> QED
    BY <1>6, <1>7
-----------------------------------------------------------------------------
(* The store and the graph.                                                *)

\* From d to e only the rows of K change and only their edges, which are those
\* of their documents.
Rewrites(d, e, K) ==
    /\ \A k : k \notin K => SameRow(d, e, k)
    /\ \A x : IsEdge(x) /\ Source(x) \notin K => (x \in e.edges <=> x \in d.edges)
    /\ \A k \in K : IsKey(k) /\ Has(e, k) /\ RefsOf(e, k) \subseteq e.edges

LEMMA SavesRewrite ==
    ASSUME NEW d, NEW e, NEW k, NEW data, Saves(d, e, k, data)
    PROVE  Rewrites(d, e, {k}) /\ RefsOf(e, k) = ExtractEntityEdges(k, data) /\ ~DuplicateTarget(data)
  <1>1. /\ IsKey(k) /\ ~DuplicateTarget(data) /\ Has(e, k)
        /\ \A x : x # k => SameRow(d, e, x)
        /\ e.edges = {x \in d.edges : x.tenant # k[1] \/ x.source # <<k[2], k[3]>>}
                     \cup ExtractEntityEdges(k, data)
    BY DEF Saves
  <1>2. RefsOf(e, k) = ExtractEntityEdges(k, data)
    BY ColumnsRefs DEF Saves, RefsOf
  <1>3. ASSUME NEW x, IsEdge(x), Source(x) # k
        PROVE  x \in e.edges <=> x \in d.edges
    <2>1. x \notin ExtractEntityEdges(k, data)
      BY <1>1, <1>3, EdgeOf
    <2>2. x.tenant # k[1] \/ x.source # <<k[2], k[3]>>
      BY <1>1, <1>3 DEF IsKey, Source
    <2> QED
      BY <1>1, <2>1, <2>2
  <1> QED
    BY <1>1, <1>2, <1>3 DEF Rewrites

LEMMA RewriteTwice ==
    ASSUME NEW d, NEW e, NEW f, NEW k, NEW l, Rewrites(d, e, {k}), Rewrites(e, f, {l}), k # l
    PROVE  Rewrites(d, f, {k, l})
  <1>1. \A x : x \notin {k, l} => SameRow(d, f, x)
    BY DEF Rewrites, SameRow
  <1>2. \A x : IsEdge(x) /\ Source(x) \notin {k, l} => (x \in f.edges <=> x \in d.edges)
    BY DEF Rewrites
  <1>3. IsKey(k) /\ Has(f, k) /\ RefsOf(f, k) = RefsOf(e, k)
    BY DEF Rewrites, SameRow, RefsOf
  <1>4. ASSUME NEW x \in RefsOf(f, k) PROVE x \in f.edges
    <2>1. IsEdge(x) /\ Source(x) = k
      BY <1>3, RefEdge DEF RefsOf
    <2>2. x \in e.edges
      BY <1>3 DEF Rewrites
    <2> QED
      BY <2>1, <2>2 DEF Rewrites
  <1> QED
    BY <1>1, <1>2, <1>3, <1>4 DEF Rewrites

\* A commit writes two rows: what it appends gets a key that has none.
LEMMA CommitRewrites ==
    ASSUME NEW d, WellFormed(d), \A t, c : seqOf(d, t, c) \in Nat, NEW k, IsKey(k), NEW data, NEW v,
           NEW c0, NEW id \in Nat, NEW appended,
           NEW w, w = commitInner(d, Adapted, k, data, v, c0, id, appended), Succeeds(w),
           NEW l, l = <<k[1], c0, w.id>>
    PROVE  Rewrites(d, w.db, {k, l}) /\ k # l
  <1>1. PICK s : s = saveInner(d, Adapted, k, data, v)
    OBVIOUS
  <1>2. PICK a : a = createInTx(s.db, Adapted, k[1], c0, id, appended)
    OBVIOUS
  <1>3. Succeeds(s) /\ w = a
    BY <1>1, <1>2 DEF commitInner, reply, Succeeds
  <1>4. PICK e : e = s.db
    OBVIOUS
  <1>5. Saves(d, e, k, data)
    BY <1>1, <1>3, <1>4, SaveSaves
  <1>6. WellFormed(e) /\ (\A t, c : seqOf(e, t, c) \in Nat) /\ Has(e, k)
    BY <1>5 DEF Saves
  <1>7. Saves(e, a.db, l, appended) /\ ~Has(e, l)
    <2>1. CASE id = 0
      <3>1. a = createInner(e, Adapted, k[1], c0, appended)
        BY <1>2, <1>4, <2>1 DEF createInTx
      <3>2. Saves(e, a.db, <<k[1], c0, a.id>>, appended)
        BY <1>3, <1>6, <3>1, CreateSaves
      <3>3. ~Has(e, <<k[1], c0, a.id>>)
        <4>1. PICK x, f : /\ x = <<k[1], c0, nextID(e, k[1], c0)>> /\ f = takeID(e, k[1], c0)
          OBVIOUS
        <4>2. PICK g : g = indexed(putRow(f, Adapted, x, appended, 1), x, appended)
          OBVIOUS
        <4>3. a = IF Has(f, x) THEN reply(e, "insert failed", 0)
                  ELSE IF DuplicateTarget(appended) THEN reply(e, "ErrDuplicateEdgeTarget", 0)
                  ELSE reply(g, "", x[3])
          BY <3>1, <4>1, <4>2 DEF createInner, Has
        <4>4. ~Has(f, x) /\ a.id = x[3]
          <5>1. Succeeds(a)
            BY <1>3
          <5> QED
            BY <4>3, <5>1, Zenon DEF reply, Succeeds
        <4>5. x = <<k[1], c0, a.id>>
          BY <4>1, <4>4
        <4>6. SameRow(e, f, x)
          BY <1>6, <4>1, Sequences
        <4> QED
          BY <4>4, <4>5, <4>6 DEF SameRow
      <3> QED
        BY <1>3, <3>2, <3>3
    <2>2. CASE id # 0
      <3>1. PICK x, f : /\ x = <<k[1], c0, id>>
                        /\ f = indexed(putRow(bumpSequence(e, x), Adapted, x, appended, 1), x, appended)
        OBVIOUS
      <3>2. a = IF Has(e, x) THEN reply(e, "ErrAlreadyExists", 0)
                ELSE IF DuplicateTarget(appended) THEN reply(e, "ErrDuplicateEdgeTarget", 0)
                ELSE reply(f, "", id)
        BY <1>2, <1>4, <2>2, <3>1 DEF createInTx, Has
      <3>3. ~Has(e, x) /\ a.id = id /\ a.db = f /\ ~DuplicateTarget(appended)
        <4>1. Succeeds(a)
          BY <1>3
        <4> QED
          BY <3>2, <4>1, Zenon DEF reply, Succeeds
      <3>4. IsKey(x) /\ x = l
        BY <1>3, <3>1, <3>3 DEF IsKey
      <3>5. Saves(e, f, x, appended)
        BY <1>6, <3>1, <3>3, <3>4, InsertSaves
      <3> QED
        BY <3>3, <3>4, <3>5
    <2> QED
      BY <2>1, <2>2
  <1>8. k # l
    BY <1>6, <1>7
  <1>9. Rewrites(d, e, {k}) /\ Rewrites(e, a.db, {l})
    BY <1>5, <1>7, SavesRewrite
  <1> QED
    BY <1>3, <1>8, <1>9, RewriteTwice

\* The keys are those of routes and commits.
KeysInv ==
    /\ \A k \in used : IsDocumentKey(k)
    /\ \A i \in DOMAIN handler : IsDocumentKey(handler[i].req.key) /\ handler[i].req.append # ""

\* Two requests in flight stay apart from a write that overtakes neither.
Passes(d, e, g, h) ==
    /\ "rebuild" \notin {g.req.op, h.req.op}
    /\ h.keys \cap g.keys = {}
    /\ g.req.op = "delete" => node(g.req.key) \notin Named(d, h.keys)
    /\ h.req.op = "delete" => node(h.req.key) \notin Named(e, g.keys)

\* A write of the store that makes d into e leaves what another request has in
\* hand as it was.
LEMMA OthersKept ==
    ASSUME NEW d, NEW e, EdgesOK(d), EdgesOK(e), NEW g, HandlerOK(g, e), NEW h, HandlerOK(h, d),
           InFlight(g), Passes(d, e, g, h), IsDocumentKey(g.req.key), IsDocumentKey(h.req.key),
           \A k : k \notin g.keys => SameRow(d, e, k),
           \A x \in e.edges : x \in d.edges \/ WillAdd(g, x),
           \A x \in d.edges : x \in e.edges \/ WillCut(g, x)
    PROVE  HandlerOK(h, e)
  <1>1. \A k \in h.keys : SameRow(d, e, k) /\ (Has(d, k) => RefsOf(e, k) = RefsOf(d, k))
    BY DEF Passes, SameRow, RefsOf
  <1>2. g.pc \notin RebuildPcs
    BY DEF HandlerOK, Passes
  <1>3. ASSUME NEW k \in h.keys, Has(d, k), NEW x \in RefsOf(d, k), x \in d.edges
        PROVE  x \in e.edges
    <2> SUFFICES ASSUME WillCut(g, x) PROVE FALSE
      BY <1>3
    <2>1. IsDocumentKey(k)
      BY <1>3 DEF EdgesOK
    <2>2. IsKey(k)
      BY <2>1 DEF IsDocumentKey, IsKey
    <2>3. Source(x) = k /\ From(x) = node(k)
      BY <1>3, <2>2, RefEdge DEF RefsOf
    <2>4. k \notin g.keys
      BY DEF Passes
    <2>5. CASE g.pc \in Linking
      <3>1. Owed(g, k)
        BY <2>3, <2>5 DEF WillCut, Owed, Linking, RebuildPcs
      <3> QED
        BY <2>4, <2>5, <3>1 DEF HandlerOK
    <2>6. CASE g.pc = "unlink"
      <3>1. g.req.op = "delete" /\ g.keys = {g.req.key} /\ node(g.req.key) \in {From(x), To(x)}
        BY <2>6 DEF HandlerOK, WillCut
      <3>2. node(g.req.key) # From(x)
        BY <2>1, <2>3, <2>4, <3>1, NodeKeys
      <3>3. To(x) \in Named(d, h.keys)
        BY <1>3, <2>1, NamedTargets
      <3> QED
        BY <3>1, <3>2, <3>3 DEF Passes
    <2> QED
      BY <1>2, <2>5, <2>6 DEF InFlight
  <1>4. ASSUME h.pc = "unlink", NEW x \in e.edges
        PROVE  node(h.req.key) \notin {From(x), To(x)}
    <2> SUFFICES ASSUME WillAdd(g, x) PROVE node(h.req.key) \notin {From(x), To(x)}
      BY <1>4 DEF HandlerOK
    <2>1. h.req.op = "delete" /\ h.keys = {h.req.key}
      BY <1>4 DEF HandlerOK
    <2>2. IsDocumentKey(Source(x)) /\ Has(e, Source(x)) /\ x \in RefsOf(e, Source(x))
      BY <1>4 DEF EdgesOK
    <2>3. g.pc \in Linking /\ Owed(g, Source(x))
      BY <1>2 DEF WillAdd, Owed, Linking, RebuildPcs
    <2>4. Source(x) \in g.keys
      BY <2>3 DEF HandlerOK
    <2>5. node(h.req.key) # From(x)
      BY <2>1, <2>2, <2>4, NodeKeys DEF Passes, From
    <2>6. To(x) \in Named(e, g.keys)
      BY <2>2, <2>4, NamedTargets
    <2> QED
      BY <2>1, <2>5, <2>6 DEF Passes
  <1>5. h.pc \notin RebuildPcs
    BY DEF HandlerOK, Passes
  <1>6. CASE h.pc \in Linking
    <2>1. \A k : Owed(h, k) => /\ k \in h.keys /\ Has(e, k) /\ RefsOf(e, k) = RefsOf(d, k)
                               /\ RefsOf(e, k) \subseteq e.edges
      BY <1>1, <1>3, <1>6 DEF HandlerOK, SameRow
    <2>2. RefsOf(e, h.todo[1]) = RefsOf(d, h.todo[1])
      BY <2>1 DEF Owed
    <2>3. Wanted(e, h.todo[1]) = Wanted(d, h.todo[1])
      BY <2>2 DEF Wanted
    <2> QED
      BY <1>5, <1>6, <2>1, <2>2, <2>3 DEF HandlerOK, Linking
  <1>7. CASE h.pc = "unlink"
    BY <1>4, <1>5, <1>7 DEF HandlerOK, Linking
  <1>8. CASE h.pc \notin Linking \cup {"unlink"}
    BY <1>5, <1>8 DEF HandlerOK, Linking, RebuildPcs
  <1> QED
    BY <1>6, <1>7, <1>8

\* A stored write: what differs from the graph now, its request will mend.
LEMMA StoreStep ==
    ASSUME NEW g, NEW d, NEW e, NEW H, Mended(g, d, H), NEW i \in DOMAIN H, ~InFlight(H[i]),
           NEW K, DOMAIN K = DOMAIN H, \A j \in DOMAIN H \ {i} : K[j] = H[j],
           EdgesOK(d), EdgesOK(e), InFlight(K[i]), HandlerOK(K[i], e),
           \A j \in DOMAIN H : IsDocumentKey(K[j].req.key),
           \A j \in DOMAIN H \ {i} : InFlight(H[j]) => Passes(d, e, K[i], H[j]),
           \A k : k \notin K[i].keys => SameRow(d, e, k),
           \A x \in e.edges : x \in d.edges \/ WillAdd(K[i], x),
           \A x \in d.edges : x \in e.edges \/ WillCut(K[i], x)
    PROVE  Mended(g, e, K)
  <1>1. ASSUME NEW j \in DOMAIN K
        PROVE  HandlerOK(K[j], e)
    <2>1. CASE j = i
      BY <2>1
    <2>2. CASE j # i /\ InFlight(H[j])
      <3>1. HandlerOK(H[j], d) /\ Passes(d, e, K[i], H[j]) /\ K[j] = H[j]
        BY <2>2 DEF Mended
      <3> QED
        BY <3>1, OthersKept
    <2>3. CASE j # i /\ ~InFlight(H[j])
      BY <2>3 DEF HandlerOK, InFlight, Linking, RebuildPcs
    <2> QED
      BY <2>1, <2>2, <2>3
  <1>2. AllApart(K, e)
    <2> SUFFICES ASSUME NEW a \in DOMAIN K, NEW b \in DOMAIN K, a # b, InFlight(K[a]), InFlight(K[b])
                 PROVE  Apart(K[a], K[b], e)
      BY DEF AllApart
    <2>1. ASSUME NEW j \in DOMAIN K, j # i, InFlight(K[j])
          PROVE  Named(e, K[j].keys) = Named(d, K[j].keys)
      <3>1. \A k \in K[j].keys : SameRow(d, e, k)
        BY <2>1 DEF Passes
      <3> QED
        BY <3>1, NamedSame
    <2>2. CASE a = i
      BY <2>1, <2>2 DEF Apart, Passes
    <2>3. CASE b = i
      BY <2>3 DEF Apart, Passes
    <2>4. CASE a # i /\ b # i
      <3>1. Apart(K[a], K[b], d)
        BY <2>4 DEF Mended, AllApart
      <3> QED
        BY <2>1, <2>4, <3>1 DEF Apart
    <2> QED
      BY <2>2, <2>3, <2>4
  <1>3. \A x : ~WillAdd(H[i], x) /\ ~WillCut(H[i], x)
    BY DEF WillAdd, WillCut, InFlight, Linking, RebuildPcs
  <1>4. ASSUME NEW x \in e.edges
        PROVE  Linked(g, x) \/ \E j \in DOMAIN K : WillAdd(K[j], x)
    BY <1>3, <1>4 DEF Mended, Agree
  <1>5. ASSUME NEW x, IsEdge(x), Linked(g, x)
        PROVE  x \in e.edges \/ \E j \in DOMAIN K : WillCut(K[j], x)
    BY <1>3, <1>5 DEF Mended, Agree
  <1> QED
    BY <1>1, <1>2, <1>4, <1>5 DEF Mended, Agree

\* Stored, when it overtakes nobody.
LEMMA StoredMends ==
    ASSUME Goroutines, KeysInv, EdgesOK(db), EdgesOK(db'), Mended(graph, db, handler),
           NEW i \in DOMAIN handler, At(i, "store"), NEW d, NEW K, NEW todo, NEW doc,
           Stored(i, d, K, todo, doc), ~overtaken',
           NEW h, h = handler'[i], HandlerOK(h, d), InFlight(h),
           \A k : k \notin K => SameRow(db, d, k),
           \A x \in d.edges : x \in db.edges \/ WillAdd(h, x),
           \A x \in db.edges : x \in d.edges \/ WillCut(h, x)
    PROVE  Mended(graph', db', handler')
  <1>1. /\ Moves(i) /\ db' = d /\ h.keys = K /\ h.req = handler[i].req
    BY StoredMoves DEF Moves
  <1>2. graph' = graph
    BY DEF Stored
  <1>3. /\ DOMAIN handler' = DOMAIN handler
        /\ \A j \in DOMAIN handler \ {i} : handler'[j] = handler[j]
    BY <1>1 DEF Moves
  <1>4. ~InFlight(handler[i])
    BY DEF At, InFlight, Linking, RebuildPcs
  <1>5. \A j \in DOMAIN handler : IsDocumentKey(handler'[j].req.key)
    BY <1>1, <1>3 DEF KeysInv
  <1>6. ASSUME NEW j \in DOMAIN handler \ {i}, InFlight(handler[j])
        PROVE  Passes(db, d, h, handler[j])
    <2>1. ~Overtakes(i, j, d, K)
      BY Zenon DEF Stored
    <2>2. handler[j].pc \in {"reget", "node", "look", "cut", "link", "unlink", "clear", "scan", "load"}
      BY <1>6 DEF InFlight, Linking, RebuildPcs
    <2>3. /\ handler[i].req.op # "rebuild" /\ handler[j].req.op # "rebuild"
          /\ handler[j].keys \cap K = {}
          /\ handler[i].req.op = "delete" => node(handler[i].req.key) \notin Named(db, handler[j].keys)
          /\ handler[j].req.op = "delete" => node(handler[j].req.key) \notin Named(d, K)
      BY <2>1, <2>2 DEF Overtakes, Is, Req
    <2> QED
      BY <1>1, <2>3 DEF Passes
  <1> QED
    BY <1>1, <1>2, <1>3, <1>4, <1>5, <1>6, StoreStep

\* The keys a write leaves to be linked, in their order.
Lists(todo, K) ==
    \/ todo = <<todo[1]>> /\ K = {todo[1]}
    \/ todo = <<todo[1], todo[2]>> /\ todo[1] # todo[2] /\ K = {todo[1], todo[2]}

\* A stored document, or two of a commit.
LEMMA WriteMends ==
    ASSUME Goroutines, KeysInv, EdgesOK(db), EdgesOK(db'), Mended(graph, db, handler),
           NEW i \in DOMAIN handler, At(i, "store"), NEW d, NEW K, NEW todo, NEW doc,
           Stored(i, d, K, todo, doc), ~overtaken', ~Is(i, {"delete", "rebuild"}),
           Rewrites(db, d, K), Lists(todo, K), Is(i, {"patch", "commit"}) \/ todo = <<todo[1]>>,
           Is(i, {"patch", "commit"}) \/ /\ ExtractEntityEdges(todo[1], doc) = RefsOf(d, todo[1])
                                         /\ ~DuplicateTarget(doc)
    PROVE  Mended(graph', db', handler')
  <1>1. PICK h : h = handler'[i]
    OBVIOUS
  <1>2. db' = d
    BY DEF Stored
  <1>3. Shape(handler[i])
    BY DEF Goroutines
  <1>4. /\ h.req = handler[i].req /\ h.keys = K /\ h.todo = todo /\ h.doc = doc
        /\ h.pc = IF Is(i, {"patch", "commit"}) THEN "reget" ELSE "node"
    <2>1. \E p : /\ handler' = [handler EXCEPT ![i] = [handler[i] EXCEPT !.todo = todo, !.doc = doc,
                                                                         !.keys = K, !.pc = p]]
                 /\ p = IF Is(i, {"patch", "commit"}) THEN "reget" ELSE "node"
      BY DEF Stored, Go, Is
    <2> QED
      BY <1>1, <1>3, <2>1 DEF Shape
  <1>5. \A k : Owed(h, k) <=> k \in K
    <2>1. CASE todo = <<todo[1]>> /\ K = {todo[1]}
      <3>1. Len(h.todo) = 1
        BY <1>4, <2>1
      <3> QED
        BY <1>4, <2>1, <3>1 DEF Owed, Later
    <2>2. CASE todo = <<todo[1], todo[2]>> /\ todo[1] # todo[2] /\ K = {todo[1], todo[2]}
      <3>1. Len(h.todo) = 2
        BY <1>4, <2>2
      <3> QED
        BY <1>4, <2>2, <3>1 DEF Owed, Later
    <2> QED
      BY <2>1, <2>2 DEF Lists
  <1>6. h.pc \in {"reget", "node"} /\ InFlight(h)
    BY <1>4 DEF InFlight, Linking
  <1>7. h.req.op \notin {"delete", "rebuild"} /\ (Is(i, {"patch", "commit"}) <=> h.req.op \in {"patch", "commit"})
    BY <1>4 DEF Is, Req
  <1>8. \A k \in K : Has(d, k) /\ RefsOf(d, k) \subseteq d.edges
    BY DEF Rewrites
  <1>9. \/ h.todo = <<h.todo[1]>>
        \/ h.todo = <<h.todo[1], h.todo[2]>> /\ h.todo[1] # h.todo[2] /\ h.req.op \in {"patch", "commit"}
    BY <1>4, <1>7 DEF Lists
  <1>10. h.pc = "node" => /\ ExtractEntityEdges(h.todo[1], h.doc) = RefsOf(d, h.todo[1])
                          /\ ~DuplicateTarget(h.doc)
    BY <1>4
  <1>11. HandlerOK(h, d)
    BY <1>4, <1>5, <1>6, <1>7, <1>8, <1>9, <1>10 DEF HandlerOK, RebuildPcs
  <1>12. \A x : Source(x) \in K => WillAdd(h, x) /\ WillCut(h, x)
    BY <1>5, <1>6 DEF WillAdd, WillCut
  <1>13. \A k : k \notin K => SameRow(db, d, k)
    BY DEF Rewrites
  <1>14. \A x : x \in d.edges \/ x \in db.edges => IsEdge(x)
    BY <1>2 DEF EdgesOK
  <1>15. /\ \A x \in d.edges : x \in db.edges \/ WillAdd(h, x)
         /\ \A x \in db.edges : x \in d.edges \/ WillCut(h, x)
    BY <1>12, <1>14 DEF Rewrites
  <1> QED
    BY <1>1, <1>6, <1>11, <1>13, <1>15, StoredMends

\* A deleted row has no edges left at either end.
LEMMA DeleteMends ==
    ASSUME Goroutines, KeysInv, EdgesOK(db), EdgesOK(db'), Mended(graph, db, handler), WellFormed(db),
           NEW i \in DOMAIN handler, At(i, "store"), Is(i, {"delete"}),
           NEW d, d = deleteInner(db, Adapted, Req(i).key).db,
           Stored(i, d, {Req(i).key}, << >>, << >>), ~overtaken'
    PROVE  Mended(graph', db', handler')
  <1>1. PICK h, k : h = handler'[i] /\ k = Req(i).key
    OBVIOUS
  <1>2. db' = d
    BY DEF Stored
  <1>3. Shape(handler[i])
    BY DEF Goroutines
  <1>4. h.req = handler[i].req /\ h.keys = {k} /\ h.pc = "unlink"
    <2>1. \E p : /\ handler' = [handler EXCEPT ![i] = [handler[i] EXCEPT !.todo = << >>, !.doc = << >>,
                                                                         !.keys = {k}, !.pc = p]]
                 /\ p = "unlink"
      BY <1>1 DEF Stored, Go, Is
    <2> QED
      BY <1>1, <1>3, <2>1 DEF Shape
  <1>5. h.req.op = "delete" /\ h.req.key = k
    BY <1>1, <1>4 DEF Is, Req
  <1>6. Has(db, k)
    <2>1. ~Outrun(i)
      BY ZenonT(60) DEF Stored
    <2> QED
      BY <1>1, <2>1 DEF Outrun, Has
  <1>7. d.edges = {x \in db.edges : x.tenant # k[1] \/ <<k[2], k[3]>> \notin {x.source, x.target}}
    BY <1>1, <1>6 DEF deleteInner, Has, reply, WellFormed
  <1>8. IsDocumentKey(k)
    BY <1>1 DEF KeysInv, Req
  <1>9. ASSUME NEW x \in db.edges
        PROVE  node(k) \in {From(x), To(x)} <=> x \notin d.edges
    <2>1. IsEdge(x)
      BY DEF EdgesOK
    <2>2. From(x) = NodeID(x.tenant, x.source[1], x.source[2]) /\ To(x) = NodeID(x.tenant, x.target[1], x.target[2])
      BY <2>1, Ends
    <2>3. x.source = <<x.source[1], x.source[2]>> /\ x.target = <<x.target[1], x.target[2]>>
      BY <2>1 DEF IsEdge
    <2>4. node(k) = From(x) <=> x.tenant = k[1] /\ x.source = <<k[2], k[3]>>
      BY <2>2, <2>3 DEF node, NodeID
    <2>5. node(k) = To(x) <=> x.tenant = k[1] /\ x.target = <<k[2], k[3]>>
      BY <2>2, <2>3 DEF node, NodeID
    <2> QED
      BY <1>7, <2>4, <2>5
  <1>10. \A x \in d.edges : x \in db.edges
    BY <1>7
  <1>11. HandlerOK(h, d) /\ InFlight(h)
    BY <1>4, <1>5, <1>9, <1>10 DEF HandlerOK, InFlight, Linking, RebuildPcs
  <1>12. \A x \in db.edges : x \in d.edges \/ WillCut(h, x)
    BY <1>4, <1>5, <1>9 DEF WillCut
  <1>13. \A l : l \notin {k} => SameRow(db, d, l)
    BY <1>1, DeleteRemoves
  <1> QED
    BY <1>1, <1>10, <1>11, <1>12, <1>13, StoredMends

\* A rebuild replaces the edges; the graph will be emptied and loaded.
LEMMA RebuildMends ==
    ASSUME Goroutines, KeysInv, EdgesOK(db), EdgesOK(db'), Mended(graph, db, handler), WellFormed(db),
           NEW i \in DOMAIN handler, At(i, "store"), Is(i, {"rebuild"}),
           NEW d, NEW t, d = RebuildGraph(db, t), Stored(i, d, {}, << >>, << >>), ~overtaken'
    PROVE  Mended(graph', db', handler')
  <1>1. PICK h : h = handler'[i]
    OBVIOUS
  <1>3. Shape(handler[i])
    BY DEF Goroutines
  <1>4. h.req = handler[i].req /\ h.keys = {} /\ h.pc = "clear"
    <2>1. \E p : /\ handler' = [handler EXCEPT ![i] = [handler[i] EXCEPT !.todo = << >>, !.doc = << >>,
                                                                         !.keys = {}, !.pc = p]]
                 /\ p = "clear"
      BY DEF Stored, Go, Is
    <2> QED
      BY <1>1, <1>3, <2>1 DEF Shape
  <1>5. h.req.op = "rebuild"
    BY <1>4 DEF Is, Req
  <1>6. HandlerOK(h, d) /\ InFlight(h)
    BY <1>4, <1>5 DEF HandlerOK, InFlight, Linking, RebuildPcs
  <1>7. \A x : WillAdd(h, x) /\ WillCut(h, x)
    BY <1>4 DEF WillAdd, WillCut
  <1>8. d.entities = db.entities /\ d.adapted = db.adapted
    <2>1. \E X : d = [db EXCEPT !.edges = X]
      BY Zenon DEF RebuildGraph
    <2> QED
      BY <2>1 DEF WellFormed
  <1>9. \A k : SameRow(db, d, k)
    BY <1>8 DEF SameRow, Has, RowOf, Exists, Get, rowsOf
  <1> QED
    BY <1>1, <1>6, <1>7, <1>9, StoredMends

\* What the answer of the store leaves to be shown.
LEMMA SettleMends ==
    ASSUME Goroutines, KeysInv, EdgesOK(db), EdgesOK(db'), Mended(graph, db, handler), ~overtaken',
           NEW i \in DOMAIN handler, At(i, "store"), NEW w, NEW K, NEW todo, NEW doc,
           Settle(i, w, K, todo, doc), ~Is(i, {"delete", "rebuild"}),
           Succeeds(w) => /\ Rewrites(db, w.db, K) /\ Lists(todo, K)
                          /\ Is(i, {"patch", "commit"}) \/
                                 /\ todo = <<todo[1]>>
                                 /\ ExtractEntityEdges(todo[1], doc) = RefsOf(w.db, todo[1])
                                 /\ ~DuplicateTarget(doc)
    PROVE  Mended(graph', db', handler') \/ (Done(i) /\ UNCHANGED <<config, db, graph, cache, history>>)
  <1>1. CASE Succeeds(w)
    <2>1. Stored(i, w.db, K, todo, doc)
      BY <1>1 DEF Settle, Succeeds
    <2> QED
      BY <1>1, <2>1, WriteMends
  <1>2. CASE ~Succeeds(w)
    BY <1>2 DEF Settle, Succeeds
  <1> QED
    BY <1>1, <1>2

\* A write of one document.
LEMMA SavedMends ==
    ASSUME Goroutines, KeysInv, EdgesOK(db), EdgesOK(db'), Mended(graph, db, handler), ~overtaken',
           NEW i \in DOMAIN handler, At(i, "store"), NEW w, NEW k, NEW data,
           Settle(i, w, {k}, <<k>>, data), ~Is(i, {"delete", "rebuild"}),
           Succeeds(w) => Saves(db, w.db, k, data)
    PROVE  Mended(graph', db', handler') \/ (Done(i) /\ UNCHANGED <<config, db, graph, cache, history>>)
  <1>1. PICK todo, K : todo = <<k>> /\ K = {k}
    OBVIOUS
  <1>2. todo[1] = k /\ todo = <<todo[1]>> /\ Lists(todo, K)
    BY <1>1 DEF Lists
  <1>3. Succeeds(w) => /\ Rewrites(db, w.db, K)
                       /\ ExtractEntityEdges(todo[1], data) = RefsOf(w.db, todo[1])
                       /\ ~DuplicateTarget(data)
    <2> SUFFICES ASSUME Succeeds(w)
                 PROVE  /\ Rewrites(db, w.db, K)
                        /\ ExtractEntityEdges(todo[1], data) = RefsOf(w.db, todo[1])
                        /\ ~DuplicateTarget(data)
      OBVIOUS
    <2>1. /\ Rewrites(db, w.db, {k}) /\ RefsOf(w.db, k) = ExtractEntityEdges(k, data)
          /\ ~DuplicateTarget(data)
      BY SavesRewrite
    <2> QED
      BY <1>1, <1>2, <2>1
  <1>4. Settle(i, w, K, todo, data)
    BY <1>1
  <1> QED
    BY <1>2, <1>3, <1>4, SettleMends

\* Every write of the store.
LEMMA WritesMend ==
    ASSUME Goroutines, StoreInv, KeysInv, EdgesOK(db), EdgesOK(db'), Mended(graph, db, handler), ~overtaken',
           NEW i \in DOMAIN handler,
           \/ Create(i) \/ Update(i) \/ Upsert(i) \/ Patch(i) \/ Commit(i) \/ Delete(i)
           \/ RebuildStore(i)
    PROVE  Mended(graph', db', handler') \/ (Done(i) /\ UNCHANGED <<config, db, graph, cache, history>>)
  <1> DEFINE r == Req(i)
             key == r.key
  <1>0. /\ IsKey(key) /\ r.id \in Nat
        /\ WellFormed(db) /\ \A t, c : seqOf(db, t, c) \in Nat
    BY DEF StoreInv, StoreOK, RequestOK, SequencesAhead, Req
  <1>1. CASE Create(i)
    <2>1. PICK w : w = createInner(db, Adapted, key[1], key[2], r.data)
      OBVIOUS
    <2>2. PICK k : k = <<key[1], key[2], w.id>>
      OBVIOUS
    <2>3. At(i, "store") /\ Is(i, {"create"}) /\ Settle(i, w, {k}, <<k>>, r.data)
      BY <1>1, <2>1, <2>2 DEF Create
    <2>4. Succeeds(w) => Saves(db, w.db, k, r.data)
      BY <1>0, <2>1, <2>2, CreateSaves
    <2>5. ~Is(i, {"delete", "rebuild"})
      BY <2>3 DEF Is
    <2> QED
      BY <2>3, <2>4, <2>5, SavedMends
  <1>2. CASE Update(i)
    <2>1. PICK w : w = updateInner(db, Adapted, key, r.data, r.version)
      OBVIOUS
    <2>3. At(i, "store") /\ Is(i, {"update"}) /\ Settle(i, w, {key}, <<key>>, r.data)
      BY <1>2, <2>1 DEF Update
    <2>4. Succeeds(w) => Saves(db, w.db, key, r.data)
      BY <1>0, <2>1, UpdateSaves
    <2>5. ~Is(i, {"delete", "rebuild"})
      BY <2>3 DEF Is
    <2> QED
      BY <2>3, <2>4, <2>5, SavedMends
  <1>3. CASE Upsert(i)
    <2>1. PICK w : w = saveInner(db, Adapted, key, r.data, r.version)
      OBVIOUS
    <2>3. At(i, "store") /\ Is(i, {"save"}) /\ Settle(i, w, {key}, <<key>>, r.data)
      BY <1>3, <2>1 DEF Upsert
    <2>4. Succeeds(w) => Saves(db, w.db, key, r.data)
      BY <1>0, <2>1, SaveSaves
    <2>5. ~Is(i, {"delete", "rebuild"})
      BY <2>3 DEF Is
    <2> QED
      BY <2>3, <2>4, <2>5, SavedMends
  <1>4. CASE Patch(i)
    <2> DEFINE nulls == {f \in DOMAIN r.data : r.data[f] = Null}
               drops == IF config.PatchNullBehavior = "delete" THEN nulls ELSE {}
               valid == Exists(db, Adapted, key) =>
                            validateGraphEdges(graph, key, merged(db, Adapted, key, r.data, drops)) = ""
    <2>1. valid \in BOOLEAN
      BY Zenon
    <2>2. PICK w, m : /\ w = patchInner(db, Adapted, key, r.data, drops, r.version, valid)
                      /\ m = merged(db, Adapted, key, r.data, drops)
      OBVIOUS
    <2>3. At(i, "store") /\ Is(i, {"patch"}) /\ Settle(i, w, {key}, <<key>>, r.data)
      BY <1>4, <2>2, Zenon DEF Patch
    <2> HIDE DEF valid, drops
    <2>4. Succeeds(w) => w = updateInner(db, Adapted, key, m, r.version)
      BY <2>1, <2>2 DEF patchInner, reply, Succeeds
    <2>5. Succeeds(w) => Saves(db, w.db, key, m)
      BY <1>0, <2>4, UpdateSaves
    <2>6. ~Is(i, {"delete", "rebuild"}) /\ Is(i, {"patch", "commit"})
      BY <2>3 DEF Is
    <2>7. PICK l : l = key
      OBVIOUS
    <2>8. Lists(<<l>>, {l})
      BY DEF Lists
    <2>9. Succeeds(w) => Rewrites(db, w.db, {key})
      BY <2>5, SavesRewrite
    <2> QED
      BY <2>3, <2>6, <2>7, <2>8, <2>9, SettleMends
  <1>5. CASE Commit(i)
    <2>1. PICK w : w = commitInner(db, Adapted, key, r.data, r.version, r.append, r.id, r.extra)
      OBVIOUS
    <2>2. PICK k : k = <<key[1], r.append, w.id>>
      OBVIOUS
    <2>3. At(i, "store") /\ Is(i, {"commit"}) /\ Settle(i, w, {key, k}, <<key, k>>, r.data)
      BY <1>5, <2>1, <2>2 DEF Commit
    <2>4. Succeeds(w) => Rewrites(db, w.db, {key, k}) /\ key # k
      BY <1>0, <2>1, <2>2, CommitRewrites
    <2>5. ~Is(i, {"delete", "rebuild"}) /\ Is(i, {"patch", "commit"})
      BY <2>3 DEF Is
    <2>6. PICK l : l = key
      OBVIOUS
    <2>7. Succeeds(w) => Lists(<<l, k>>, {l, k})
      BY <2>4, <2>6 DEF Lists
    <2> QED
      BY <2>3, <2>4, <2>5, <2>6, <2>7, SettleMends
  <1>6. CASE Delete(i)
    <2>1. PICK d : d = deleteInner(db, Adapted, key).db
      OBVIOUS
    <2>2. At(i, "store") /\ Is(i, {"delete"})
      BY <1>6, Zenon DEF Delete
    <2>3. \/ Done(i) /\ UNCHANGED <<config, db, graph, cache, history>>
          \/ Stored(i, d, {key}, << >>, << >>)
      <3>1. cascadeDelete(key).db = d
        BY <2>1 DEF cascadeDelete, deleteInner, reply
      <3> QED
        BY <1>6, <2>1, <3>1, Zenon DEF Delete
    <2> QED
      BY <1>0, <2>1, <2>2, <2>3, DeleteMends
  <1>7. CASE RebuildStore(i)
    <2>1. PICK d, t : d = RebuildGraph(db, t) /\ t = key[1]
      OBVIOUS
    <2>2. At(i, "store") /\ Is(i, {"rebuild"}) /\ Stored(i, d, {}, << >>, << >>)
      BY <1>7, <2>1 DEF RebuildStore
    <2> QED
      BY <1>0, <2>1, <2>2, RebuildMends
  <1> QED
    BY <1>1, <1>2, <1>3, <1>4, <1>5, <1>6, <1>7

\* A step that touches neither store nor graph nor the work of a request.
SameWork(h, k) ==
    \/ ~InFlight(h) /\ ~InFlight(k)
    \/ /\ k.pc = h.pc /\ k.req = h.req /\ k.keys = h.keys
       /\ k.todo = h.todo /\ k.doc = h.doc /\ k.old = h.old /\ k.new = h.new

LEMMA QuietMends ==
    ASSUME NEW g, NEW d, NEW H, Mended(g, d, H), NEW K, DOMAIN K = DOMAIN H,
           \A j \in DOMAIN H : SameWork(H[j], K[j])
    PROVE  Mended(g, d, K)
  <1>1. ASSUME NEW j \in DOMAIN H
        PROVE  /\ HandlerOK(K[j], d)
               /\ InFlight(K[j]) => InFlight(H[j]) /\ K[j].req = H[j].req /\ K[j].keys = H[j].keys
               /\ \A x : (WillAdd(H[j], x) => WillAdd(K[j], x)) /\ (WillCut(H[j], x) => WillCut(K[j], x))
    <2>1. CASE ~InFlight(H[j]) /\ ~InFlight(K[j])
      BY <2>1 DEF InFlight, Linking, RebuildPcs, HandlerOK, WillAdd, WillCut
    <2>2. CASE InFlight(H[j]) \/ InFlight(K[j])
      <3>1. PICK h, k : h = H[j] /\ k = K[j]
        OBVIOUS
      <3>2. /\ k.pc = h.pc /\ k.req = h.req /\ k.keys = h.keys
            /\ k.todo = h.todo /\ k.doc = h.doc /\ k.old = h.old /\ k.new = h.new
        BY <2>2, <3>1 DEF SameWork
      <3>3. \A y : (Owed(k, y) <=> Owed(h, y)) /\ (Later(k, y) <=> Later(h, y))
        BY <3>2 DEF Owed, Later
      <3>4. HandlerOK(h, d)
        BY <3>1 DEF Mended
      <3>5. HandlerOK(k, d)
        BY <3>2, <3>3, <3>4 DEF HandlerOK
      <3>6. \A x : (WillAdd(h, x) => WillAdd(k, x)) /\ (WillCut(h, x) => WillCut(k, x))
        BY <3>2, <3>3 DEF WillAdd, WillCut
      <3>7. InFlight(k) => InFlight(h)
        BY <3>2 DEF InFlight
      <3> QED
        BY <3>1, <3>2, <3>5, <3>6, <3>7
    <2> QED
      BY <2>1, <2>2
  <1>2. AllApart(K, d)
    <2> SUFFICES ASSUME NEW a \in DOMAIN K, NEW b \in DOMAIN K, a # b, InFlight(K[a]), InFlight(K[b])
                 PROVE  Apart(K[a], K[b], d)
      BY DEF AllApart
    <2>1. Apart(H[a], H[b], d)
      BY <1>1 DEF Mended, AllApart
    <2> QED
      BY <1>1, <2>1 DEF Apart
  <1>3. Agree(g, d, K)
    BY <1>1 DEF Mended, Agree
  <1> QED
    BY <1>1, <1>2, <1>3 DEF Mended

\* The edges of a consistent store.
LEMMA StoreEdges ==
    ASSUME NEW d, NEW U, NEW D, NEW b, StoreOK(d, U, D, b), \A k \in U : IsDocumentKey(k)
    PROVE  EdgesOK(d)
  <1>1. \A k : Has(d, k) => /\ IsDocumentKey(k) /\ IsKey(k) /\ k[1] \in Tenants
                            /\ ~DuplicateTarget(RowOf(d, k).data)
    BY DEF StoreOK, SequencesAhead, TablesOK, IsDocumentKey
  <1>2. ASSUME NEW x \in d.edges
        PROVE  IsEdge(x) /\ x.tenant \in Tenants /\ Has(d, Source(x)) /\ x \in RefsOf(d, Source(x))
    <2>1. Has(d, Source(x)) /\ x \in RefsOf(d, Source(x))
      BY DEF StoreOK, EdgesSaid
    <2>2. PICK k : k = Source(x)
      OBVIOUS
    <2>3. IsEdge(x) /\ x.tenant = k[1]
      BY <1>1, <2>1, <2>2, RefEdge DEF RefsOf
    <2> QED
      BY <1>1, <2>1, <2>2, <2>3
  <1> QED
    BY <1>1, <1>2 DEF EdgesOK

\* The reads and checks of a request leave the graph alone.
LEMMA ReadersLeave ==
    ASSUME NEW i, \/ Check(i) \/ Hit(i) \/ Miss(i) \/ Read(i) \/ Count(i) \/ Page(i) \/ Fill(i)
                  \/ Invalidate(i)
    PROVE  UNCHANGED <<config, graph, overtaken>>
  BY DEF Check, Hit, Miss, Read, Count, Page, Fill, Invalidate, history

\* The settings are read once, and what was overtaken stays so.
LEMMA ConfigStays ==
    ASSUME [Next]_vars
    PROVE  config' = config /\ (overtaken => overtaken')
  <1>1. ASSUME NEW i, \/ Reget(i) \/ PutNode(i) \/ Look(i) \/ Cut(i) \/ Link(i) \/ removeGraph(i)
                      \/ ClearGraph(i) \/ Scan(i) \/ LoadEdge(i)
        PROVE  config' = config /\ (overtaken => overtaken')
    <2>1. quiet
      <3>1. CASE Reget(i) \/ PutNode(i) \/ Look(i)
        BY <3>1, Zenon DEF Reget, PutNode, Look
      <3>2. CASE Cut(i) \/ Link(i) \/ removeGraph(i)
        BY <3>2, Zenon DEF Cut, Link, removeGraph
      <3>3. CASE ClearGraph(i) \/ Scan(i) \/ LoadEdge(i)
        BY <3>3, Zenon DEF ClearGraph, Scan, LoadEdge
      <3> QED
        BY <1>1, <3>1, <3>2, <3>3
    <2> QED
      BY <2>1 DEF quiet, history
  <1>2. ASSUME NEW i, NEW d, NEW K, NEW todo, NEW doc, Stored(i, d, K, todo, doc)
        PROVE  config' = config /\ (overtaken => overtaken')
    BY <1>2, Zenon DEF Stored
  <1>3. ASSUME NEW i, NEW w, NEW K, NEW todo, NEW doc, Settle(i, w, K, todo, doc)
        PROVE  config' = config /\ (overtaken => overtaken')
    BY <1>2, <1>3, Zenon DEF Settle, history
  <1>4. ASSUME NEW i, Create(i) \/ Update(i) \/ Upsert(i) \/ Patch(i) \/ Commit(i)
        PROVE  config' = config /\ (overtaken => overtaken')
    BY <1>3, <1>4, Zenon DEF Create, Update, Upsert, Patch, Commit
  <1>5. ASSUME NEW i, Delete(i) \/ RebuildStore(i)
        PROVE  config' = config /\ (overtaken => overtaken')
    BY <1>2, <1>5, Zenon DEF Delete, RebuildStore, history
  <1>6. CASE \E c \in DOMAIN cache : Evict(c)
    BY <1>6 DEF Evict
  <1>7. CASE UNCHANGED vars
    BY <1>7 DEF vars
  <1> QED
    BY <1>1, <1>4, <1>5, <1>6, <1>7, ReadersLeave DEF Next

\* What a write stores, it stores under the key of its route or what a commit
\* appends.
LEMMA UsedGrows ==
    ASSUME NEW i,
           \/ Create(i) \/ Update(i) \/ Upsert(i) \/ Patch(i) \/ Commit(i) \/ Delete(i)
           \/ RebuildStore(i)
    PROVE  \E c \in {Req(i).key[2], Req(i).append} : \E n :
               used' \subseteq used \cup {Req(i).key, <<Req(i).key[1], c, n>>}
  <1> DEFINE key == Req(i).key
  <1>1. ASSUME NEW d, NEW K, NEW todo, NEW doc, Stored(i, d, K, todo, doc)
        PROVE  used' = used \cup K
    BY <1>1 DEF Stored
  <1>2. ASSUME NEW w, NEW K, NEW todo, NEW doc, Settle(i, w, K, todo, doc)
        PROVE  used' \subseteq used \cup K
    BY <1>1, <1>2 DEF Settle, history
  <1>3. CASE Create(i)
    <2>1. PICK w, todo, doc : Settle(i, w, {<<key[1], key[2], w.id>>}, todo, doc)
      BY <1>3, Zenon DEF Create
    <2> QED
      BY <1>2, <2>1
  <1>4. CASE Update(i) \/ Upsert(i) \/ Patch(i)
    <2>1. PICK w, todo, doc : Settle(i, w, {key}, todo, doc)
      BY <1>4, Zenon DEF Update, Upsert, Patch
    <2> QED
      BY <1>2, <2>1
  <1>5. CASE Commit(i)
    <2>1. PICK w, todo, doc : Settle(i, w, {key, <<key[1], Req(i).append, w.id>>}, todo, doc)
      BY <1>5, Zenon DEF Commit
    <2> QED
      BY <1>2, <2>1
  <1>6. CASE Delete(i) \/ RebuildStore(i)
    <2>1. used' = used \/ \E d, todo, doc : Stored(i, d, {key}, todo, doc) \/ Stored(i, d, {}, todo, doc)
      BY <1>6, Zenon DEF Delete, RebuildStore, history
    <2> QED
      BY <1>1, <2>1
  <1> QED
    BY <1>3, <1>4, <1>5, <1>6

\* The goroutine of i is at no step of the graph, before or after.
LEMMA IdleMends ==
    ASSUME Mended(graph, db, handler), UNCHANGED <<graph, db>>, NEW i \in DOMAIN handler, Moves(i),
           ~InFlight(handler[i]), ~InFlight(handler'[i])
    PROVE  Mended(graph', db', handler')
  <1>1. DOMAIN handler' = DOMAIN handler /\ \A j \in DOMAIN handler : SameWork(handler[j], handler'[j])
    BY DEF Moves, SameWork
  <1> QED
    BY <1>1, QuietMends

LEMMA InvalidateMends ==
    ASSUME Goroutines, Mended(graph, db, handler), NEW i \in DOMAIN handler, Invalidate(i)
    PROVE  Mended(graph', db', handler')
  <1>1. UNCHANGED <<graph, db>> /\ DOMAIN handler' = DOMAIN handler
    BY DEF Invalidate
  <1>2. handler'[i].pc = "done" /\ handler[i].pc = "invalidate"
    BY InvalidateMoves DEF At
  <1>3. ASSUME NEW j \in DOMAIN handler, j # i
        PROVE  SameWork(handler[j], handler'[j])
    <2>1. PICK o : handler'[j] = [handler[j] EXCEPT !.outrun = o]
      BY <1>3 DEF Invalidate
    <2>2. Shape(handler[j])
      BY DEF Goroutines
    <2> QED
      BY <2>1, <2>2 DEF SameWork, Shape
  <1>4. SameWork(handler[i], handler'[i])
    BY <1>2 DEF SameWork, InFlight, Linking, RebuildPcs
  <1> QED
    BY <1>1, <1>3, <1>4, QuietMends

\* The edges of the documents a run starts with.
LEMMA StartEdges == EdgesOK(startDB) /\ IsFiniteSet(startDB.edges)
  <1>1. PICK D, E : D = DOMAIN Start /\ E = startDB.edges
    OBVIOUS
  <1>2. StoreOK(startDB, D, {}, FALSE)
    BY <1>1, StartConsistent
  <1>3. \A k \in D : IsDocumentKey(k) /\ IsFiniteSet(DOMAIN Start[k])
    BY <1>1, StartAssumption
  <1>4. EdgesOK(startDB)
    BY <1>2, <1>3, StoreEdges
  <1>5. IsFiniteSet(E)
    <2> DEFINE F == {ExtractEntityEdges(k, Start[k]) : k \in D}
    <2>1. IsFiniteSet(F)
      <3>1. PICK f : f = [k \in D |-> ExtractEntityEdges(k, Start[k])]
        OBVIOUS
      <3>2. f \in Surjection(D, F)
        BY <3>1 DEF Surjection
      <3>3. IsFiniteSet(D)
        BY <1>1, StartAssumption
      <3> HIDE DEF F
      <3> QED
        BY <3>2, <3>3, FS_Surjection
    <2>2. ASSUME NEW k \in D PROVE IsFiniteSet(ExtractEntityEdges(k, Start[k]))
      <3>1. ExtractRefs(Start[k]) \subseteq DOMAIN Start[k]
        BY DEF ExtractRefs
      <3>2. IsFiniteSet(ExtractRefs(Start[k]))
        BY <1>3, <3>1, FS_Subset
      <3>3. PICK f : f = [r \in ExtractRefs(Start[k]) |->
                [tenant |-> k[1], source |-> <<k[2], k[3]>>,
                 target |-> <<Start[k][r][2], Start[k][r][3]>>, rel |-> r]]
        OBVIOUS
      <3>4. f \in Surjection(ExtractRefs(Start[k]), ExtractEntityEdges(k, Start[k]))
        BY <3>3 DEF Surjection, ExtractEntityEdges
      <3> QED
        BY <3>2, <3>4, FS_Surjection
    <2>3. \A T \in F : IsFiniteSet(T)
      BY <2>2
    <2>4. E = UNION F
      <3>1. \E A, B, S : startDB = [NewSQLiteStore EXCEPT !.entities = A, !.adapted = B, !.sequences = S,
                                                          !.edges = UNION F]
        BY <1>1, Zenon DEF startDB
      <3> HIDE DEF F
      <3> QED
        BY <1>1, <3>1 DEF NewSQLiteStore
    <2> HIDE DEF F
    <2> QED
      BY <2>1, <2>3, <2>4, FS_UNION
  <1> QED
    BY <1>1, <1>4, <1>5

\* loadEntitiesFromEdgeTable builds the graph the edge table describes.
LEMMA StartMended ==
    ASSUME Init, config.cycleDetection # "error"
    PROVE  Mended(graph, db, handler)
  <1>1. PICK g0, E : /\ g0 = newFlatGraph(Tenants, config.cycleDetection, 0)
                     /\ E = startDB.edges
    OBVIOUS
  <1>2. GraphOK(g0) /\ DOMAIN g0.out = {}
    BY <1>1, NewGraph
  <1>3. EdgesOK(startDB) /\ IsFiniteSet(E)
    BY <1>1, StartEdges
  <1>4. graph = FoldSet(LAMBDA e, g : loadEdge(g, e), g0, E) /\ db = startDB
    BY <1>1, Zenon DEF Init, startGraph
  <1>5. \A x \in E : IsEdge(x)
    BY <1>1, <1>3 DEF EdgesOK
  <1>6. /\ GraphOK(graph)
        /\ \A x \in E : <<From(x), To(x)>> \in DOMAIN graph.out
        /\ \A e \in DOMAIN graph.out : \E x \in E : e = <<From(x), To(x)>> /\ graph.out[e] = x.rel
    <2>1. PICK g : g = graph
      OBVIOUS
    <2>2. g = LoadAll(g0, E)
      BY <1>4, <2>1, Zenon DEF LoadAll
    <2>3. /\ GraphOK(g)
          /\ \A x \in E : <<From(x), To(x)>> \in DOMAIN g.out
          /\ \A e \in DOMAIN g.out : \E x \in E : e = <<From(x), To(x)>> /\ g.out[e] = x.rel
      BY <1>2, <1>3, <1>5, <2>2, LoadedGraph
    <2> QED
      BY <2>1, <2>3
  <1>7. ASSUME NEW x \in db.edges
        PROVE  Linked(graph, x)
    <2>1. x \in E
      BY <1>1, <1>4
    <2>2. <<From(x), To(x)>> \in DOMAIN graph.out
      BY <1>6, <2>1
    <2>3. PICK y \in E : <<From(x), To(x)>> = <<From(y), To(y)>> /\ graph.out[<<From(x), To(x)>>] = y.rel
      BY <1>6, <2>2
    <2>4. x = y
      BY <1>1, <1>3, <1>5, <2>1, <2>3, SameEnds
    <2> QED
      BY <2>2, <2>3, <2>4 DEF Linked
  <1>8. ASSUME NEW x, IsEdge(x), Linked(graph, x)
        PROVE  x \in db.edges
    <2>1. PICK y \in E : <<From(x), To(x)>> = <<From(y), To(y)>> /\ x.rel = y.rel
      BY <1>6, <1>8 DEF Linked
    <2>2. IsEdge(y)
      BY <1>5
    <2>3. x.tenant = y.tenant /\ x.source = y.source /\ x.target = y.target
      BY <1>8, <2>1, <2>2, Ends
    <2>4. x = y
      BY <1>8, <2>1, <2>2, <2>3 DEF IsEdge
    <2> QED
      BY <1>1, <1>4, <2>4
  <1>9. \A j \in DOMAIN handler : handler[j].pc = "arrive"
    BY DEF Init
  <1>10. \A j \in DOMAIN handler : HandlerOK(handler[j], db) /\ ~InFlight(handler[j])
    BY <1>9 DEF HandlerOK, InFlight, Linking, RebuildPcs
  <1> QED
    BY <1>6, <1>7, <1>8, <1>10 DEF Mended, AllApart, Agree

\* Whatever is stored has a key of a route or of a commit.
LEMMA KeysInvariant == Spec => []KeysInv
  <1>1. Init => KeysInv
    <2> SUFFICES ASSUME Init PROVE KeysInv
      OBVIOUS
    <2>1. used = DOMAIN Start
      BY DEF Init
    <2>2. PICK menu \in Menus : handler = [i \in DOMAIN menu |->
                [pc |-> "arrive", req |-> menu[i], todo |-> << >>, doc |-> << >>, old |-> {},
                 new |-> {}, keys |-> {}, got |-> << >>, outrun |-> FALSE]]
      BY DEF Init
    <2> QED
      BY <2>1, <2>2, StartAssumption, RequestsAssumption DEF KeysInv
  <1>2. KeysInv /\ StoreInv /\ StoreInv' /\ Goroutines /\ [Next]_vars => KeysInv'
    <2> SUFFICES ASSUME KeysInv, StoreInv, StoreInv', Goroutines, [Next]_vars PROVE KeysInv'
      OBVIOUS
    <2>1. ASSUME NEW i \in DOMAIN handler, Moves(i)
          PROVE  \A j \in DOMAIN handler' : IsDocumentKey(handler'[j].req.key) /\ handler'[j].req.append # ""
      BY <2>1 DEF Moves, KeysInv
    <2>2. ASSUME NEW i \in DOMAIN handler,
                 \/ Create(i) \/ Update(i) \/ Upsert(i) \/ Patch(i) \/ Commit(i) \/ Delete(i)
                 \/ RebuildStore(i)
          PROVE  KeysInv'
      <3>1. Moves(i)
        BY <2>2, Writes DEF StoreInv, StoreOK, GivesUp, Commits
      <3>2. PICK c \in {Req(i).key[2], Req(i).append} : \E n :
                used' \subseteq used \cup {Req(i).key, <<Req(i).key[1], c, n>>}
        BY <2>2, UsedGrows
      <3>3. PICK n : used' \subseteq used \cup {Req(i).key, <<Req(i).key[1], c, n>>}
        BY <3>2
      <3>4. IsDocumentKey(Req(i).key) /\ c # ""
        BY DEF KeysInv, Req, IsDocumentKey
      <3>5. \A k \in used' : k[3] \in Nat
        BY DEF StoreInv, StoreOK, SequencesAhead
      <3>6. ASSUME NEW k \in used' PROVE IsDocumentKey(k)
        <4>1. CASE k \in used
          BY <4>1 DEF KeysInv
        <4>2. CASE k = Req(i).key
          BY <3>4, <4>2
        <4>3. CASE k = <<Req(i).key[1], c, n>>
          BY <3>4, <3>5, <4>3 DEF IsDocumentKey
        <4> QED
          BY <3>3, <4>1, <4>2, <4>3
      <3> QED
        BY <2>1, <3>1, <3>6 DEF KeysInv
    <2>3. ASSUME NEW i \in DOMAIN handler,
                 \/ GraphCall(i) \/ GivesUp(i) \/ Check(i) \/ Hit(i) \/ Miss(i) \/ Count(i) \/ Page(i)
                 \/ Fill(i) \/ Finds(i)
          PROVE  KeysInv'
      <3>1. Moves(i) /\ UNCHANGED used
        BY <2>3, CheckMoves, HitMoves, MissMoves, CountMoves, PageMoves, FillMoves
           DEF GraphCall, GivesUp, Finds
      <3> QED
        BY <2>1, <3>1 DEF KeysInv
    <2>4. ASSUME NEW i \in DOMAIN handler, Invalidate(i) PROVE KeysInv'
      <3>1. /\ DOMAIN handler' = DOMAIN handler /\ UNCHANGED used
            /\ \A j \in DOMAIN handler : handler'[j].req = handler[j].req
        BY <2>4, InvalidateMoves
      <3> QED
        BY <3>1 DEF KeysInv
    <2>5. CASE UNCHANGED <<handler, used>>
      BY <2>5 DEF KeysInv
    <2> QED
      BY <2>2, <2>3, <2>4, <2>5, GraphCalls, ReadMoves DEF Next, vars, Evict
  <1> QED
    BY <1>1, <1>2, EntitiesTypeCorrect, StoreInvariant, PTL DEF Spec

\* A request that is at no step of the graph leaves it mended.
LEMMA ReadersMend ==
    ASSUME Goroutines, Mended(graph, db, handler), NEW i \in DOMAIN handler,
           \/ Check(i) \/ Hit(i) \/ Miss(i) \/ Read(i) \/ Count(i) \/ Page(i) \/ Fill(i)
    PROVE  Mended(graph', db', handler')
  <1>1. UNCHANGED graph
    BY ReadersLeave
  <1>2. GivesUp(i) \/ Finds(i) \/ Check(i) \/ Hit(i) \/ Miss(i) \/ Count(i) \/ Page(i) \/ Fill(i)
    BY ReadMoves
  <1>3. /\ Moves(i) /\ UNCHANGED db
        /\ handler[i].pc \in {"arrive", "store", "read", "page", "fill"}
        /\ handler'[i].pc \in {"done", "store", "read", "page", "fill"}
    BY <1>2, CheckMoves, HitMoves, MissMoves, CountMoves, PageMoves, FillMoves
       DEF GivesUp, Finds, At
  <1>4. ~InFlight(handler[i]) /\ ~InFlight(handler'[i])
    BY <1>3 DEF InFlight, Linking, RebuildPcs
  <1> QED
    BY <1>1, <1>3, <1>4, IdleMends

\* The graph and the edge table differ at most where a request in flight is
\* about to mend it, unless one was overtaken.
LEMMA GraphInvariant == Spec => []GraphInv
  <1>1. Init => GraphInv
    BY StartMended DEF Init, GraphInv
  <1>2. /\ GraphInv /\ StoreInv /\ StoreInv' /\ KeysInv /\ KeysInv' /\ Goroutines /\ [Next]_vars
        => GraphInv'
    <2> SUFFICES ASSUME GraphInv, StoreInv, StoreInv', KeysInv, KeysInv', Goroutines, [Next]_vars,
                        config'.cycleDetection # "error", ~overtaken'
                 PROVE  Mended(graph', db', handler')
      BY DEF GraphInv
    <2>1. Mended(graph, db, handler)
      BY ConfigStays DEF GraphInv
    <2>2. EdgesOK(db)
      BY StoreEdges DEF StoreInv, KeysInv
    <2>3. EdgesOK(db')
      <3>1. StoreOK(db', used', deleted', Rebuilt(handler')) /\ \A k \in used' : IsDocumentKey(k)
        BY DEF StoreInv, KeysInv
      <3> QED
        BY <3>1, StoreEdges
    <2>4. ASSUME NEW i \in DOMAIN handler,
                 \/ Create(i) \/ Update(i) \/ Upsert(i) \/ Patch(i) \/ Commit(i) \/ Delete(i)
                 \/ RebuildStore(i)
          PROVE  Mended(graph', db', handler')
      <3>1. Mended(graph', db', handler') \/ (Done(i) /\ UNCHANGED <<config, db, graph, cache, history>>)
        BY <2>1, <2>2, <2>3, <2>4, WritesMend
      <3>2. CASE Done(i) /\ UNCHANGED <<config, db, graph, cache, history>>
        <4>1. Moves(i) /\ handler'[i].pc = "done"
          BY <3>2, DoneMoves
        <4>2. handler[i].pc = "store"
          BY <2>4, Zenon DEF Create, Update, Upsert, Patch, Commit, Delete, RebuildStore, At
        <4>3. ~InFlight(handler[i]) /\ ~InFlight(handler'[i])
          BY <4>1, <4>2 DEF InFlight, Linking, RebuildPcs
        <4> QED
          BY <2>1, <3>2, <4>1, <4>3, IdleMends
      <3> QED
        BY <3>1, <3>2
    <2>5. ASSUME NEW i \in DOMAIN handler,
                 \/ Reget(i) \/ PutNode(i) \/ Look(i) \/ Cut(i) \/ Link(i) \/ removeGraph(i)
                 \/ ClearGraph(i) \/ Scan(i) \/ LoadEdge(i)
          PROVE  Mended(graph', db', handler')
      <3>1. db' = db
        BY <2>5, GraphCalls DEF GraphCall
      <3>2. Mended(graph', db, handler')
        BY <2>1, <2>2, <2>5, RegetMends, PutNodeMends, LookMends, CutMends, LinkMends, UnlinkMends,
           ClearMends, ScanMends, LoadMends
      <3> QED
        BY <3>1, <3>2
    <2>6. ASSUME NEW i \in DOMAIN handler,
                 \/ Check(i) \/ Hit(i) \/ Miss(i) \/ Read(i) \/ Count(i) \/ Page(i) \/ Fill(i)
                 \/ Invalidate(i)
          PROVE  Mended(graph', db', handler')
      BY <2>1, <2>6, ReadersMend, InvalidateMends
    <2>7. CASE UNCHANGED <<graph, db, handler>>
      BY <2>1, <2>7
    <2> QED
      BY <2>4, <2>5, <2>6, <2>7 DEF Next, vars, Evict
  <1> QED
    BY <1>1, <1>2, EntitiesTypeCorrect, StoreInvariant, KeysInvariant, PTL DEF Spec

\* No request in flight: graph and edge table have the same edges.
SameGraph(g, d) ==
    /\ \A x \in d.edges : Linked(g, x)
    /\ \A x : IsEdge(x) /\ Linked(g, x) => x \in d.edges

LEMMA SettledGraph ==
    ASSUME Goroutines, Mended(graph, db, handler), ~Writing
    PROVE  SameGraph(graph, db)
  <1>1. ASSUME NEW j \in DOMAIN handler
        PROVE  ~InFlight(handler[j])
    <2>1. handler[j].pc \in UpdatePcs \cup RebuildPcs => handler[j].pc \in {"arrive", "done"}
      BY DEF Goroutines, Writing
    <2> QED
      BY <2>1 DEF InFlight, Linking, UpdatePcs, RebuildPcs
  <1>2. \A j \in DOMAIN handler : \A x : ~WillAdd(handler[j], x) /\ ~WillCut(handler[j], x)
    BY <1>1 DEF WillAdd, WillCut, InFlight, Linking, RebuildPcs
  <1> QED
    BY <1>2 DEF Mended, Agree, SameGraph

\* An edge of the graph, as the edge table has it.
EdgeRow(e) == [tenant |-> e[1].tenant, source |-> <<e[1].entity, e[1].id>>,
               target |-> <<e[2].entity, e[2].id>>, rel |-> graph.out[e]]

LEMMA EdgeRows ==
    ASSUME GraphOK(graph), NEW e \in DOMAIN graph.out
    PROVE  /\ IsEdge(EdgeRow(e)) /\ Linked(graph, EdgeRow(e))
           /\ From(EdgeRow(e)) = e[1] /\ To(EdgeRow(e)) = e[2]
  <1>1. PICK n, m, r : n = e[1] /\ m = e[2] /\ r = graph.out[e]
    OBVIOUS
  <1>2. e = <<n, m>> /\ n.tenant = m.tenant
        /\ n = [tenant |-> n.tenant, entity |-> n.entity, id |-> n.id]
        /\ m = [tenant |-> m.tenant, entity |-> m.entity, id |-> m.id]
    BY <1>1 DEF GraphOK, IsNode, NodeID
  <1>3. PICK x : x = EdgeRow(e)
    OBVIOUS
  <1>4. x = [tenant |-> n.tenant, source |-> <<n.entity, n.id>>, target |-> <<m.entity, m.id>>, rel |-> r]
    BY <1>1, <1>3 DEF EdgeRow
  <1>5. IsEdge(x) /\ x.rel = r /\ x.tenant = n.tenant /\ x.source = <<n.entity, n.id>>
        /\ x.target = <<m.entity, m.id>>
    BY <1>4 DEF IsEdge
  <1>6. From(x) = NodeID(n.tenant, n.entity, n.id) /\ To(x) = NodeID(n.tenant, m.entity, m.id)
    BY <1>5, Ends
  <1>7. From(x) = n /\ To(x) = m
    BY <1>2, <1>6 DEF NodeID
  <1>8. Linked(graph, x)
    BY <1>1, <1>2, <1>5, <1>7 DEF Linked
  <1> QED
    BY <1>1, <1>3, <1>5, <1>7, <1>8

LEMMA SameEdgeSet ==
    ASSUME GraphOK(graph), EdgesOK(db), SameGraph(graph, db)
    PROVE  GraphEdges = db.edges
  <1>1. GraphEdges = {EdgeRow(e) : e \in DOMAIN graph.out}
    BY DEF GraphEdges, EdgeRow
  <1>2. ASSUME NEW e \in DOMAIN graph.out PROVE EdgeRow(e) \in db.edges
    BY EdgeRows DEF SameGraph
  <1>3. ASSUME NEW x \in db.edges PROVE \E e \in DOMAIN graph.out : x = EdgeRow(e)
    <2>1. Linked(graph, x)
      BY DEF SameGraph
    <2>2. PICK e \in DOMAIN graph.out : e = <<From(x), To(x)>>
      BY <2>1 DEF Linked
    <2>3. EdgeRow(e) \in db.edges /\ IsEdge(EdgeRow(e))
      BY <1>2, EdgeRows
    <2>4. From(EdgeRow(e)) = From(x) /\ To(EdgeRow(e)) = To(x)
      BY <2>2, EdgeRows
    <2> QED
      BY <2>3, <2>4, SameEnds
  <1> QED
    BY <1>1, <1>2, <1>3

\* The references of a node in the graph and those from or to it in the edge
\* table are equally many.
LEMMA SameDegree ==
    ASSUME GraphOK(graph), EdgesOK(db), SameGraph(graph, db), NEW n, IsNode(n)
    PROVE  /\ Cardinality(Targets(graph, n)) = Cardinality({x \in db.edges : From(x) = n})
           /\ Cardinality(Sources(graph, n)) = Cardinality({x \in db.edges : To(x) = n})
  <1> DEFINE S == {x \in db.edges : From(x) = n}
             T == {x \in db.edges : To(x) = n}
             Out == {e \in DOMAIN graph.out : e[1] = n}
             In == {e \in DOMAIN graph.out : e[2] = n}
  <1>1. Targets(graph, n) = {e[2] : e \in Out}
    BY DEF Targets
  <1>2. Sources(graph, n) = {e[1] : e \in In}
    <2>1. DOMAIN graph.in = {<<e[2], e[1]>> : e \in DOMAIN graph.out}
      BY DEF GraphOK
    <2>2. Sources(graph, n) = {e[2] : e \in {y \in DOMAIN graph.in : y[1] = n}}
      BY DEF Sources
    <2>3. ASSUME NEW e \in In PROVE e[1] \in Sources(graph, n)
      <3>1. <<e[2], e[1]>> \in {y \in DOMAIN graph.in : y[1] = n}
        BY <2>1
      <3>2. PICK z : z = <<e[2], e[1]>>
        OBVIOUS
      <3>3. z \in {y \in DOMAIN graph.in : y[1] = n} /\ z[2] = e[1]
        BY <3>1, <3>2
      <3> QED
        BY <2>2, <3>3
    <2>4. ASSUME NEW m \in Sources(graph, n) PROVE \E e \in In : m = e[1]
      <3>1. PICK y \in DOMAIN graph.in : y[1] = n /\ y[2] = m
        BY <2>2
      <3>2. PICK e \in DOMAIN graph.out : y = <<e[2], e[1]>>
        BY <2>1
      <3> QED
        BY <3>1, <3>2
    <2> HIDE DEF In
    <2> QED
      BY <2>3, <2>4
  <1>3. IsFiniteSet(Out) /\ IsFiniteSet(In)
    <2>1. IsFiniteSet(DOMAIN graph.out) /\ Out \in SUBSET DOMAIN graph.out /\ In \in SUBSET DOMAIN graph.out
      BY DEF GraphOK
    <2> HIDE DEF Out, In
    <2> QED
      BY <2>1, FS_Subset
  <1>4. \A e \in DOMAIN graph.out : e = <<e[1], e[2]>>
    BY DEF GraphOK
  <1>5. \A x \in db.edges : IsEdge(x) /\ <<From(x), To(x)>> \in DOMAIN graph.out
    BY DEF SameGraph, Linked, EdgesOK
  <1>6. \A e \in DOMAIN graph.out : EdgeRow(e) \in db.edges /\ From(EdgeRow(e)) = e[1] /\ To(EdgeRow(e)) = e[2]
    BY EdgeRows DEF SameGraph
  <1>7. \A x, y \in db.edges : From(x) = From(y) /\ To(x) = To(y) => x = y
    BY <1>5, SameEnds
  <1>8. Cardinality(Targets(graph, n)) = Cardinality(S)
    <2> DEFINE A == Targets(graph, n)
    <2>1. PICK f : f = [x \in S |-> To(x)]
      OBVIOUS
    <2>2. f \in Bijection(S, A)
      <3>1. ASSUME NEW x \in S
            PROVE  x \in db.edges /\ From(x) = n /\ To(x) \in A
        <4>1. x \in db.edges /\ From(x) = n
          OBVIOUS
        <4>2. PICK e \in DOMAIN graph.out : e = <<From(x), To(x)>>
          BY <1>5, <4>1
        <4> QED
          BY <1>1, <4>1, <4>2
      <3>2. \A y \in A : \E x \in S : To(x) = y
        BY <1>1, <1>6
      <3> HIDE DEF S, A
      <3>3. f \in [S -> A] /\ \A x \in S : f[x] = To(x)
        BY <2>1, <3>1
      <3>4. \A x, y \in S : f[x] = f[y] => x = y
        BY <1>7, <3>1, <3>3
      <3>5. \A y \in A : \E x \in S : f[x] = y
        BY <3>2, <3>3
      <3> QED
        BY <3>3, <3>4, <3>5 DEF Bijection, Injection, Surjection, IsInjective
    <2>3. PICK h : h = [e \in Out |-> e[2]]
      OBVIOUS
    <2>4. h \in Surjection(Out, A)
      BY <1>1, <2>3 DEF Surjection
    <2> HIDE DEF S, A, Out, In
    <2>5. IsFiniteSet(A)
      BY <1>3, <2>4, FS_Surjection
    <2>6. f \in Injection(S, A)
      BY <2>2 DEF Bijection
    <2>7. IsFiniteSet(S)
      BY <2>5, <2>6, FS_Injection
    <2>8. ExistsBijection(S, A)
      BY <2>2 DEF ExistsBijection
    <2>9. Cardinality(A) = Cardinality(S)
      BY <2>7, <2>8, FS_Bijection
    <2> QED
      BY <2>9 DEF A
  <1>9. Cardinality(Sources(graph, n)) = Cardinality(T)
    <2> DEFINE A == Sources(graph, n)
    <2>1. PICK f : f = [x \in T |-> From(x)]
      OBVIOUS
    <2>2. f \in Bijection(T, A)
      <3>1. ASSUME NEW x \in T
            PROVE  x \in db.edges /\ To(x) = n /\ From(x) \in A
        <4>1. x \in db.edges /\ To(x) = n
          OBVIOUS
        <4>2. PICK e \in DOMAIN graph.out : e = <<From(x), To(x)>>
          BY <1>5, <4>1
        <4> QED
          BY <1>2, <4>1, <4>2
      <3>2. \A y \in A : \E x \in T : From(x) = y
        BY <1>2, <1>6
      <3> HIDE DEF T, A
      <3>3. f \in [T -> A] /\ \A x \in T : f[x] = From(x)
        BY <2>1, <3>1
      <3>4. \A x, y \in T : f[x] = f[y] => x = y
        BY <1>7, <3>1, <3>3
      <3>5. \A y \in A : \E x \in T : f[x] = y
        BY <3>2, <3>3
      <3> QED
        BY <3>3, <3>4, <3>5 DEF Bijection, Injection, Surjection, IsInjective
    <2>3. PICK h : h = [e \in In |-> e[1]]
      OBVIOUS
    <2>4. h \in Surjection(In, A)
      BY <1>2, <2>3 DEF Surjection
    <2> HIDE DEF T, A, Out, In
    <2>5. IsFiniteSet(A)
      BY <1>3, <2>4, FS_Surjection
    <2>6. f \in Injection(T, A)
      BY <2>2 DEF Bijection
    <2>7. IsFiniteSet(T)
      BY <2>5, <2>6, FS_Injection
    <2>8. ExistsBijection(T, A)
      BY <2>2 DEF ExistsBijection
    <2>9. Cardinality(A) = Cardinality(T)
      BY <2>7, <2>8, FS_Bijection
    <2> QED
      BY <2>9 DEF A
  <1> QED
    BY <1>8, <1>9

\* The degree of a stored document is what the edge table gives.
LEMMA DegreeFollows ==
    ASSUME GraphOK(graph), EdgesOK(db), SameGraph(graph, db), NEW k \in Rows, IsDocumentKey(k),
           NEW l, l = [entity |-> k[2], id |-> k[3]]
    PROVE  handleTenantGraphNodeDegree(graph, db.edges, Rows, k[1], l)
             = degreeFromStorage(db.edges, Rows, k[1], l)
  <1>1. l.entity = k[2] /\ l.id = k[3]
    OBVIOUS
  <1>2. PICK n : n = addPrefix(k[1], l)
    OBVIOUS
  <1>3. IsNode(n) /\ n = NodeID(k[1], k[2], k[3]) /\ n.tenant = k[1] /\ n.entity = k[2] /\ n.id = k[3]
    BY <1>1, <1>2 DEF addPrefix, IsNode, NodeID
  <1> DEFINE name == <<k[2], k[3]>>
             S == {x \in {y \in db.edges : y.tenant = k[1]} : x.source = name}
             T == {x \in {y \in db.edges : y.tenant = k[1]} : x.target = name}
  <1>4. ASSUME NEW x \in db.edges
        PROVE  /\ From(x) = n <=> x.tenant = k[1] /\ x.source = name
               /\ To(x) = n <=> x.tenant = k[1] /\ x.target = name
    <2>1. IsEdge(x)
      BY DEF EdgesOK
    <2>2. /\ x.source = <<x.source[1], x.source[2]>> /\ x.target = <<x.target[1], x.target[2]>>
          /\ From(x) = NodeID(x.tenant, x.source[1], x.source[2])
          /\ To(x) = NodeID(x.tenant, x.target[1], x.target[2])
      <3>1. x.source = <<x.source[1], x.source[2]>> /\ x.target = <<x.target[1], x.target[2]>>
        BY <2>1 DEF IsEdge
      <3> QED
        BY <2>1, <3>1, Ends
    <2> QED
      BY <1>3, <2>2 DEF NodeID
  <1>5. S = {x \in db.edges : From(x) = n} /\ T = {x \in db.edges : To(x) = n}
    BY <1>4
  <1>6. Cardinality(Targets(graph, n)) = Cardinality(S) /\ Cardinality(Sources(graph, n)) = Cardinality(T)
    BY <1>3, <1>5, SameDegree, SMTT(30)
  <1>7. degreeFromStorage(db.edges, Rows, k[1], l)
          = [status |-> 200, in |-> Cardinality(T), out |-> Cardinality(S)]
    <2>1. <<k[1], l.entity, l.id>> \in Rows
      BY <1>1 DEF IsDocumentKey
    <2>2. degreeFromStorage(db.edges, Rows, k[1], l) =
             IF Cardinality(S) = 0 /\ Cardinality(T) = 0 /\ <<k[1], l.entity, l.id>> \notin Rows
             THEN NotFound ELSE [status |-> 200, in |-> Cardinality(T), out |-> Cardinality(S)]
      BY <1>1, Zenon DEF degreeFromStorage
    <2> HIDE DEF S, T
    <2> QED
      BY <2>1, <2>2
  <1>8. handleTenantGraphNodeDegree(graph, db.edges, Rows, k[1], l) =
          IF n \notin Nodes(graph) THEN degreeFromStorage(db.edges, Rows, k[1], l)
          ELSE [status |-> 200, in |-> Degree(graph, n).in, out |-> Degree(graph, n).out]
    BY <1>2, Zenon DEF handleTenantGraphNodeDegree
  <1>9. Degree(graph, n).in = Cardinality(T) /\ Degree(graph, n).out = Cardinality(S)
    <2> HIDE DEF S, T
    <2> QED
      BY <1>6 DEF Degree
  <1> HIDE DEF S, T
  <1> QED
    BY <1>7, <1>8, <1>9

\* A search for an adapted entity finds its rows.
LEMMA SearchFollows ==
    ASSUME NEW k \in Rows, IsDocumentKey(k), NEW l, l = [entity |-> k[2], id |-> k[3]]
    PROVE  l \in handleTenantGraphNodeSearch(graph, adaptedEntityIDs(Rows, k[1], k[2]), k[1], k[2])
  <1>1. PICK n : n = NodeID(k[1], k[2], k[3])
    OBVIOUS
  <1>2. PICK A : A = adaptedEntityIDs(Rows, k[1], k[2])
    OBVIOUS
  <1>3. n \in A
    BY <1>1, <1>2 DEF adaptedEntityIDs
  <1>4. handleTenantGraphNodeSearch(graph, A, k[1], k[2]) = cleanSet(k[1], A)
    BY <1>3, Zenon DEF handleTenantGraphNodeSearch, IsDocumentKey
  <1>5. stripPrefix(k[1], n) = l
    BY <1>1 DEF stripPrefix, local, NodeID
  <1>6. ~foreign(l)
    BY DEF foreign
  <1>7. l \in cleanSet(k[1], A)
    BY <1>3, <1>5, <1>6 DEF cleanSet
  <1> QED
    BY <1>2, <1>4, <1>7

\* Once the requests have settled, the in-memory graph has exactly the edges
\* of the edge table, and the degree and search endpoints answer for every
\* stored row what the store would, whatever the order of the separately
\* locked calls of updateGraph, removeGraph and reloadGraphFromStore was, as
\* long as no request was overtaken between its store write and its graph
\* update by one that concerns the same nodes.
THEOREM GraphMatchesStore == Spec => []GraphFollowsStore
  <1>1. GraphInv /\ StoreInv /\ KeysInv /\ Goroutines => GraphFollowsStore
    <2> SUFFICES ASSUME GraphInv, StoreInv, KeysInv, Goroutines,
                        ~Writing, ~overtaken, config.cycleDetection # "error"
                 PROVE  /\ GraphEdges = db.edges
                        /\ \A k \in Rows : LET l == [entity |-> k[2], id |-> k[3]] IN
                             /\ handleTenantGraphNodeDegree(graph, db.edges, Rows, k[1], l)
                                  = degreeFromStorage(db.edges, Rows, k[1], l)
                             /\ k[2] \in Adapted =>
                                  l \in handleTenantGraphNodeSearch(graph,
                                            adaptedEntityIDs(Rows, k[1], k[2]), k[1], k[2])
      BY DEF GraphFollowsStore
    <2>1. GraphOK(graph) /\ Mended(graph, db, handler)
      BY DEF GraphInv, Mended
    <2>2. SameGraph(graph, db)
      BY <2>1, SettledGraph
    <2>3. EdgesOK(db)
      BY StoreEdges DEF StoreInv, KeysInv
    <2>4. GraphEdges = db.edges
      BY <2>1, <2>2, <2>3, SameEdgeSet
    <2>5. ASSUME NEW k \in Rows PROVE IsDocumentKey(k)
      <3>1. Has(db, k)
        BY DEF StoreInv, StoreOK, TablesOK, Rows, Has, Exists, rowsOf
      <3> QED
        BY <3>1 DEF StoreInv, StoreOK, SequencesAhead, KeysInv
    <2>6. ASSUME NEW k \in Rows, NEW l, l = [entity |-> k[2], id |-> k[3]]
          PROVE  /\ handleTenantGraphNodeDegree(graph, db.edges, Rows, k[1], l)
                      = degreeFromStorage(db.edges, Rows, k[1], l)
                 /\ l \in handleTenantGraphNodeSearch(graph, adaptedEntityIDs(Rows, k[1], k[2]), k[1], k[2])
      BY <2>1, <2>2, <2>3, <2>5, <2>6, DegreeFollows, SearchFollows
    <2> QED
      BY <2>4, <2>6
  <1> QED
    BY <1>1, GraphInvariant, StoreInvariant, KeysInvariant, EntitiesTypeCorrect, PTL
-----------------------------------------------------------------------------
(* The indexes and the counters of the graph.                              *)

Untyped == ""

NodesOf(g, t) == {n \in Nodes(g) : n.tenant = t}
OfTenant(E, t) == {e \in E : e[1].tenant = t}
EdgesOf(g, t) == OfTenant(DOMAIN g.out, t)
VodesOf(g, t) == {n \in NodesOf(g, t) : g.typ[n] = NodeTypeVode}

Finite(g) == IsFiniteSet(Nodes(g)) /\ IsFiniteSet(DOMAIN g.out) /\ Pairs(DOMAIN g.out)

Mirrored(g) ==
    /\ DOMAIN g.in = {<<e[2], e[1]>> : e \in DOMAIN g.out}
    /\ \A e \in DOMAIN g.out : g.in[<<e[2], e[1]>>] = g.out[e] /\ {e[1], e[2]} \subseteq Nodes(g)

Indexed(g) ==
    /\ g.index = {<<g.typ[n], n>> : n \in {m \in Nodes(g) : g.typ[m] # Untyped}}
    /\ g.tenantNodes = {<<n.tenant, n>> : n \in Nodes(g)}
    /\ \A n \in Nodes(g) : n.tenant \in Tenants

NodesTallied(g) ==
    /\ DOMAIN g.nodeCounters = Tenants
    /\ \A t \in Tenants : g.nodeCounters[t] = Cardinality(NodesOf(g, t))
EdgesTallied(g) ==
    /\ DOMAIN g.edgeCounters = Tenants
    /\ \A t \in Tenants : g.edgeCounters[t] = Cardinality(EdgesOf(g, t))
    /\ g.edgeCount = Cardinality(DOMAIN g.out)
VodesTallied(g) ==
    /\ DOMAIN g.vodeCounters = Tenants
    /\ \A t \in Tenants : g.vodeCounters[t] = Cardinality(VodesOf(g, t))

\* A graph whose indexes and counters are those of a scan.
Counted(g) ==
    /\ IsGraph(g) /\ Finite(g) /\ Mirrored(g) /\ Indexed(g)
    /\ NodesTallied(g) /\ EdgesTallied(g) /\ VodesTallied(g)

LEMMA CountedScan ==
    ASSUME NEW g, Counted(g)
    PROVE  Scanned(g, Tenants)
  BY Zenon DEF Counted, Mirrored, Indexed, NodesTallied, EdgesTallied, VodesTallied, Scanned,
               Untyped, NodesOf, EdgesOf, OfTenant, VodesOf

LEMMA UntypedIsNoVode == Untyped # NodeTypeVode
  BY DEF Untyped, NodeTypeVode

LEMMA SubsetsFinite ==
    ASSUME NEW g, Finite(g), NEW t
    PROVE  /\ IsFiniteSet(NodesOf(g, t)) /\ IsFiniteSet(EdgesOf(g, t)) /\ IsFiniteSet(VodesOf(g, t))
           /\ Cardinality(NodesOf(g, t)) \in Nat /\ Cardinality(EdgesOf(g, t)) \in Nat
           /\ Cardinality(VodesOf(g, t)) \in Nat
  <1>1. NodesOf(g, t) \subseteq Nodes(g) /\ EdgesOf(g, t) \subseteq DOMAIN g.out
    BY DEF NodesOf, EdgesOf, OfTenant
  <1>2. VodesOf(g, t) \subseteq NodesOf(g, t)
    BY DEF VodesOf
  <1>3. IsFiniteSet(NodesOf(g, t)) /\ IsFiniteSet(EdgesOf(g, t))
    BY <1>1, FS_Subset DEF Finite
  <1>4. IsFiniteSet(VodesOf(g, t))
    BY <1>2, <1>3, FS_Subset
  <1> QED
    BY <1>3, <1>4, FS_CardinalityType

\* A new node is counted, and is in no index of a type yet.
LEMMA MadeCounted ==
    ASSUME NEW g, Counted(g), NEW n, n.tenant \in Tenants
    PROVE  LET h == Made(g, n)
           IN  /\ Counted(h) /\ h.out = g.out /\ h.cycleDetection = g.cycleDetection
               /\ Nodes(h) = Nodes(g) \cup {n}
               /\ h.typ[n] = TypeIn(g, n)
  <1>1. CASE n \in Nodes(g)
    BY <1>1 DEF Made, TypeIn
  <1>2. CASE n \notin Nodes(g)
    <2>1. PICK h : h = created(g, n)
      OBVIOUS
    <2>2. /\ IsGraph(h) /\ h.cycleDetection = g.cycleDetection
          /\ h.typ = put(g.typ, n, Untyped) /\ h.out = g.out /\ h.in = g.in /\ h.index = g.index
          /\ h.tenantNodes = g.tenantNodes \cup {<<n.tenant, n>>}
          /\ h.edgeCount = g.edgeCount /\ h.edgeCounters = g.edgeCounters
          /\ h.vodeCounters = g.vodeCounters
          /\ h.nodeCounters = [g.nodeCounters EXCEPT ![n.tenant] = @ + 1]
      <3>1. IsGraph(g)
        BY DEF Counted
      <3>2. h = [g EXCEPT !.typ = put(g.typ, n, Untyped), !.nodeCounters[n.tenant] = @ + 1,
                          !.tenantNodes = g.tenantNodes \cup {<<n.tenant, n>>}]
        BY <2>1, Zenon DEF created, NodeIDPrefix, Untyped
      <3> QED
        BY <3>1, <3>2 DEF IsGraph
    <2>3. Nodes(h) = Nodes(g) \cup {n}
      BY <2>2 DEF put, Nodes
    <2>4. \A m \in Nodes(h) : h.typ[m] = IF m = n THEN Untyped ELSE g.typ[m]
      BY <2>2, <2>3 DEF put, Nodes
    <2>5. Finite(h)
      BY <2>2, <2>3, FS_AddElement DEF Counted, Finite
    <2>6. Mirrored(h)
      BY <2>2, <2>3 DEF Counted, Mirrored
    <2>7. Indexed(h)
      <3>1. {m \in Nodes(h) : h.typ[m] # Untyped} = {m \in Nodes(g) : g.typ[m] # Untyped}
        BY <1>2, <2>3, <2>4
      <3>2. h.index = {<<h.typ[m], m>> : m \in {x \in Nodes(h) : h.typ[x] # Untyped}}
        BY <1>2, <2>2, <2>4, <3>1 DEF Counted, Indexed
      <3>3. h.tenantNodes = {<<m.tenant, m>> : m \in Nodes(h)}
        BY <2>2, <2>3 DEF Counted, Indexed
      <3> QED
        BY <2>3, <3>2, <3>3 DEF Counted, Indexed
    <2>8. NodesTallied(h)
      <3>1. DOMAIN h.nodeCounters = Tenants
        BY <2>2 DEF Counted, NodesTallied
      <3>2. ASSUME NEW t \in Tenants PROVE h.nodeCounters[t] = Cardinality(NodesOf(h, t))
        <4>1. h.nodeCounters[t] = IF t = n.tenant THEN g.nodeCounters[t] + 1 ELSE g.nodeCounters[t]
          BY <2>2 DEF Counted, NodesTallied
        <4>2. g.nodeCounters[t] = Cardinality(NodesOf(g, t)) /\ IsFiniteSet(NodesOf(g, t))
          BY SubsetsFinite DEF Counted, NodesTallied
        <4>3. CASE t = n.tenant
          <5>1. NodesOf(h, t) = NodesOf(g, t) \cup {n} /\ n \notin NodesOf(g, t)
            BY <1>2, <2>3, <4>3 DEF NodesOf
          <5>2. Cardinality(NodesOf(h, t)) = Cardinality(NodesOf(g, t)) + 1
            BY <4>2, <5>1, FS_AddElement
          <5> QED
            BY <4>1, <4>2, <4>3, <5>2
        <4>4. CASE t # n.tenant
          <5>1. NodesOf(h, t) = NodesOf(g, t)
            BY <2>3, <4>4 DEF NodesOf
          <5> QED
            BY <4>1, <4>2, <4>4, <5>1
        <4> QED
          BY <4>3, <4>4
      <3> QED
        BY <3>1, <3>2 DEF NodesTallied
    <2>9. EdgesTallied(h)
      BY <2>2 DEF Counted, EdgesTallied, EdgesOf
    <2>10. VodesTallied(h)
      <3>1. \A t : VodesOf(h, t) = VodesOf(g, t)
        BY <1>2, <2>3, <2>4, UntypedIsNoVode DEF VodesOf, NodesOf
      <3> QED
        BY <2>2, <3>1 DEF Counted, VodesTallied
    <2>11. Counted(h)
      BY <2>2, <2>5, <2>6, <2>7, <2>8, <2>9, <2>10 DEF Counted
    <2>12. Made(g, n) = h /\ TypeIn(g, n) = Untyped
      BY <1>2, <2>1, Zenon DEF Made, TypeIn, Untyped
    <2> QED
      BY <2>2, <2>3, <2>4, <2>11, <2>12
  <1> QED
    BY <1>1, <1>2

\* A node that is typed, or a placeholder that is promoted, changes its index
\* and, as a placeholder, the counter.
VodesWith(g, n, type, t) ==
    CASE t # n.tenant -> g.vodeCounters[t]
      [] t = n.tenant /\ type = NodeTypeVode -> g.vodeCounters[t] + 1
      [] t = n.tenant /\ g.typ[n] = NodeTypeVode -> g.vodeCounters[t] - 1
      [] t = n.tenant /\ NodeTypeVode \notin {type, g.typ[n]} -> g.vodeCounters[t]

LEMMA TypedCounted ==
    ASSUME NEW g, Counted(g), NEW n \in Nodes(g), NEW type, type \notin {Untyped, g.typ[n]},
           NEW h, IsGraph(h), h.typ = put(g.typ, n, type), h.out = g.out, h.in = g.in,
           h.index = (g.index \ {<<g.typ[n], n>>}) \cup {<<type, n>>},
           h.tenantNodes = g.tenantNodes, h.edgeCount = g.edgeCount,
           h.nodeCounters = g.nodeCounters, h.edgeCounters = g.edgeCounters,
           DOMAIN h.vodeCounters = Tenants,
           \A t \in Tenants : h.vodeCounters[t] = VodesWith(g, n, type, t)
    PROVE  Counted(h) /\ Nodes(h) = Nodes(g)
  <1>1. Nodes(h) = Nodes(g) /\ \A m \in Nodes(h) : h.typ[m] = IF m = n THEN type ELSE g.typ[m]
    BY DEF put, Nodes
  <1>2. Finite(h) /\ Mirrored(h)
    BY <1>1 DEF Counted, Finite, Mirrored
  <1>3. Indexed(h)
    <2>1. g.index = {<<g.typ[m], m>> : m \in {x \in Nodes(g) : g.typ[x] # Untyped}}
      BY DEF Counted, Indexed
    <2>2. ASSUME NEW m \in Nodes(h), h.typ[m] # Untyped PROVE <<h.typ[m], m>> \in h.index
      BY <1>1, <2>1, <2>2
    <2>3. ASSUME NEW x \in h.index
          PROVE  \E m \in Nodes(h) : h.typ[m] # Untyped /\ x = <<h.typ[m], m>>
      <3>1. CASE x = <<type, n>>
        BY <1>1, <3>1
      <3>2. CASE x # <<type, n>>
        <4>1. x \in g.index /\ x # <<g.typ[n], n>>
          BY <3>2
        <4>2. PICK m \in Nodes(g) : g.typ[m] # Untyped /\ x = <<g.typ[m], m>>
          BY <2>1, <4>1
        <4> QED
          BY <1>1, <4>1, <4>2
      <3> QED
        BY <3>1, <3>2
    <2>4. h.index = {<<h.typ[m], m>> : m \in {x \in Nodes(h) : h.typ[x] # Untyped}}
      BY <2>2, <2>3
    <2> QED
      BY <1>1, <2>4 DEF Counted, Indexed
  <1>4. NodesTallied(h) /\ EdgesTallied(h)
    <2>1. \A t : NodesOf(h, t) = NodesOf(g, t) /\ EdgesOf(h, t) = EdgesOf(g, t)
      BY <1>1 DEF NodesOf, EdgesOf
    <2> QED
      BY <2>1 DEF Counted, NodesTallied, EdgesTallied
  <1>5. ASSUME NEW t \in Tenants PROVE h.vodeCounters[t] = Cardinality(VodesOf(h, t))
    <2>1. /\ g.vodeCounters[t] = Cardinality(VodesOf(g, t)) /\ IsFiniteSet(VodesOf(g, t))
          /\ Cardinality(VodesOf(g, t)) \in Nat
      BY SubsetsFinite DEF Counted, VodesTallied
    <2>2. CASE t # n.tenant
      <3>1. VodesOf(h, t) = VodesOf(g, t)
        BY <1>1, <2>2 DEF VodesOf, NodesOf
      <3> QED
        BY <2>1, <2>2, <3>1 DEF VodesWith
    <2>3. CASE t = n.tenant /\ type = NodeTypeVode
      <3>1. VodesOf(h, t) = VodesOf(g, t) \cup {n} /\ n \notin VodesOf(g, t)
        BY <1>1, <2>3 DEF VodesOf, NodesOf
      <3>2. Cardinality(VodesOf(g, t) \cup {n}) = Cardinality(VodesOf(g, t)) + 1
        BY <2>1, <3>1, FS_AddElement
      <3> QED
        BY <2>1, <2>3, <3>1, <3>2 DEF VodesWith
    <2>4. CASE t = n.tenant /\ g.typ[n] = NodeTypeVode
      <3>1. VodesOf(h, t) = VodesOf(g, t) \ {n} /\ n \in VodesOf(g, t)
        BY <1>1, <2>4 DEF VodesOf, NodesOf
      <3>2. Cardinality(VodesOf(h, t)) = Cardinality(VodesOf(g, t)) - 1
        BY <2>1, <3>1, FS_RemoveElement
      <3>3. h.vodeCounters[t] = g.vodeCounters[t] - 1
        BY <2>4 DEF VodesWith
      <3> QED
        BY <2>1, <3>2, <3>3
    <2>5. CASE t = n.tenant /\ NodeTypeVode \notin {type, g.typ[n]}
      <3>1. VodesOf(h, t) = VodesOf(g, t)
        BY <1>1, <2>5 DEF VodesOf, NodesOf
      <3> QED
        BY <2>1, <2>5, <3>1 DEF VodesWith
    <2> QED
      BY <2>2, <2>3, <2>4, <2>5
  <1>6. VodesTallied(h)
    BY <1>5 DEF VodesTallied
  <1> QED
    BY <1>1, <1>2, <1>3, <1>4, <1>6 DEF Counted

LEMMA NodeCounted ==
    ASSUME NEW g, Counted(g), NEW n, n.tenant \in Tenants, NEW type
    PROVE  LET h == addNodeLocked(g, n, type).g
           IN  Counted(h) /\ h.out = g.out /\ Nodes(h) = Nodes(g) \cup {n}
  <1>1. PICK k : k = Made(g, n)
    OBVIOUS
  <1>2. /\ Counted(k) /\ k.out = g.out /\ Nodes(k) = Nodes(g) \cup {n} /\ n \in Nodes(k)
        /\ k.typ[n] = TypeIn(g, n)
    BY <1>1, MadeCounted
  <1>3. PICK h : h = addNodeLocked(g, n, type).g
    OBVIOUS
  <1>4. PICK typed : typed = retyped(k, n, k.typ[n], type)
    OBVIOUS
  <1>5. \/ h = k
        \/ /\ type \notin {Untyped, k.typ[n]}
           /\ \/ k.typ[n] = Untyped /\ type = NodeTypeVode /\ h = countVode(typed, n, 1)
              \/ k.typ[n] = Untyped /\ type # NodeTypeVode /\ h = typed
              \/ k.typ[n] = NodeTypeVode /\ h = countVode(typed, n, -1)
    <2>1. Adds(g, n, type, addNodeLocked(g, n, type))
      BY NodeCases, Zenon
    <2> QED
      BY <1>1, <1>2, <1>3, <1>4, <2>1, Zenon DEF Adds, Untyped
  <1>6. CASE h = k
    BY <1>2, <1>3, <1>6
  <1>7. ASSUME type \notin {Untyped, k.typ[n]},
               \/ k.typ[n] = Untyped /\ type = NodeTypeVode /\ h = countVode(typed, n, 1)
               \/ k.typ[n] = Untyped /\ type # NodeTypeVode /\ h = typed
               \/ k.typ[n] = NodeTypeVode /\ h = countVode(typed, n, -1)
        PROVE  Counted(h) /\ h.out = g.out /\ Nodes(h) = Nodes(g) \cup {n}
    <2>1. IsGraph(k) /\ DOMAIN k.vodeCounters = Tenants
      BY <1>2 DEF Counted, VodesTallied
    <2>2. /\ IsGraph(typed) /\ typed.typ = put(k.typ, n, type) /\ typed.out = k.out /\ typed.in = k.in
          /\ typed.index = (k.index \ {<<k.typ[n], n>>}) \cup {<<type, n>>}
          /\ typed.tenantNodes = k.tenantNodes /\ typed.edgeCount = k.edgeCount
          /\ typed.nodeCounters = k.nodeCounters /\ typed.edgeCounters = k.edgeCounters
          /\ typed.vodeCounters = k.vodeCounters
      BY <1>4, <2>1 DEF retyped, IsGraph
    <2>3. PICK by : /\ \/ type = NodeTypeVode /\ by = 1
                       \/ type # NodeTypeVode /\ k.typ[n] # NodeTypeVode /\ by = 0
                       \/ type # NodeTypeVode /\ k.typ[n] = NodeTypeVode /\ by = -1
                    /\ h = IF by = 0 THEN typed ELSE countVode(typed, n, by)
      BY <1>7, UntypedIsNoVode
    <2>4. /\ IsGraph(h) /\ h.typ = typed.typ /\ h.out = typed.out /\ h.in = typed.in
          /\ h.index = typed.index /\ h.tenantNodes = typed.tenantNodes
          /\ h.edgeCount = typed.edgeCount /\ h.nodeCounters = typed.nodeCounters
          /\ h.edgeCounters = typed.edgeCounters
          /\ DOMAIN h.vodeCounters = Tenants
          /\ \A t \in Tenants : h.vodeCounters[t] =
                IF t = n.tenant /\ by # 0 THEN k.vodeCounters[t] + by ELSE k.vodeCounters[t]
      <3>1. CASE by = 0
        BY <2>1, <2>2, <2>3, <3>1
      <3>2. CASE by # 0
        <4>1. h = [typed EXCEPT !.vodeCounters[n.tenant] = @ + by]
          BY <2>3, <3>2 DEF countVode, NodeIDPrefix
        <4> QED
          BY <2>1, <2>2, <3>2, <4>1 DEF IsGraph
      <3> QED
        BY <3>1, <3>2
    <2>5. ASSUME NEW t \in Tenants
          PROVE  h.vodeCounters[t] = VodesWith(k, n, type, t)
      <3>1. k.vodeCounters[t] \in Nat
        BY <1>2, SubsetsFinite DEF Counted, VodesTallied
      <3> QED
        BY <1>7, <2>3, <2>4, <3>1 DEF VodesWith
    <2>6. /\ IsGraph(h) /\ h.typ = put(k.typ, n, type) /\ h.out = k.out /\ h.in = k.in
          /\ h.index = (k.index \ {<<k.typ[n], n>>}) \cup {<<type, n>>}
          /\ h.tenantNodes = k.tenantNodes /\ h.edgeCount = k.edgeCount
          /\ h.nodeCounters = k.nodeCounters /\ h.edgeCounters = k.edgeCounters
          /\ DOMAIN h.vodeCounters = Tenants
      BY <2>2, <2>4
    <2>7. Counted(h) /\ Nodes(h) = Nodes(k)
      BY <1>2, <1>7, <2>5, <2>6, TypedCounted, SMTT(30)
    <2> QED
      BY <1>2, <2>6, <2>7
  <1> QED
    BY <1>3, <1>5, <1>6, <1>7

\* Counting the edges of one more, or one less, pair of nodes.
LEMMA OneEdgeMore ==
    ASSUME NEW E, IsFiniteSet(E), Pairs(E), NEW e, e \notin E, e = <<e[1], e[2]>>
    PROVE  /\ IsFiniteSet(E \cup {e}) /\ Pairs(E \cup {e})
           /\ Cardinality(E \cup {e}) = Cardinality(E) + 1
           /\ \A t : Cardinality(OfTenant(E \cup {e}, t))
                     = IF t = e[1].tenant THEN Cardinality(OfTenant(E, t)) + 1
                       ELSE Cardinality(OfTenant(E, t))
  <1>1. IsFiniteSet(E \cup {e}) /\ Cardinality(E \cup {e}) = Cardinality(E) + 1
    BY FS_AddElement
  <1>2. Pairs(E \cup {e})
    BY DEF Pairs
  <1>3. ASSUME NEW t
        PROVE  Cardinality(OfTenant(E \cup {e}, t))
                     = IF t = e[1].tenant THEN Cardinality(OfTenant(E, t)) + 1
                       ELSE Cardinality(OfTenant(E, t))
    <2> DEFINE F == OfTenant(E, t)
    <2>1. IsFiniteSet(F) /\ e \notin F
      BY FS_Subset DEF OfTenant
    <2>2. CASE t = e[1].tenant
      <3>1. OfTenant(E \cup {e}, t) = F \cup {e}
        BY <2>2 DEF OfTenant
      <3>2. Cardinality(F \cup {e}) = Cardinality(F) + 1
        BY <2>1, FS_AddElement
      <3> QED
        BY <2>2, <3>1, <3>2
    <2>3. CASE t # e[1].tenant
      <3>1. OfTenant(E \cup {e}, t) = F
        BY <2>3 DEF OfTenant
      <3> QED
        BY <2>3, <3>1
    <2> QED
      BY <2>2, <2>3
  <1> QED
    BY <1>1, <1>2, <1>3

\* A new edge is in both maps and counted for the tenant of its source.
LEMMA JoinCounted ==
    ASSUME NEW g, Counted(g), NEW n \in Nodes(g), NEW m \in Nodes(g), NEW rel,
           <<n, m>> \notin DOMAIN g.out
    PROVE  Counted(joined(g, n, m, rel)) /\ Nodes(joined(g, n, m, rel)) = Nodes(g)
  <1>1. PICK h : h = joined(g, n, m, rel)
    OBVIOUS
  <1>2. /\ IsGraph(h) /\ h.typ = g.typ
        /\ h.out = put(g.out, <<n, m>>, rel) /\ h.in = put(g.in, <<m, n>>, rel)
        /\ h.index = g.index /\ h.tenantNodes = g.tenantNodes /\ h.edgeCount = g.edgeCount + 1
        /\ h.nodeCounters = g.nodeCounters /\ h.vodeCounters = g.vodeCounters
        /\ h.edgeCounters = [g.edgeCounters EXCEPT ![n.tenant] = @ + 1]
    <2>1. IsGraph(g)
      BY DEF Counted
    <2> QED
      BY <1>1, <2>1 DEF joined, IsGraph, NodeIDPrefix
  <1>3. PICK e : e = <<n, m>>
    OBVIOUS
  <1>4. e = <<e[1], e[2]>> /\ e[1] = n /\ e[2] = m /\ e \notin DOMAIN g.out
    BY <1>3
  <1>5. DOMAIN h.out = DOMAIN g.out \cup {e} /\ DOMAIN h.in = DOMAIN g.in \cup {<<m, n>>}
    BY <1>2, <1>3 DEF put
  <1>6. /\ IsFiniteSet(DOMAIN h.out) /\ Pairs(DOMAIN h.out)
        /\ Cardinality(DOMAIN h.out) = Cardinality(DOMAIN g.out) + 1
        /\ \A t : Cardinality(EdgesOf(h, t))
                  = IF t = n.tenant THEN Cardinality(EdgesOf(g, t)) + 1 ELSE Cardinality(EdgesOf(g, t))
    <2>1. PICK E : E = DOMAIN g.out
      OBVIOUS
    <2>2. IsFiniteSet(E) /\ Pairs(E)
      BY <2>1 DEF Counted, Finite
    <2>3. /\ IsFiniteSet(E \cup {e}) /\ Pairs(E \cup {e})
          /\ Cardinality(E \cup {e}) = Cardinality(E) + 1
          /\ \A t : Cardinality(OfTenant(E \cup {e}, t))
                     = IF t = e[1].tenant THEN Cardinality(OfTenant(E, t)) + 1
                       ELSE Cardinality(OfTenant(E, t))
      BY <1>4, <2>1, <2>2, OneEdgeMore
    <2> QED
      BY <1>4, <1>5, <2>1, <2>3 DEF EdgesOf
  <1>7. Nodes(h) = Nodes(g)
    BY <1>2 DEF Nodes
  <1>8. Finite(h)
    BY <1>6, <1>7 DEF Counted, Finite
  <1>9. Mirrored(h)
    <2>1. DOMAIN h.in = {<<x[2], x[1]>> : x \in DOMAIN h.out}
      <3>1. DOMAIN g.in = {<<x[2], x[1]>> : x \in DOMAIN g.out} /\ Pairs(DOMAIN g.out)
        BY DEF Counted, Mirrored, Finite
      <3>2. \A x : x \in DOMAIN h.out <=> (x \in DOMAIN g.out \/ x = <<n, m>>)
        BY <1>3, <1>5
      <3> QED
        BY <1>5, <3>1, <3>2, ReversedWith
    <2>2. ASSUME NEW x \in DOMAIN h.out
          PROVE  h.in[<<x[2], x[1]>>] = h.out[x] /\ {x[1], x[2]} \subseteq Nodes(h)
      <3>1. CASE x = <<n, m>>
        BY <1>2, <1>7, <3>1 DEF put
      <3>2. CASE x # <<n, m>>
        <4>1. x \in DOMAIN g.out /\ x = <<x[1], x[2]>>
          BY <1>3, <1>5, <3>2 DEF Counted, Finite, Pairs
        <4>2. <<x[2], x[1]>> # <<m, n>> /\ <<x[2], x[1]>> \in DOMAIN h.in
          BY <2>1, <3>2, <4>1
        <4>3. h.out[x] = g.out[x] /\ h.in[<<x[2], x[1]>>] = g.in[<<x[2], x[1]>>]
          BY <1>2, <3>2, <4>1, <4>2 DEF put
        <4> QED
          BY <1>7, <4>1, <4>3 DEF Counted, Mirrored
      <3> QED
        BY <3>1, <3>2
    <2> QED
      BY <2>1, <2>2 DEF Mirrored
  <1>10. Indexed(h) /\ NodesTallied(h) /\ VodesTallied(h)
    <2>1. \A t : NodesOf(h, t) = NodesOf(g, t) /\ VodesOf(h, t) = VodesOf(g, t)
      BY <1>2, <1>7 DEF NodesOf, VodesOf
    <2> QED
      BY <1>2, <1>7, <2>1 DEF Counted, Indexed, NodesTallied, VodesTallied
  <1>11. EdgesTallied(h)
    <2>1. n.tenant \in Tenants
      BY DEF Counted, Indexed
    <2> QED
      BY <1>2, <1>6, <2>1 DEF Counted, EdgesTallied
  <1> QED
    BY <1>1, <1>2, <1>7, <1>8, <1>9, <1>10, <1>11 DEF Counted

\* An edge that is refused leaves its two ends behind, as placeholders.
LEMMA EdgeCounted ==
    ASSUME NEW g, Counted(g), NEW n, NEW m, n.tenant \in Tenants, m.tenant \in Tenants, NEW rel
    PROVE  Counted(addEdgeLocked(g, n, m, rel).g)
  <1> DEFINE a1 == addNodeLocked(g, n, NodeTypeVode).g
             a2 == addNodeLocked(a1, m, NodeTypeVode).g
             j == joined(a2, n, m, rel)
             cycle == wouldCreateCycle(a2, n, m)
  <1>1. Counted(a1) /\ a1.out = g.out /\ n \in Nodes(a1)
    <2>1. Counted(a1) /\ a1.out = g.out /\ Nodes(a1) = Nodes(g) \cup {n}
      BY NodeCounted, Zenon
    <2> QED
      BY <2>1
  <1> HIDE DEF a1
  <1>2. Counted(a2) /\ a2.out = g.out /\ n \in Nodes(a2) /\ m \in Nodes(a2)
    <2>1. Counted(a2) /\ a2.out = a1.out /\ Nodes(a2) = Nodes(a1) \cup {m}
      BY <1>1, NodeCounted, Zenon
    <2> QED
      BY <1>1, <2>1
  <1> HIDE DEF a2
  <1>3. <<n, m>> \notin DOMAIN g.out => Counted(j)
    BY <1>2, JoinCounted
  <1> HIDE DEF j, cycle
  <1>4. addEdgeLocked(g, n, m, rel) =
          CASE CrossTenant(n, m) -> result(g, "ErrCrossTenantEdge")
            [] ~CrossTenant(n, m) /\ <<n, m>> \in DOMAIN g.out ->
                   result(a2, IF g.out[<<n, m>>] = rel THEN "" ELSE "ErrEdgeAlreadyExists")
            [] OTHER -> IF g.cycleDetection = "error" /\ cycle THEN result(a2, "ErrCycleDetected")
                        ELSE result(j, "")
    BY Zenon DEF addEdgeLocked, a1, a2, j, cycle
  <1>5. \A x, e : result(x, e).g = x
    BY DEF result
  <1>6. \E x, e : /\ addEdgeLocked(g, n, m, rel) = result(x, e)
                  /\ x = g \/ x = a2 \/ (x = j /\ <<n, m>> \notin DOMAIN g.out)
    <2>1. CASE CrossTenant(n, m)
      BY <1>4, <2>1, Zenon
    <2>2. CASE ~CrossTenant(n, m) /\ <<n, m>> \in DOMAIN g.out
      BY <1>4, <2>2, Zenon
    <2>3. CASE ~CrossTenant(n, m) /\ <<n, m>> \notin DOMAIN g.out
      <3>1. addEdgeLocked(g, n, m, rel) =
              IF g.cycleDetection = "error" /\ cycle THEN result(a2, "ErrCycleDetected")
                        ELSE result(j, "")
        BY <1>4, <2>3, Zenon
      <3> QED
        BY <2>3, <3>1, Zenon
    <2> QED
      BY <2>1, <2>2, <2>3
  <1>7. PICK x, e : /\ addEdgeLocked(g, n, m, rel) = result(x, e)
                    /\ x = g \/ x = a2 \/ (x = j /\ <<n, m>> \notin DOMAIN g.out)
    BY <1>6
  <1>8. Counted(x)
    BY <1>2, <1>3, <1>7
  <1> QED
    BY <1>5, <1>7, <1>8, Zenon

LEMMA CutCounted ==
    ASSUME NEW g, Counted(g), NEW n, NEW m
    PROVE  Counted(RemoveEdge(g, n, m))
  <1>1. CASE <<n, m>> \notin DOMAIN g.out
    BY <1>1 DEF RemoveEdge
  <1>2. CASE <<n, m>> \in DOMAIN g.out
    <2>1. PICK h : h = RemoveEdge(g, n, m)
      OBVIOUS
    <2>2. /\ IsGraph(h) /\ h.typ = g.typ
          /\ h.out = drop(g.out, {<<n, m>>}) /\ h.in = drop(g.in, {<<m, n>>})
          /\ h.index = g.index /\ h.tenantNodes = g.tenantNodes /\ h.edgeCount = g.edgeCount - 1
          /\ h.nodeCounters = g.nodeCounters /\ h.vodeCounters = g.vodeCounters
          /\ h.edgeCounters = [g.edgeCounters EXCEPT ![n.tenant] = @ - 1]
      <3>1. IsGraph(g)
        BY DEF Counted
      <3> QED
        BY <1>2, <2>1, <3>1 DEF RemoveEdge, IsGraph, NodeIDPrefix
    <2>3. PICK e, E : e = <<n, m>> /\ E = DOMAIN h.out
      OBVIOUS
    <2>4. e = <<e[1], e[2]>> /\ e[1] = n /\ e[2] = m /\ e \in DOMAIN g.out
      BY <1>2, <2>3
    <2>5. E = DOMAIN g.out \ {e} /\ DOMAIN h.in = DOMAIN g.in \ {<<m, n>>}
      BY <2>2, <2>3 DEF drop
    <2>6. IsFiniteSet(E) /\ Pairs(E) /\ DOMAIN g.out = E \cup {e} /\ e \notin E
      <3>1. IsFiniteSet(E)
        BY <2>5, FS_Subset DEF Counted, Finite
      <3> QED
        BY <2>4, <2>5, <3>1 DEF Counted, Finite, Pairs
    <2>7. /\ Cardinality(E \cup {e}) = Cardinality(E) + 1
          /\ \A t : Cardinality(OfTenant(E \cup {e}, t))
                     = IF t = e[1].tenant THEN Cardinality(OfTenant(E, t)) + 1
                       ELSE Cardinality(OfTenant(E, t))
      BY <2>4, <2>6, OneEdgeMore
    <2>8. Nodes(h) = Nodes(g)
      BY <2>2 DEF Nodes
    <2>9. Finite(h)
      BY <2>3, <2>6, <2>8 DEF Counted, Finite
    <2>10. Mirrored(h)
      <3>1. DOMAIN h.in = {<<x[2], x[1]>> : x \in DOMAIN h.out}
        <4>1. DOMAIN g.in = {<<x[2], x[1]>> : x \in DOMAIN g.out} /\ Pairs(DOMAIN g.out)
          BY DEF Counted, Mirrored, Finite
        <4>2. \A x : x \in DOMAIN h.out <=> (x \in DOMAIN g.out /\ x # <<n, m>>)
          BY <2>3, <2>5
        <4> QED
          BY <2>5, <4>1, <4>2 DEF Pairs
      <3>2. ASSUME NEW x \in DOMAIN h.out
            PROVE  h.in[<<x[2], x[1]>>] = h.out[x] /\ {x[1], x[2]} \subseteq Nodes(h)
        <4>1. x \in DOMAIN g.out /\ <<x[2], x[1]>> \in DOMAIN h.in
          BY <2>3, <2>5, <3>1
        <4>2. h.out[x] = g.out[x] /\ h.in[<<x[2], x[1]>>] = g.in[<<x[2], x[1]>>]
          BY <2>2, <3>2, <4>1 DEF drop
        <4> QED
          BY <2>8, <4>1, <4>2 DEF Counted, Mirrored
      <3> QED
        BY <3>1, <3>2 DEF Mirrored
    <2>11. Indexed(h) /\ NodesTallied(h) /\ VodesTallied(h)
      <3>1. \A t : NodesOf(h, t) = NodesOf(g, t) /\ VodesOf(h, t) = VodesOf(g, t)
        BY <2>2, <2>8 DEF NodesOf, VodesOf
      <3> QED
        BY <2>2, <2>8, <3>1 DEF Counted, Indexed, NodesTallied, VodesTallied
    <2>12. EdgesTallied(h)
      <3>1. n.tenant \in Tenants
        BY <2>4 DEF Counted, Indexed, Mirrored
      <3>2. /\ DOMAIN g.edgeCounters = Tenants /\ g.edgeCount = Cardinality(E \cup {e})
            /\ \A t \in Tenants : g.edgeCounters[t] = Cardinality(OfTenant(E \cup {e}, t))
        BY <2>6 DEF Counted, EdgesTallied, EdgesOf
      <3>3. ASSUME NEW t \in Tenants PROVE h.edgeCounters[t] = Cardinality(OfTenant(E, t))
        <4>1. Cardinality(OfTenant(E, t)) \in Nat
          BY <2>3, <2>9, SubsetsFinite DEF EdgesOf
        <4>2. h.edgeCounters[t] = IF t = n.tenant THEN g.edgeCounters[t] - 1 ELSE g.edgeCounters[t]
          BY <2>2, <3>2
        <4>3. g.edgeCounters[t] = Cardinality(OfTenant(E \cup {e}, t))
          BY <3>2
        <4>4. Cardinality(OfTenant(E \cup {e}, t))
                = IF t = n.tenant THEN Cardinality(OfTenant(E, t)) + 1
                  ELSE Cardinality(OfTenant(E, t))
          BY <2>4, <2>7
        <4> QED
          BY <4>1, <4>2, <4>3, <4>4
      <3>4. h.edgeCount = Cardinality(E)
        <4>1. Cardinality(E) \in Nat
          BY <2>6, FS_CardinalityType
        <4> QED
          BY <2>2, <2>7, <3>2, <4>1
      <3> QED
        BY <2>2, <2>3, <3>2, <3>3, <3>4 DEF EdgesTallied, EdgesOf
    <2> QED
      BY <2>1, <2>2, <2>9, <2>10, <2>11, <2>12 DEF Counted
  <1> QED
    BY <1>1, <1>2


\* Edges that agree on one end are as many as their other ends.
LEMMA FirstEnds ==
    ASSUME NEW S, IsFiniteSet(S), Pairs(S), NEW n, \A e \in S : e[2] = n
    PROVE  Cardinality({e[1] : e \in S}) = Cardinality(S)
  <1> DEFINE T == {e[1] : e \in S}
  <1>1. PICK f : f = [e \in S |-> e[1]]
    OBVIOUS
  <1>2. f \in [S -> T] /\ \A e \in S : f[e] = e[1]
    BY <1>1
  <1>3. \A x, y \in S : f[x] = f[y] => x = y
    BY <1>2 DEF Pairs
  <1>4. \A y \in T : \E x \in S : f[x] = y
    BY <1>2
  <1> HIDE DEF T
  <1>5. ExistsBijection(S, T)
    BY <1>2, <1>3, <1>4 DEF ExistsBijection, Bijection, Injection, Surjection, IsInjective
  <1> QED
    BY <1>5, FS_Bijection DEF T

LEMMA SecondEnds ==
    ASSUME NEW S, IsFiniteSet(S), Pairs(S), NEW n, \A e \in S : e[1] = n
    PROVE  Cardinality({e[2] : e \in S}) = Cardinality(S)
  <1> DEFINE T == {e[2] : e \in S}
  <1>1. PICK f : f = [e \in S |-> e[2]]
    OBVIOUS
  <1>2. f \in [S -> T] /\ \A e \in S : f[e] = e[2]
    BY <1>1
  <1>3. \A x, y \in S : f[x] = f[y] => x = y
    BY <1>2 DEF Pairs
  <1>4. \A y \in T : \E x \in S : f[x] = y
    BY <1>2
  <1> HIDE DEF T
  <1>5. ExistsBijection(S, T)
    BY <1>2, <1>3, <1>4 DEF ExistsBijection, Bijection, Injection, Surjection, IsInjective
  <1> QED
    BY <1>5, FS_Bijection DEF T

LEMMA ThreeParts ==
    ASSUME NEW X, NEW Y, NEW Z, IsFiniteSet(X), IsFiniteSet(Y), IsFiniteSet(Z),
           X \cap Y = {}, X \cap Z = {}, Y \cap Z = {}
    PROVE  /\ Cardinality((X \cup Y) \cup Z) = Cardinality(X) + Cardinality(Y) + Cardinality(Z)
           /\ Cardinality(X) \in Nat /\ Cardinality(Y) \in Nat /\ Cardinality(Z) \in Nat
  <1>1. Cardinality(X) \in Nat /\ Cardinality(Y) \in Nat /\ Cardinality(Z) \in Nat
    BY FS_CardinalityType
  <1>2. /\ IsFiniteSet(X \cup Y)
        /\ Cardinality(X \cup Y) = Cardinality(X) + Cardinality(Y) - Cardinality(X \cap Y)
    BY FS_Union
  <1>3. Cardinality((X \cup Y) \cup Z)
          = Cardinality(X \cup Y) + Cardinality(Z) - Cardinality((X \cup Y) \cap Z)
    BY <1>2, FS_Union
  <1>4. (X \cup Y) \cap Z = {}
    OBVIOUS
  <1>5. PICK none : none = {} /\ Cardinality(none) = 0
    BY FS_EmptySet
  <1>6. Cardinality(X \cap Y) = 0 /\ Cardinality((X \cup Y) \cap Z) = 0
    BY <1>4, <1>5
  <1>7. Cardinality(X \cup Y) = Cardinality(X) + Cardinality(Y)
    BY <1>1, <1>2, <1>6
  <1> QED
    BY <1>1, <1>3, <1>6, <1>7

\* The edges a node takes with it: those from it, and those to it from others.
Leaving(E, n) == {e \in E : e[1] = n}
Reaching(E, n) == {e \in E : e[2] = n /\ e[1] # n}
Staying(E, n) == {e \in E : n \notin {e[1], e[2]}}

LEMMA EdgesOfANode ==
    ASSUME NEW E, IsFiniteSet(E), Pairs(E), NEW n
    PROVE  /\ Cardinality(E) = Cardinality(Staying(E, n)) + Cardinality(Leaving(E, n)) + Cardinality(Reaching(E, n))
           /\ \A t : Cardinality(OfTenant(E, t))
                = Cardinality(OfTenant(Staying(E, n), t)) + Cardinality(OfTenant(Reaching(E, n), t))
                  + (IF t = n.tenant THEN Cardinality(Leaving(E, n)) ELSE 0)
           /\ Cardinality(Staying(E, n)) \in Nat /\ Cardinality(Leaving(E, n)) \in Nat
           /\ Cardinality(Reaching(E, n)) \in Nat
           /\ \A t : /\ Cardinality(OfTenant(Staying(E, n), t)) \in Nat
                     /\ Cardinality(OfTenant(Reaching(E, n), t)) \in Nat
  <1> DEFINE X == Staying(E, n)
             Y == Leaving(E, n)
             Z == Reaching(E, n)
  <1>1. /\ IsFiniteSet(X) /\ IsFiniteSet(Y) /\ IsFiniteSet(Z)
        /\ X \cap Y = {} /\ X \cap Z = {} /\ Y \cap Z = {} /\ E = (X \cup Y) \cup Z
    BY FS_Subset DEF Staying, Leaving, Reaching
  <1>2. \A e \in Y : e[1] = n
    BY DEF Leaving
  <1> HIDE DEF X, Y, Z
  <1>3. /\ Cardinality(E) = Cardinality(X) + Cardinality(Y) + Cardinality(Z)
        /\ Cardinality(X) \in Nat /\ Cardinality(Y) \in Nat /\ Cardinality(Z) \in Nat
    <2>1. /\ Cardinality((X \cup Y) \cup Z) = Cardinality(X) + Cardinality(Y) + Cardinality(Z)
          /\ Cardinality(X) \in Nat /\ Cardinality(Y) \in Nat /\ Cardinality(Z) \in Nat
      BY <1>1, ThreeParts
    <2>2. Cardinality(E) = Cardinality((X \cup Y) \cup Z)
      BY <1>1, Zenon
    <2> QED
      BY <2>1, <2>2
  <1>4. ASSUME NEW t
        PROVE  /\ Cardinality(OfTenant(E, t)) = Cardinality(OfTenant(X, t)) + Cardinality(OfTenant(Z, t))
                  + (IF t = n.tenant THEN Cardinality(Y) ELSE 0)
               /\ Cardinality(OfTenant(X, t)) \in Nat /\ Cardinality(OfTenant(Z, t)) \in Nat
    <2> DEFINE x == OfTenant(X, t)
               y == OfTenant(Y, t)
               z == OfTenant(Z, t)
    <2>1. x \subseteq X /\ y \subseteq Y /\ z \subseteq Z /\ OfTenant(E, t) = (x \cup y) \cup z
      BY <1>1 DEF OfTenant
    <2>2. y = IF t = n.tenant THEN Y ELSE {}
      BY <1>2 DEF OfTenant
    <2> HIDE DEF x, y, z
    <2>3. IsFiniteSet(x) /\ IsFiniteSet(y) /\ IsFiniteSet(z)
      BY <1>1, <2>1, FS_Subset
    <2>4. x \cap y = {} /\ x \cap z = {} /\ y \cap z = {}
      BY <1>1, <2>1
    <2>5. /\ Cardinality((x \cup y) \cup z) = Cardinality(x) + Cardinality(y) + Cardinality(z)
          /\ Cardinality(x) \in Nat /\ Cardinality(y) \in Nat /\ Cardinality(z) \in Nat
      BY <2>3, <2>4, ThreeParts
    <2>6. Cardinality(y) = IF t = n.tenant THEN Cardinality(Y) ELSE 0
      BY <2>2, FS_EmptySet
    <2>7. Cardinality(OfTenant(E, t))
            = Cardinality(x) + Cardinality(z) + (IF t = n.tenant THEN Cardinality(Y) ELSE 0)
      BY <2>1, <2>5, <2>6
    <2> QED
      BY <2>5, <2>7 DEF x, z
  <1> QED
    BY <1>3, <1>4 DEF X, Y, Z

\* A node takes its edges with it, one from itself to itself once.
LEMMA SourcesOf ==
    ASSUME NEW g, Counted(g), NEW n
    PROVE  /\ Targets(g, n) = {e[2] : e \in Leaving(DOMAIN g.out, n)}
           /\ Sources(g, n) \ {n} = {e[1] : e \in Reaching(DOMAIN g.out, n)}
  <1>1. Targets(g, n) = {e[2] : e \in Leaving(DOMAIN g.out, n)}
    BY DEF Targets, Leaving
  <1>2. DOMAIN g.in = {<<e[2], e[1]>> : e \in DOMAIN g.out}
    BY DEF Counted, Mirrored
  <1>3. Sources(g, n) = {e[2] : e \in {y \in DOMAIN g.in : y[1] = n}}
    BY DEF Sources
  <1>4. ASSUME NEW e \in Reaching(DOMAIN g.out, n) PROVE e[1] \in Sources(g, n) \ {n}
    <2>1. e \in DOMAIN g.out /\ e[2] = n /\ e[1] # n
      BY DEF Reaching
    <2>2. PICK z : z = <<e[2], e[1]>>
      OBVIOUS
    <2>3. z \in {y \in DOMAIN g.in : y[1] = n} /\ z[2] = e[1]
      BY <1>2, <2>1, <2>2
    <2> QED
      BY <1>3, <2>1, <2>3
  <1>5. ASSUME NEW m \in Sources(g, n) \ {n} PROVE \E e \in Reaching(DOMAIN g.out, n) : m = e[1]
    <2>1. PICK y \in DOMAIN g.in : y[1] = n /\ y[2] = m
      BY <1>3
    <2>2. PICK e \in DOMAIN g.out : y = <<e[2], e[1]>>
      BY <1>2
    <2>3. e[2] = n /\ e[1] = m /\ m # n
      BY <2>1, <2>2
    <2> QED
      BY <2>3 DEF Reaching
  <1>6. Sources(g, n) \ {n} = {e[1] : e \in Reaching(DOMAIN g.out, n)}
    BY <1>4, <1>5
  <1> QED
    BY <1>1, <1>6

\* What the code subtracts is the number of those edges.
LEMMA EdgesGone ==
    ASSUME NEW g, Counted(g), NEW n
    PROVE  LET E == DOMAIN g.out
               ins == Sources(g, n) \ {n}
           IN  /\ Cardinality(Targets(g, n)) = Cardinality(Leaving(E, n))
               /\ Cardinality(ins) = Cardinality(Reaching(E, n))
               /\ \A t : Cardinality({s \in ins : NodeIDPrefix(s) = t})
                           = Cardinality(OfTenant(Reaching(E, n), t))
  <1> DEFINE Y == Leaving(DOMAIN g.out, n)
             Z == Reaching(DOMAIN g.out, n)
             ins == Sources(g, n) \ {n}
  <1>1. Targets(g, n) = {e[2] : e \in Y} /\ ins = {e[1] : e \in Z}
    BY SourcesOf
  <1>2. IsFiniteSet(DOMAIN g.out) /\ Pairs(DOMAIN g.out)
    BY DEF Counted, Finite
  <1>3. /\ IsFiniteSet(Y) /\ IsFiniteSet(Z) /\ Pairs(Y) /\ Pairs(Z)
        /\ \A e \in Y : e[1] = n
        /\ \A e \in Z : e[2] = n
    <2>1. Y \subseteq DOMAIN g.out /\ Z \subseteq DOMAIN g.out
      BY DEF Leaving, Reaching
    <2>2. IsFiniteSet(Y) /\ IsFiniteSet(Z)
      BY <1>2, <2>1, FS_Subset
    <2> QED
      BY <1>2, <2>1, <2>2 DEF Leaving, Reaching, Pairs
  <1> HIDE DEF Y, Z, ins
  <1>4. Cardinality({e[2] : e \in Y}) = Cardinality(Y)
    BY <1>3, SecondEnds
  <1>5. Cardinality({e[1] : e \in Z}) = Cardinality(Z)
    BY <1>3, FirstEnds
  <1>6. ASSUME NEW t
        PROVE  Cardinality({s \in ins : NodeIDPrefix(s) = t}) = Cardinality(OfTenant(Z, t))
    <2>1. PICK z : z = OfTenant(Z, t)
      OBVIOUS
    <2>2. z \subseteq Z
      BY <2>1 DEF OfTenant
    <2>3. IsFiniteSet(z) /\ Pairs(z) /\ \A e \in z : e[2] = n
      BY <1>3, <2>2, FS_Subset DEF Pairs
    <2>4. Cardinality({e[1] : e \in z}) = Cardinality(z)
      BY <2>3, FirstEnds
    <2>5. {s \in ins : NodeIDPrefix(s) = t} = {e[1] : e \in z}
      BY <1>1, <2>1 DEF OfTenant, NodeIDPrefix
    <2> QED
      BY <2>1, <2>4, <2>5, Zenon
  <1>7. Cardinality(Targets(g, n)) = Cardinality(Y) /\ Cardinality(ins) = Cardinality(Z)
    BY <1>1, <1>4, <1>5, Zenon
  <1> QED
    BY <1>6, <1>7 DEF Y, Z, ins

LEMMA DropCounted ==
    ASSUME NEW g, Counted(g), NEW n
    PROVE  Counted(RemoveNode(g, n))
  <1>1. CASE n \notin Nodes(g)
    BY <1>1 DEF RemoveNode
  <1>2. CASE n \in Nodes(g)
    <2> DEFINE ins == Sources(g, n) \ {n}
               come(t) == Cardinality({s \in ins : NodeIDPrefix(s) = t})
               from(t) == IF t = n.tenant THEN Cardinality(Targets(g, n)) ELSE 0
               vode == IF g.typ[n] = NodeTypeVode THEN 1 ELSE 0
    <2>1. PICK h : h = RemoveNode(g, n)
      OBVIOUS
    <2>2. /\ IsGraph(h) /\ h.typ = drop(g.typ, {n})
          /\ h.out = drop(g.out, {e \in DOMAIN g.out : n \in {e[1], e[2]}})
          /\ h.in = drop(g.in, {e \in DOMAIN g.in : n \in {e[1], e[2]}})
          /\ h.index = g.index \ {<<g.typ[n], n>>}
          /\ h.tenantNodes = g.tenantNodes \ {<<n.tenant, n>>}
          /\ h.edgeCount = g.edgeCount - Cardinality(Targets(g, n)) - Cardinality(ins)
          /\ h.edgeCounters = [t \in DOMAIN g.edgeCounters |-> g.edgeCounters[t] - (come(t) + from(t))]
          /\ h.nodeCounters = [g.nodeCounters EXCEPT ![n.tenant] = @ - 1]
          /\ h.vodeCounters = [g.vodeCounters EXCEPT ![n.tenant] = @ - vode]
      <3>1. IsGraph(g)
        BY DEF Counted
      <3>2. h = [g EXCEPT
                  !.typ = drop(g.typ, {n}),
                  !.out = drop(g.out, {e \in DOMAIN g.out : n \in {e[1], e[2]}}),
                  !.in = drop(g.in, {e \in DOMAIN g.in : n \in {e[1], e[2]}}),
                  !.index = g.index \ {<<g.typ[n], n>>},
                  !.tenantNodes = g.tenantNodes \ {<<n.tenant, n>>},
                  !.edgeCount = g.edgeCount - Cardinality(Targets(g, n)) - Cardinality(ins),
                  !.edgeCounters = [t \in DOMAIN g.edgeCounters |-> g.edgeCounters[t] - (come(t) + from(t))],
                  !.nodeCounters[n.tenant] = @ - 1,
                  !.vodeCounters[n.tenant] = @ - vode]
        BY <1>2, <2>1, Zenon DEF RemoveNode, NodeIDPrefix
      <3> HIDE DEF ins, come, from, vode
      <3> QED
        BY <3>1, <3>2, ZenonT(60) DEF IsGraph
    <2>3. PICK E : E = DOMAIN g.out
      OBVIOUS
    <2>4. IsFiniteSet(E) /\ Pairs(E)
      BY <2>3 DEF Counted, Finite
    <2>5. DOMAIN h.out = Staying(E, n) /\ \A e \in DOMAIN h.out : h.out[e] = g.out[e]
      BY <2>2, <2>3 DEF drop, Staying
    <2>6. /\ Nodes(h) = Nodes(g) \ {n}
          /\ \A m \in Nodes(h) : h.typ[m] = g.typ[m]
      BY <2>2 DEF drop, Nodes
    <2>7. Finite(h)
      <3>1. IsFiniteSet(Nodes(h)) /\ IsFiniteSet(DOMAIN h.out) /\ DOMAIN h.out \subseteq E
        BY <2>4, <2>5, <2>6, FS_Subset, FS_RemoveElement DEF Counted, Finite, Staying
      <3> QED
        BY <2>4, <3>1 DEF Finite, Pairs
    <2>8. Mirrored(h)
      <3>1. DOMAIN h.in = {<<x[2], x[1]>> : x \in DOMAIN h.out}
        <4>1. DOMAIN h.in = DOMAIN g.in \ {e \in DOMAIN g.in : n \in {e[1], e[2]}}
          BY <2>2 DEF drop
        <4>2. DOMAIN g.in = {<<e[2], e[1]>> : e \in DOMAIN g.out} /\ Pairs(DOMAIN g.out)
          BY DEF Counted, Mirrored, Finite
        <4>3. \A e : e \in DOMAIN h.out <=> (e \in DOMAIN g.out /\ n \notin {e[1], e[2]})
          BY <2>3, <2>5 DEF Staying
        <4> QED
          BY <4>1, <4>2, <4>3, ReversedApart
      <3>2. ASSUME NEW x \in DOMAIN h.out
            PROVE  h.in[<<x[2], x[1]>>] = h.out[x] /\ {x[1], x[2]} \subseteq Nodes(h)
        <4>1. x \in DOMAIN g.out /\ n \notin {x[1], x[2]} /\ <<x[2], x[1]>> \in DOMAIN h.in
          BY <2>3, <2>5, <3>1 DEF Staying
        <4>2. h.out[x] = g.out[x] /\ h.in[<<x[2], x[1]>>] = g.in[<<x[2], x[1]>>]
          BY <2>2, <2>5, <4>1 DEF drop
        <4> QED
          BY <2>6, <4>1, <4>2 DEF Counted, Mirrored
      <3> QED
        BY <3>1, <3>2 DEF Mirrored
    <2>9. Indexed(h)
      <3>1. /\ g.index = {<<g.typ[m], m>> : m \in {x \in Nodes(g) : g.typ[x] # Untyped}}
            /\ g.tenantNodes = {<<m.tenant, m>> : m \in Nodes(g)}
        BY DEF Counted, Indexed
      <3>2. ASSUME NEW m \in Nodes(h), h.typ[m] # Untyped PROVE <<h.typ[m], m>> \in h.index
        BY <2>2, <2>6, <3>1, <3>2, ZenonT(60)
      <3>3. ASSUME NEW x \in h.index
            PROVE  \E m \in Nodes(h) : h.typ[m] # Untyped /\ x = <<h.typ[m], m>>
        <4>1. PICK m \in Nodes(g) : g.typ[m] # Untyped /\ x = <<g.typ[m], m>>
          BY <2>2, <3>1
        <4>2. m # n
          BY <2>2, <4>1
        <4> QED
          BY <2>6, <4>1, <4>2
      <3>4. h.index = {<<h.typ[m], m>> : m \in {x \in Nodes(h) : h.typ[x] # Untyped}}
        BY <3>2, <3>3
      <3>5. h.tenantNodes = {<<m.tenant, m>> : m \in Nodes(h)}
        BY <2>2, <2>6, <3>1
      <3> QED
        BY <2>6, <3>4, <3>5 DEF Counted, Indexed
    <2>10. n.tenant \in Tenants
      BY <1>2 DEF Counted, Indexed
    <2>11. NodesTallied(h)
      <3>1. ASSUME NEW t \in Tenants PROVE h.nodeCounters[t] = Cardinality(NodesOf(h, t))
        <4>1. /\ g.nodeCounters[t] = Cardinality(NodesOf(g, t)) /\ IsFiniteSet(NodesOf(g, t))
              /\ Cardinality(NodesOf(g, t)) \in Nat
          BY SubsetsFinite DEF Counted, NodesTallied
        <4>2. h.nodeCounters[t] = IF t = n.tenant THEN g.nodeCounters[t] - 1 ELSE g.nodeCounters[t]
          BY <2>2 DEF Counted, NodesTallied
        <4>3. CASE t = n.tenant
          <5>1. NodesOf(h, t) = NodesOf(g, t) \ {n} /\ n \in NodesOf(g, t)
            BY <1>2, <2>6, <4>3 DEF NodesOf
          <5>2. Cardinality(NodesOf(h, t)) = Cardinality(NodesOf(g, t)) - 1
            BY <4>1, <5>1, FS_RemoveElement
          <5> QED
            BY <4>1, <4>2, <4>3, <5>2
        <4>4. CASE t # n.tenant
          <5>1. NodesOf(h, t) = NodesOf(g, t)
            BY <2>6, <4>4 DEF NodesOf
          <5> QED
            BY <4>1, <4>2, <4>4, <5>1
        <4> QED
          BY <4>3, <4>4
      <3> QED
        BY <2>2, <3>1 DEF Counted, NodesTallied
    <2>12. VodesTallied(h)
      <3>1. ASSUME NEW t \in Tenants PROVE h.vodeCounters[t] = Cardinality(VodesOf(h, t))
        <4>1. /\ g.vodeCounters[t] = Cardinality(VodesOf(g, t)) /\ IsFiniteSet(VodesOf(g, t))
              /\ Cardinality(VodesOf(g, t)) \in Nat
          BY SubsetsFinite DEF Counted, VodesTallied
        <4>2. h.vodeCounters[t] = IF t = n.tenant THEN g.vodeCounters[t] - vode ELSE g.vodeCounters[t]
          BY <2>2 DEF Counted, VodesTallied
        <4>3. CASE t = n.tenant /\ g.typ[n] = NodeTypeVode
          <5>1. VodesOf(h, t) = VodesOf(g, t) \ {n} /\ n \in VodesOf(g, t)
            BY <1>2, <2>6, <4>3 DEF VodesOf, NodesOf
          <5>2. Cardinality(VodesOf(h, t)) = Cardinality(VodesOf(g, t)) - 1
            BY <4>1, <5>1, FS_RemoveElement
          <5> QED
            BY <4>1, <4>2, <4>3, <5>2
        <4>4. CASE ~(t = n.tenant /\ g.typ[n] = NodeTypeVode)
          <5>1. VodesOf(h, t) = VodesOf(g, t)
            BY <2>6, <4>4 DEF VodesOf, NodesOf
          <5> QED
            BY <4>1, <4>2, <4>4, <5>1
        <4> QED
          BY <4>3, <4>4
      <3> QED
        BY <2>2, <3>1 DEF Counted, VodesTallied
    <2>13. EdgesTallied(h)
      <3>1. /\ Cardinality(E) = Cardinality(Staying(E, n)) + Cardinality(Leaving(E, n))
                                + Cardinality(Reaching(E, n))
            /\ \A t : Cardinality(OfTenant(E, t))
                 = Cardinality(OfTenant(Staying(E, n), t)) + Cardinality(OfTenant(Reaching(E, n), t))
                   + (IF t = n.tenant THEN Cardinality(Leaving(E, n)) ELSE 0)
            /\ Cardinality(Staying(E, n)) \in Nat /\ Cardinality(Leaving(E, n)) \in Nat
            /\ Cardinality(Reaching(E, n)) \in Nat
            /\ \A t : /\ Cardinality(OfTenant(Staying(E, n), t)) \in Nat
                      /\ Cardinality(OfTenant(Reaching(E, n), t)) \in Nat
        BY <2>4, EdgesOfANode
      <3>2. /\ Cardinality(Targets(g, n)) = Cardinality(Leaving(E, n))
            /\ Cardinality(ins) = Cardinality(Reaching(E, n))
            /\ \A t : come(t) = Cardinality(OfTenant(Reaching(E, n), t))
        BY <2>3, EdgesGone
      <3>3. /\ DOMAIN g.edgeCounters = Tenants /\ g.edgeCount = Cardinality(E)
            /\ \A t \in Tenants : g.edgeCounters[t] = Cardinality(OfTenant(E, t))
        BY <2>3 DEF Counted, EdgesTallied, EdgesOf
      <3> HIDE DEF ins, come
      <3>4. ASSUME NEW t \in Tenants
            PROVE  h.edgeCounters[t] = Cardinality(OfTenant(Staying(E, n), t))
        <4>1. h.edgeCounters[t] = g.edgeCounters[t] - (come(t) + from(t))
          BY <2>2, <3>3
        <4>2. g.edgeCounters[t] = Cardinality(OfTenant(E, t))
          BY <3>3
        <4>3. /\ Cardinality(OfTenant(E, t))
                 = Cardinality(OfTenant(Staying(E, n), t)) + Cardinality(OfTenant(Reaching(E, n), t))
                   + (IF t = n.tenant THEN Cardinality(Leaving(E, n)) ELSE 0)
              /\ Cardinality(OfTenant(Staying(E, n), t)) \in Nat
              /\ Cardinality(OfTenant(Reaching(E, n), t)) \in Nat
              /\ Cardinality(Leaving(E, n)) \in Nat
          BY <3>1
        <4>4. /\ come(t) = Cardinality(OfTenant(Reaching(E, n), t))
              /\ from(t) = IF t = n.tenant THEN Cardinality(Leaving(E, n)) ELSE 0
          BY <3>2
        <4> HIDE DEF from
        <4> QED
          BY <4>1, <4>2, <4>3, <4>4
      <3>5. h.edgeCount = Cardinality(Staying(E, n))
        BY <2>2, <3>1, <3>2, <3>3
      <3>6. DOMAIN h.edgeCounters = Tenants
        BY <2>2, <3>3
      <3> QED
        BY <2>5, <3>4, <3>5, <3>6 DEF EdgesTallied, EdgesOf
    <2> QED
      BY <2>1, <2>2, <2>7, <2>8, <2>9, <2>11, <2>12, <2>13 DEF Counted
  <1> QED
    BY <1>1, <1>2

\* The empty graph, and the one a reload starts from.
LEMMA NewCounted ==
    ASSUME NEW mode, NEW limit
    PROVE  Counted(newFlatGraph(Tenants, mode, limit))
  <1>1. PICK c, z : /\ c = newFlatGraph(Tenants, mode, limit) /\ z = [t \in Tenants |-> 0]
                    /\ c = [cycleDetection |-> mode, cycleCheckLimit |-> limit,
                            typ |-> << >>, out |-> << >>, in |-> << >>, index |-> {}, tenantNodes |-> {},
                            edgeCount |-> 0, nodeCounters |-> z, edgeCounters |-> z, vodeCounters |-> z]
    BY DEF newFlatGraph
  <1>2. /\ IsGraph(c) /\ Nodes(c) = {} /\ DOMAIN c.out = {} /\ DOMAIN c.in = {}
        /\ c.index = {} /\ c.tenantNodes = {}
        /\ c.nodeCounters = z /\ c.edgeCounters = z /\ c.vodeCounters = z /\ c.edgeCount = 0
    <2>1. IsGraph(c)
      BY <1>1 DEF IsGraph
    <2>2. /\ DOMAIN c.out = {} /\ DOMAIN c.in = {} /\ DOMAIN c.typ = {}
          /\ c.index = {} /\ c.tenantNodes = {}
          /\ c.nodeCounters = z /\ c.edgeCounters = z /\ c.vodeCounters = z /\ c.edgeCount = 0
      BY <1>1
    <2> QED
      BY <2>1, <2>2 DEF Nodes
  <1>3. PICK none : none = {} /\ IsFiniteSet(none) /\ Cardinality(none) = 0
    BY FS_EmptySet
  <1>4. Finite(c) /\ Mirrored(c) /\ Indexed(c)
    BY <1>2, <1>3 DEF Finite, Pairs, Mirrored, Indexed
  <1>5. \A t : NodesOf(c, t) = none /\ EdgesOf(c, t) = none /\ VodesOf(c, t) = none
    BY <1>2, <1>3 DEF NodesOf, EdgesOf, OfTenant, VodesOf
  <1>6. NodesTallied(c) /\ VodesTallied(c)
    BY <1>1, <1>2, <1>3, <1>5 DEF NodesTallied, VodesTallied
  <1>7. DOMAIN c.out = none
    BY <1>2, <1>3
  <1>8. EdgesTallied(c)
    BY <1>1, <1>2, <1>3, <1>5, <1>7 DEF EdgesTallied
  <1> QED
    BY <1>1, <1>2, <1>4, <1>6, <1>8 DEF Counted

LEMMA ClearCounted ==
    ASSUME NEW g, Counted(g)
    PROVE  Counted(Clear(g))
  <1>1. DOMAIN g.nodeCounters = Tenants
    BY DEF Counted, NodesTallied
  <1>2. Clear(g) = newFlatGraph(Tenants, g.cycleDetection, g.cycleCheckLimit)
    BY <1>1, Zenon DEF Clear
  <1> QED
    BY <1>2, NewCounted, Zenon

\* Loading an edge of the edge table, and the whole table.
LEMMA LoadCounted ==
    ASSUME NEW g, Counted(g), NEW x, x.tenant \in Tenants
    PROVE  Counted(loadEdge(g, x))
  <1> DEFINE s == From(x)
             t == To(x)
             a1 == addNodeLocked(g, s, s.entity).g
             a2 == addNodeLocked(a1, t, t.entity).g
             h == addEdgeLocked(a2, s, t, x.rel).g
  <1>1. s.tenant \in Tenants /\ t.tenant \in Tenants
    BY DEF From, To, Source, Target, node, NodeID
  <1>2. loadEdge(g, x) = h
    BY DEF loadEdge, From, To, Source, Target
  <1> HIDE DEF s, t
  <1>3. Counted(a1)
    BY <1>1, NodeCounted, Zenon
  <1> HIDE DEF a1
  <1>4. Counted(a2)
    BY <1>1, <1>3, NodeCounted, Zenon
  <1> HIDE DEF a2
  <1>5. Counted(h)
    BY <1>1, <1>4, EdgeCounted
  <1> QED
    BY <1>2, <1>5, Zenon

LEMMA LoadedCounted ==
    ASSUME NEW base, Counted(base), NEW E, IsFiniteSet(E), \A x \in E : x.tenant \in Tenants
    PROVE  Counted(LoadAll(base, E))
  <1>1. PICK f : Loads(f, base, E) /\ LoadAll(base, E) = f[E]
    BY Loaded DEF LoadAll
  <1> DEFINE F == {s \in SUBSET E : ~Counted(f[s])}
  <1>2. SUFFICES ASSUME ~Counted(f[E]) PROVE FALSE
    BY <1>1
  <1>3. F # {} /\ \A s \in F : IsFiniteSet(s)
    BY <1>2, FS_Subset
  <1>4. PICK s \in F : \A V \in F : ~(Cardinality(V) < Cardinality(s))
    <2> HIDE DEF F
    <2> QED
      BY <1>3, SmallestSet
  <1>5. f[s] = IF s = {} THEN base ELSE loadEdge(f[Rest(s)], Pick(s))
    BY <1>1, <1>4 DEF Loads
  <1>6. s # {} /\ IsFiniteSet(s) /\ s \in SUBSET E /\ ~Counted(f[s])
    BY <1>3, <1>4, <1>5
  <1>7. Pick(s) \in s /\ Rest(s) \in SUBSET E /\ Rest(s) \notin F
    BY <1>4, <1>6, RestSmaller
  <1>8. Counted(f[Rest(s)]) /\ Pick(s).tenant \in Tenants
    BY <1>6, <1>7
  <1>9. Counted(loadEdge(f[Rest(s)], Pick(s)))
    BY <1>8, LoadCounted
  <1> QED
    BY <1>5, <1>6, <1>9

-----------------------------------------------------------------------------
(* The requests and the counters.                                          *)

\* The documents a request links, the edges it adds and those a reload reads
\* are of tenants that have counters.
OfTenants(s) ==
    \/ s = <<s[1]>> /\ s[1][1] \in Tenants
    \/ s = <<s[1], s[2]>> /\ s[1][1] \in Tenants /\ s[2][1] \in Tenants

TaskOK(h) ==
    /\ h.pc \in Linking => OfTenants(h.todo)
    /\ h.pc \in {"look", "cut", "link"} => \A e \in h.new : e[1].tenant \in Tenants
    /\ h.pc = "load" => \A x \in h.old : x.tenant \in Tenants

CountInv == Counted(graph) /\ \A i \in DOMAIN handler : TaskOK(handler[i])

LEMMA NextTask ==
    ASSUME NEW i, Shape(handler[i]), OfTenants(handler[i].todo)
    PROVE  TaskOK(NextNode(i))
  <1> DEFINE h == handler[i]
             p == IF Len(h.todo) = 1 THEN "invalidate"
                  ELSE IF Is(i, {"patch", "commit"}) THEN "reget" ELSE "node"
  <1>1. NextNode(i).todo = Tail(h.todo) /\ NextNode(i).pc = p
    BY DEF NextNode, Shape
  <1>2. CASE h.todo = <<h.todo[1]>>
    <2>1. Len(h.todo) = 1
      BY <1>2
    <2>2. p = "invalidate"
      BY <2>1
    <2> QED
      BY <1>1, <2>2 DEF TaskOK, Linking
  <1>3. CASE h.todo = <<h.todo[1], h.todo[2]>> /\ h.todo[2][1] \in Tenants
    <2>1. PICK a, b : h.todo = <<a, b>> /\ b[1] \in Tenants
      BY <1>3
    <2>2. Tail(h.todo) = <<b>>
      BY <2>1
    <2>3. OfTenants(<<b>>)
      BY <2>1 DEF OfTenants
    <2>4. p \in {"invalidate", "reget", "node"}
      OBVIOUS
    <2> QED
      BY <1>1, <2>2, <2>3, <2>4 DEF TaskOK
  <1> QED
    BY <1>2, <1>3 DEF OfTenants

\* A node of a document, and what its references name.
LEMMA NodeTenants ==
    ASSUME NEW k, k[1] \in Tenants, NEW data
    PROVE  node(k).tenant \in Tenants /\ \A e \in edgesOf(k, data) : e[1].tenant \in Tenants
  BY DEF node, NodeID, edgesOf

\* Every locked call of the graph keeps it counted.
LEMMA CallsCount ==
    ASSUME Goroutines, CountInv, NEW i \in DOMAIN handler,
           \/ Reget(i) \/ PutNode(i) \/ Look(i) \/ Cut(i) \/ Link(i) \/ removeGraph(i)
           \/ ClearGraph(i) \/ Scan(i) \/ LoadEdge(i)
    PROVE  Counted(graph') /\ TaskOK(handler'[i])
  <1> DEFINE h == handler[i]
             k == Head(h.todo)
  <1>1. Shape(h) /\ TaskOK(h) /\ Counted(graph)
    BY DEF Goroutines, CountInv
  <1>2. h.pc \in Linking => OfTenants(h.todo) /\ k[1] \in Tenants /\ TaskOK(NextNode(i))
    BY <1>1, NextTask DEF TaskOK, OfTenants
  <1>3. \A x : Go(i, x) => handler'[i] = x
    BY DEF Go
  <1>4. CASE Reget(i)
    <2>1. h.pc \in Linking /\ graph' = graph
      BY <1>4 DEF Reget, At, Linking
    <2>2. \/ handler'[i] = NextNode(i)
          \/ \E X : handler'[i] = [h EXCEPT !.doc = X, !.pc = "node"]
      BY <1>3, <1>4, Zenon DEF Reget
    <2>3. ASSUME NEW X, handler'[i] = [h EXCEPT !.doc = X, !.pc = "node"]
          PROVE  TaskOK(handler'[i])
      BY <1>1, <1>2, <2>1, <2>3 DEF TaskOK, Shape
    <2> QED
      BY <1>1, <1>2, <2>1, <2>2, <2>3
  <1>5. CASE PutNode(i)
    <2>1. h.pc \in Linking
      BY <1>5, Zenon DEF PutNode, At, Linking
    <2>2. PICK n : n = node(k)
      OBVIOUS
    <2>3. n.tenant \in Tenants
      BY <1>2, <2>1, <2>2, NodeTenants
    <2>4. Counted(addNodeLocked(graph, n, k[2]).g)
      BY <1>1, <2>3, NodeCounted, Zenon
    <2>5. graph' = addNodeLocked(graph, n, k[2]).g
      BY <1>5, <2>2, Zenon DEF PutNode
    <2>6. \/ handler'[i] = NextNode(i)
          \/ handler'[i] = [h EXCEPT !.pc = "look", !.new = edgesOf(k, h.doc)]
      BY <1>3, <1>5, Zenon DEF PutNode
    <2>7. ASSUME handler'[i] = [h EXCEPT !.pc = "look", !.new = edgesOf(k, h.doc)]
          PROVE  TaskOK(handler'[i])
      <3>1. \A e \in edgesOf(k, h.doc) : e[1].tenant \in Tenants
        BY <1>2, <2>1, NodeTenants
      <3>2. /\ handler'[i].pc = "look" /\ handler'[i].todo = h.todo
            /\ handler'[i].new = edgesOf(k, h.doc)
        BY <1>1, <2>7 DEF Shape
      <3> QED
        BY <1>2, <2>1, <3>1, <3>2 DEF TaskOK
    <2> QED
      BY <1>2, <2>1, <2>4, <2>5, <2>6, <2>7, Zenon
  <1>6. CASE Look(i)
    <2>1. h.pc = "look" /\ graph' = graph
          /\ \E X : handler'[i] = [h EXCEPT !.pc = "cut", !.old = X]
      BY <1>3, <1>6 DEF Look, At
    <2>2. handler'[i].pc = "cut" /\ handler'[i].todo = h.todo /\ handler'[i].new = h.new
      BY <1>1, <2>1 DEF Shape
    <2> QED
      BY <1>1, <2>1, <2>2 DEF TaskOK, Linking
  <1>7. CASE Cut(i)
    <2>1. h.pc = "cut"
      BY <1>7 DEF Cut, At
    <2>2. graph' = graph \/ \E t : graph' = RemoveEdge(graph, node(k), t)
      BY <1>7, Zenon DEF Cut
    <2>3. Counted(graph')
      BY <1>1, <2>2, CutCounted
    <2>4. \E X : handler'[i] \in {[h EXCEPT !.pc = "link"], [h EXCEPT !.old = X]}
      BY <1>3, <1>7 DEF Cut
    <2>5. /\ handler'[i].pc \in {"cut", "link"} /\ handler'[i].todo = h.todo
          /\ handler'[i].new = h.new
      BY <1>1, <2>1, <2>4 DEF Shape
    <2> QED
      BY <1>1, <2>1, <2>3, <2>5 DEF TaskOK, Linking
  <1>8. CASE Link(i)
    <2>1. h.pc = "link" /\ h.pc \in Linking
      BY <1>8 DEF Link, At, Linking
    <2>2. CASE h.new = {}
      <3>1. graph' = graph /\ handler'[i] = NextNode(i)
        BY <1>3, <1>8, <2>2 DEF Link
      <3> QED
        BY <1>1, <1>2, <2>1, <3>1
    <2>3. CASE h.new # {}
      <3>1. PICK e \in h.new : /\ graph' = addEdgeLocked(graph, node(k), e[1], e[2]).g
                               /\ Go(i, [h EXCEPT !.new = @ \ {e}])
        BY <1>8, <2>3, Zenon DEF Link
      <3>2. e[1].tenant \in Tenants
        BY <1>1, <2>1 DEF TaskOK
      <3>3. PICK n, m : n = node(k) /\ m = e[1]
        OBVIOUS
      <3>4. n.tenant \in Tenants /\ m.tenant \in Tenants
        BY <1>2, <2>1, <3>2, <3>3, NodeTenants
      <3>5. Counted(addEdgeLocked(graph, n, m, e[2]).g)
        BY <1>1, <3>4, EdgeCounted
      <3>6. handler'[i].pc = "link" /\ handler'[i].todo = h.todo /\ handler'[i].new \subseteq h.new
        BY <1>1, <1>3, <2>1, <3>1 DEF Shape
      <3>7. TaskOK(handler'[i])
        BY <1>1, <2>1, <3>6 DEF TaskOK
      <3> QED
        BY <3>1, <3>3, <3>5, <3>7, Zenon
    <2> QED
      BY <2>2, <2>3
  <1>9. CASE removeGraph(i)
    <2>1. /\ graph' = RemoveNode(graph, node(Req(i).key))
          /\ handler'[i] = [h EXCEPT !.pc = "invalidate"]
      BY <1>3, <1>9, Zenon DEF removeGraph
    <2>2. Counted(graph')
      BY <1>1, <2>1, DropCounted, Zenon
    <2>3. handler'[i].pc = "invalidate"
      BY <1>1, <2>1 DEF Shape
    <2> QED
      BY <2>2, <2>3 DEF TaskOK, Linking
  <1>10. CASE ClearGraph(i)
    <2>1. graph' = Clear(graph) /\ handler'[i] = [h EXCEPT !.pc = "scan"]
      BY <1>3, <1>10, Zenon DEF ClearGraph
    <2>2. Counted(graph')
      BY <1>1, <2>1, ClearCounted, Zenon
    <2>3. handler'[i].pc = "scan"
      BY <1>1, <2>1 DEF Shape
    <2> QED
      BY <2>2, <2>3 DEF TaskOK, Linking
  <1>11. CASE Scan(i)
    <2>1. /\ graph' = graph
          /\ handler'[i] = [h EXCEPT !.pc = "load", !.old = UNION {ScanGraphEdges(db, t) : t \in Tenants}]
      BY <1>3, <1>11, Zenon DEF Scan
    <2>2. /\ handler'[i].pc = "load"
          /\ handler'[i].old = UNION {ScanGraphEdges(db, t) : t \in Tenants}
      BY <1>1, <2>1 DEF Shape
    <2>3. \A x \in handler'[i].old : x.tenant \in Tenants
      BY <2>2 DEF ScanGraphEdges
    <2> QED
      BY <1>1, <2>1, <2>2, <2>3 DEF TaskOK, Linking
  <1>12. CASE LoadEdge(i)
    <2>1. h.pc = "load"
      BY <1>12, Zenon DEF LoadEdge, At
    <2>2. CASE h.old = {}
      <3>1. graph' = graph /\ handler'[i] = [h EXCEPT !.pc = "done"]
        BY <1>3, <1>12, <2>2, Zenon DEF LoadEdge, Done
      <3>2. handler'[i].pc = "done"
        BY <1>1, <3>1 DEF Shape
      <3> QED
        BY <1>1, <3>1, <3>2 DEF TaskOK, Linking
    <2>3. CASE h.old # {}
      <3>1. PICK x \in h.old : graph' = loadEdge(graph, x) /\ Go(i, [h EXCEPT !.old = @ \ {x}])
        BY <1>12, <2>3, Zenon DEF LoadEdge
      <3>2. x.tenant \in Tenants
        BY <1>1, <2>1 DEF TaskOK
      <3>3. Counted(graph')
        BY <1>1, <3>1, <3>2, LoadCounted
      <3>4. handler'[i].pc = "load" /\ handler'[i].old \subseteq h.old
        BY <1>1, <1>3, <2>1, <3>1 DEF Shape
      <3> QED
        BY <1>1, <2>1, <3>3, <3>4 DEF TaskOK, Linking
    <2> QED
      BY <2>2, <2>3
  <1> QED
    BY <1>4, <1>5, <1>6, <1>7, <1>8, <1>9, <1>10, <1>11, <1>12

\* What a store write leaves its goroutine to do.
LEMMA StoredTask ==
    ASSUME Goroutines, NEW i \in DOMAIN handler, NEW d, NEW K, NEW todo, NEW doc,
           Stored(i, d, K, todo, doc), OfTenants(todo) \/ Is(i, {"delete", "rebuild"})
    PROVE  graph' = graph /\ Moves(i) /\ TaskOK(handler'[i])
  <1> DEFINE p == CASE Is(i, {"patch", "commit"}) -> "reget"
                    [] Is(i, {"delete"}) -> "unlink"
                    [] Is(i, {"rebuild"}) -> "clear"
                    [] OTHER -> "node"
  <1>1. PICK a, h : a = handler[i] /\ h = [a EXCEPT !.todo = todo, !.doc = doc, !.keys = K, !.pc = p]
    OBVIOUS
  <1>2. graph' = graph /\ handler' = [handler EXCEPT ![i] = h]
    BY <1>1, Zenon DEF Stored, Go
  <1>3. /\ p \in {"reget", "unlink", "clear", "node"}
        /\ Is(i, {"delete", "rebuild"}) => p \in {"unlink", "clear"}
    BY DEF Is
  <1> HIDE DEF p
  <1>4. h.todo = todo /\ h.pc = p
    <2>1. Shape(a)
      BY <1>1 DEF Goroutines
    <2> QED
      BY <1>1, <2>1 DEF Shape
  <1>5. TaskOK(h)
    BY <1>3, <1>4 DEF TaskOK, Linking
  <1> QED
    BY <1>2, <1>5, StoredMoves

\* The writes leave the graph alone, and have a document of a known tenant to
\* link.
LEMMA WritesCount ==
    ASSUME Goroutines, KeysInv, NEW i \in DOMAIN handler,
           \/ Create(i) \/ Update(i) \/ Upsert(i) \/ Patch(i) \/ Commit(i) \/ Delete(i)
           \/ RebuildStore(i)
    PROVE  graph' = graph /\ Moves(i) /\ TaskOK(handler'[i])
  <1> DEFINE key == Req(i).key
  <1>1. key[1] \in Tenants
    BY DEF KeysInv, Req, IsDocumentKey
  <1>2. OfTenants(<<key>>) /\ \A e, n : OfTenants(<< <<key[1], e, n>> >>)
                                   /\ OfTenants(<<key, <<key[1], e, n>> >>)
    BY <1>1 DEF OfTenants
  <1>3. ASSUME Done(i), UNCHANGED <<config, db, graph, cache, history>>
        PROVE  graph' = graph /\ Moves(i) /\ TaskOK(handler'[i])
    BY <1>3, DoneMoves DEF TaskOK, Linking
  <1>4. ASSUME NEW w, NEW K, NEW todo, NEW doc, Settle(i, w, K, todo, doc), OfTenants(todo)
        PROVE  graph' = graph /\ Moves(i) /\ TaskOK(handler'[i])
    <2>1. \/ Done(i) /\ UNCHANGED <<config, db, graph, cache, history>>
          \/ Stored(i, w.db, K, todo, doc)
      BY <1>4, Zenon DEF Settle
    <2> QED
      BY <1>3, <1>4, <2>1, StoredTask
  <1>5. CASE Create(i)
    <2>1. \E w, K, doc, n : Settle(i, w, K, << <<key[1], key[2], n>> >>, doc)
      BY <1>5, Zenon DEF Create
    <2> QED
      BY <1>2, <1>4, <2>1, Zenon
  <1>6. CASE Update(i) \/ Upsert(i) \/ Patch(i)
    <2>1. \E w, K, doc : Settle(i, w, K, <<key>>, doc)
      BY <1>6, Zenon DEF Update, Upsert, Patch
    <2> QED
      BY <1>2, <1>4, <2>1, Zenon
  <1>7. CASE Commit(i)
    <2>1. \E w, K, doc, n : Settle(i, w, K, <<key, <<key[1], Req(i).append, n>> >>, doc)
      BY <1>7, Zenon DEF Commit
    <2> QED
      BY <1>2, <1>4, <2>1, Zenon
  <1>8. CASE Delete(i) \/ RebuildStore(i)
    <2>1. Is(i, {"delete", "rebuild"})
      BY <1>8, Zenon DEF Delete, RebuildStore, Is
    <2>2. \/ Done(i) /\ UNCHANGED <<config, db, graph, cache, history>>
          \/ \E d, K, todo, doc : Stored(i, d, K, todo, doc)
      BY <1>8, Zenon DEF Delete, RebuildStore
    <2> QED
      BY <1>3, <2>1, <2>2, StoredTask
  <1> QED
    BY <1>5, <1>6, <1>7, <1>8

\* The reads, checks and invalidations have no part in the graph.
LEMMA ReadersCount ==
    ASSUME Goroutines, CountInv, NEW i \in DOMAIN handler,
           \/ Check(i) \/ Hit(i) \/ Miss(i) \/ Read(i) \/ Count(i) \/ Page(i) \/ Fill(i)
    PROVE  graph' = graph /\ Moves(i) /\ TaskOK(handler'[i])
  <1>1. GivesUp(i) \/ Finds(i) \/ Check(i) \/ Hit(i) \/ Miss(i) \/ Count(i) \/ Page(i) \/ Fill(i)
    BY ReadMoves
  <1>2. Moves(i) /\ handler'[i].pc \in {"done", "store", "read", "page", "fill"}
    BY <1>1, CheckMoves, HitMoves, MissMoves, CountMoves, PageMoves, FillMoves
       DEF GivesUp, Finds, At
  <1> QED
    BY <1>2, ReadersLeave DEF TaskOK, Linking

LEMMA InvalidateCount ==
    ASSUME Goroutines, CountInv, NEW i \in DOMAIN handler, Invalidate(i)
    PROVE  CountInv'
  <1>1. graph' = graph /\ DOMAIN handler' = DOMAIN handler
    BY DEF Invalidate
  <1>2. ASSUME NEW j \in DOMAIN handler
        PROVE  TaskOK(handler'[j])
    <2>1. Shape(handler[j]) /\ TaskOK(handler[j])
      BY DEF Goroutines, CountInv
    <2>2. CASE j = i
      BY <2>2, InvalidateMoves DEF TaskOK, Linking
    <2>3. CASE j # i
      <3>1. PICK o : handler'[j] = [handler[j] EXCEPT !.outrun = o]
        BY <2>3 DEF Invalidate
      <3>2. /\ handler'[j].pc = handler[j].pc /\ handler'[j].todo = handler[j].todo
            /\ handler'[j].new = handler[j].new /\ handler'[j].old = handler[j].old
        BY <2>1, <3>1 DEF Shape
      <3> QED
        BY <2>1, <3>2 DEF TaskOK
    <2> QED
      BY <2>2, <2>3
  <1> QED
    BY <1>1, <1>2 DEF CountInv

LEMMA StartCounted ==
    ASSUME Init
    PROVE  CountInv
  <1>1. PICK g0, E : g0 = newFlatGraph(Tenants, config.cycleDetection, 0) /\ E = startDB.edges
    OBVIOUS
  <1>2. Counted(g0)
    BY <1>1, NewCounted
  <1>3. IsFiniteSet(E) /\ \A x \in E : x.tenant \in Tenants
    BY <1>1, StartEdges DEF EdgesOK
  <1>4. graph = LoadAll(g0, E)
    BY <1>1, Zenon DEF Init, startGraph, LoadAll
  <1>5. Counted(LoadAll(g0, E))
    BY <1>2, <1>3, LoadedCounted
  <1>6. \A j \in DOMAIN handler : handler[j].pc = "arrive"
    BY DEF Init
  <1>7. \A j \in DOMAIN handler : TaskOK(handler[j])
    BY <1>6 DEF TaskOK, Linking
  <1> QED
    BY <1>4, <1>5, <1>7, Zenon DEF CountInv

LEMMA CountInvariant == Spec => []CountInv
  <1>1. Init => CountInv
    BY StartCounted
  <1>2. CountInv /\ KeysInv /\ Goroutines /\ [Next]_vars => CountInv'
    <2> SUFFICES ASSUME CountInv, KeysInv, Goroutines, [Next]_vars PROVE CountInv'
      OBVIOUS
    <2>1. ASSUME NEW i \in DOMAIN handler, Moves(i), Counted(graph'), TaskOK(handler'[i])
          PROVE  CountInv'
      BY <2>1 DEF CountInv, Moves
    <2>2. Counted(graph)
      BY DEF CountInv
    <2>3. ASSUME NEW i \in DOMAIN handler,
                 \/ Create(i) \/ Update(i) \/ Upsert(i) \/ Patch(i) \/ Commit(i) \/ Delete(i)
                 \/ RebuildStore(i)
          PROVE  CountInv'
      BY <2>1, <2>2, <2>3, WritesCount
    <2>4. ASSUME NEW i \in DOMAIN handler,
                 \/ Reget(i) \/ PutNode(i) \/ Look(i) \/ Cut(i) \/ Link(i) \/ removeGraph(i)
                 \/ ClearGraph(i) \/ Scan(i) \/ LoadEdge(i)
          PROVE  CountInv'
      <3>1. Moves(i)
        BY <2>4, GraphCalls DEF GraphCall
      <3>2. Counted(graph') /\ TaskOK(handler'[i])
        BY <2>4, CallsCount
      <3> QED
        BY <2>1, <3>1, <3>2
    <2>5. ASSUME NEW i \in DOMAIN handler,
                 \/ Check(i) \/ Hit(i) \/ Miss(i) \/ Read(i) \/ Count(i) \/ Page(i) \/ Fill(i)
          PROVE  CountInv'
      BY <2>1, <2>2, <2>5, ReadersCount
    <2>6. ASSUME NEW i \in DOMAIN handler, Invalidate(i)
          PROVE  CountInv'
      BY <2>6, InvalidateCount
    <2>7. CASE UNCHANGED <<graph, handler>>
      BY <2>7 DEF CountInv
    <2> QED
      BY <2>3, <2>4, <2>5, <2>6, <2>7 DEF Next, vars, Evict
  <1> QED
    BY <1>1, <1>2, EntitiesTypeCorrect, KeysInvariant, PTL DEF Spec

(* In every state, whatever the requests have in flight, the indexes and   *)
(* the counters of the graph all tenants share are those of a scan: no     *)
(* interleaving of the locked calls of updateGraph, removeGraph and        *)
(* reloadGraphFromStore, and no refused edge or promoted placeholder,      *)
(* leaves a counter off (addNodeLocked, addEdgeLocked, RemoveEdge,         *)
(* RemoveNode, Clear).                                                     *)
THEOREM GraphIsCounted == Spec => []CountersExact
  <1>1. CountInv => CountersExact
    BY CountedScan DEF CountInv, CountersExact
  <1> QED
    BY <1>1, CountInvariant, PTL
=============================================================================
