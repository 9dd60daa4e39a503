---------------------------- MODULE EntityStore ----------------------------
(***************************************************************************)
(* SQLiteStore (xolu/pkg/storage/sqlite.go, adapted_crud.go): documents in *)
(* the blob table or, for an entity with an adapted table, in a table of   *)
(* its own; the sequences that number them, the edge table of each tenant  *)
(* and the full-text index.  A database is a value and every method an     *)
(* operator on it: the store has one writer connection and each method is  *)
(* one transaction on it, so it happens as one step of its caller.         *)
(*                                                                         *)
(* A key is <<tenant, entity, id>>.  A document maps its fields to values: *)
(* <<"text", s>>, <<"ref", entity, id>> or <<"null">>.  NoVersion stands   *)
(* for a request without _version.                                         *)
(***************************************************************************)
EXTENDS Naturals, FiniteSets, Sequences, FiniteSetsExt

Null == <<"null">>
NoVersion == 0

NewSQLiteStore == [entities |-> << >>, adapted |-> << >>, sequences |-> << >>,
                   edges |-> {}, fts |-> << >>]

with(f, k, v) == [x \in DOMAIN f \cup {k} |-> IF x = k THEN v ELSE f[x]]
without(f, S) == [x \in DOMAIN f \ S |-> f[x]]

reply(db, err, id) == [db |-> db, err |-> err, id |-> id]

-----------------------------------------------------------------------------
(* Documents and their references *)

ExtractRefs(data) == {f \in DOMAIN data : data[f][1] = "ref"}

\* One edge per REF field, labelled with the field; two fields that name the
\* same target make the document invalid.
DuplicateTarget(data) ==
    \E f, g \in ExtractRefs(data) : f # g /\ <<data[f][2], data[f][3]>> = <<data[g][2], data[g][3]>>

ExtractEntityEdges(k, data) ==
    {[tenant |-> k[1], source |-> <<k[2], k[3]>>, target |-> <<data[f][2], data[f][3]>>, rel |-> f]
        : f \in ExtractRefs(data)}

extractTextContent(data) == {data[f][2] : f \in {x \in DOMAIN data : data[x][1] = "text"}}

\* Columns hold no JSON null: it is a missing field when it is read back.
columns(data) == [f \in {x \in DOMAIN data : data[x] # Null} |-> data[f]]

-----------------------------------------------------------------------------
(* Rows.  reg is the set of entities the store knows an adapted table for. *)

rowsOf(db, reg, k) == IF k[2] \in reg THEN db.adapted ELSE db.entities

putRow(db, reg, k, data, version) ==
    IF k[2] \in reg
    THEN [db EXCEPT !.adapted = with(@, k, [data |-> columns(data), version |-> version])]
    ELSE [db EXCEPT !.entities = with(@, k, [data |-> data, version |-> version])]

Exists(db, reg, k) == k \in DOMAIN rowsOf(db, reg, k)

Get(db, reg, k) == rowsOf(db, reg, k)[k]

List(db, reg, t, e) ==
    LET R == rowsOf(db, reg, <<t, e, 0>>)
    IN  {[key |-> k, row |-> R[k]] : k \in {x \in DOMAIN R : x[1] = t /\ x[2] = e}}

CountEntities(db, reg, t, e) == Cardinality(List(db, reg, t, e))

\* The ids of one page, in the order of the ids.
ListPaged(db, reg, t, e, limit, offset) ==
    LET I == {r.key[3] : r \in List(db, reg, t, e)}
        rank(i) == Cardinality({j \in I : j < i})
    IN  {r \in List(db, reg, t, e) : rank(r.key[3]) >= offset /\ rank(r.key[3]) < offset + limit}

ListEntities(db, t) == {k[2] : k \in {x \in DOMAIN db.entities : x[1] = t}}

\* Search and FullTextSearch read the blob table only.
Search(db, t, e, f, word) ==
    {k \in DOMAIN db.entities : /\ k[1] = t /\ k[2] = e
                                /\ f \in DOMAIN db.entities[k].data
                                /\ db.entities[k].data[f] = <<"text", word>>}

FullTextSearch(db, t, word) ==
    {k \in DOMAIN db.fts \cap DOMAIN db.entities : k[1] = t /\ word \in db.fts[k]}

-----------------------------------------------------------------------------
(* The parts of a write *)

syncGraphEdges(db, k, data) ==
    [db EXCEPT !.edges = {x \in @ : x.tenant # k[1] \/ x.source # <<k[2], k[3]>>}
                         \cup ExtractEntityEdges(k, data)]

indexForFTS(db, k, data) ==
    LET content == extractTextContent(data)
    IN  [db EXCEPT !.fts = IF content = {} THEN without(@, {k}) ELSE with(@, k, content)]

seqOf(db, t, e) == IF <<t, e>> \in DOMAIN db.sequences THEN db.sequences[<<t, e>>] ELSE 0

\* A sequence holds the last number it gave out.
nextID(db, t, e) == seqOf(db, t, e) + 1

takeID(db, t, e) == [db EXCEPT !.sequences = with(@, <<t, e>>, nextID(db, t, e))]

\* Variant: an id above the sequence does not raise it.
bumpSequenceFirst(db, k) ==
    LET s == <<k[1], k[2]>>
    IN  [db EXCEPT !.sequences = with(@, s, IF s \in DOMAIN @ THEN @[s] ELSE k[3] + 1)]

\* INSERT id + 1, or on conflict MAX(next_id, id + 2).
bumpSequence(db, k) ==
    LET s == <<k[1], k[2]>>
    IN  [db EXCEPT !.sequences =
            with(@, s, IF s \in DOMAIN @ THEN Max({@[s], k[3] + 2}) ELSE k[3] + 1)]

indexed(db, k, data) == indexForFTS(syncGraphEdges(db, k, data), k, data)

-----------------------------------------------------------------------------
(* The methods.  A refused write leaves the database as it was. *)

createInner(db, reg, t, e, data) ==
    LET k  == <<t, e, nextID(db, t, e)>>
        d1 == takeID(db, t, e)
    IN  IF Exists(d1, reg, k) THEN reply(db, "insert failed", 0)
        ELSE IF DuplicateTarget(data) THEN reply(db, "ErrDuplicateEdgeTarget", 0)
        ELSE reply(indexed(putRow(d1, reg, k, data, 1), k, data), "", k[3])

\* Variant: the version is not increased.
updateInnerUnversioned(db, reg, k, data, v) ==
    IF ~Exists(db, reg, k) THEN reply(db, "ErrNotFound", 0)
    ELSE IF DuplicateTarget(data) THEN reply(db, "ErrDuplicateEdgeTarget", 0)
    ELSE reply(indexed(putRow(db, reg, k, data, Max({v, Get(db, reg, k).version})), k, data), "", k[3])

\* A versioned update of a missing row is a conflict on an adapted table.
updateInner(db, reg, k, data, v) ==
    CASE ~Exists(db, reg, k) ->
             reply(db, IF v # NoVersion /\ k[2] \in reg THEN "ErrConflict" ELSE "ErrNotFound", 0)
      [] Exists(db, reg, k) /\ v \notin {NoVersion, Get(db, reg, k).version} ->
             reply(db, "ErrConflict", 0)
      [] Exists(db, reg, k) /\ v \in {NoVersion, Get(db, reg, k).version} ->
             IF DuplicateTarget(data) THEN reply(db, "ErrDuplicateEdgeTarget", 0)
             ELSE reply(indexed(putRow(db, reg, k, data, Get(db, reg, k).version + 1), k, data), "", k[3])

\* What a patch makes of the stored document; drop holds the fields whose null
\* is a request to remove them (PatchNullBehavior "delete").
merged(db, reg, k, updates, drop) ==
    LET old == Get(db, reg, k).data
    IN  [f \in (DOMAIN old \cup DOMAIN updates) \ drop |->
            IF f \in DOMAIN updates THEN updates[f] ELSE old[f]]

\* The validation of the caller runs inside the transaction, on the merge.
patchInner(db, reg, k, updates, drop, v, valid) ==
    CASE ~Exists(db, reg, k) -> reply(db, "ErrNotFound", 0)
      [] Exists(db, reg, k) /\ ~valid -> reply(db, "invalid", 0)
      [] Exists(db, reg, k) /\ valid -> updateInner(db, reg, k, merged(db, reg, k, updates, drop), v)

\* Edges go with either end; the documents that hold the references stay.
deleteInner(db, reg, k) ==
    IF ~Exists(db, reg, k) THEN reply(db, "ErrNotFound", 0)
    ELSE LET n == <<k[2], k[3]>>
         IN  reply([db EXCEPT
                !.adapted  = IF k[2] \in reg THEN without(@, {k}) ELSE @,
                !.entities = IF k[2] \in reg THEN @ ELSE without(@, {k}),
                !.edges    = {x \in @ : x.tenant # k[1] \/ n \notin {x.source, x.target}},
                !.fts      = without(@, {k})], "", k[3])

\* Overwriting syncs the edges and leaves the text index alone.
saveInner(db, reg, k, data, v) ==
    IF Exists(db, reg, k)
    THEN LET u == updateInner(db, reg, k, data, v)
         IN  reply([u.db EXCEPT !.fts = db.fts], u.err, u.id)
    ELSE IF DuplicateTarget(data) THEN reply(db, "ErrDuplicateEdgeTarget", 0)
    ELSE reply(indexed(putRow(bumpSequence(db, k), reg, k, data, 1), k, data), "", k[3])

\* id 0 asks for a number of the sequence.
createInTx(db, reg, t, e, id, data) ==
    LET k == <<t, e, id>>
    IN  IF id = 0 THEN createInner(db, reg, t, e, data)
        ELSE IF Exists(db, reg, k) THEN reply(db, "ErrAlreadyExists", 0)
        ELSE IF DuplicateTarget(data) THEN reply(db, "ErrDuplicateEdgeTarget", 0)
        ELSE reply(indexed(putRow(bumpSequence(db, k), reg, k, data, 1), k, data), "", id)

\* One document is saved and one appended, or neither.
commitInner(db, reg, k, data, v, e, id, appended) ==
    LET s == saveInner(db, reg, k, data, v)
        a == createInTx(s.db, reg, k[1], e, id, appended)
    IN  CASE s.err # "" -> reply(db, s.err, 0)
          [] s.err = "" /\ a.err # "" -> reply(db, a.err, 0)
          [] s.err = "" /\ a.err = "" -> a

-----------------------------------------------------------------------------
(* Maintenance of the edge table: both read the blob table only *)

blobEdges(db, t) ==
    UNION {ExtractEntityEdges(k, db.entities[k].data) : k \in {x \in DOMAIN db.entities :
                x[1] = t /\ ~DuplicateTarget(db.entities[x].data)}}

VerifyGraphIntegrity(db, t) ==
    LET actual == {x \in db.edges : x.tenant = t}
    IN  [unexpected |-> actual \ blobEdges(db, t), missing |-> blobEdges(db, t) \ actual]

RebuildGraph(db, t) ==
    [db EXCEPT !.edges = {x \in @ : x.tenant # t} \cup blobEdges(db, t)]

ScanGraphEdges(db, t) == {x \in db.edges : x.tenant = t}
=============================================================================
