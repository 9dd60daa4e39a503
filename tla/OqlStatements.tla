--------------------------- MODULE OqlStatements ---------------------------
(***************************************************************************)
(* The statements of OQL as they run: executeInsert, executeUpdate and     *)
(* executeDelete (xolu/pkg/oql/executor.go) fetch their rows with one read *)
(* and then make one store call per row, so the statements of two requests *)
(* interleave between rows, and a row that fails leaves those before it    *)
(* written.  SELECT does not write: SelectsExact asks every query of       *)
(* Queries of every table the runs start from.                             *)
(***************************************************************************)
EXTENDS Oql

CONSTANTS Workers,         \* requests in flight
          Tenants,         \* tenants that send them
          Envs,            \* stores: see Oql
          Tables,          \* what the entity holds at first: sets of rows
          Statements, Queries,
          Refused,         \* values the schema of the entity rejects
          MaxStatements    \* bound on the statements sent

VARIABLES env, rows, sequence, work, sent

vars == <<env, rows, sequence, work, sent>>

Idle == [phase |-> "idle", stmt |-> Nothing, tenant |-> 0, pushed |-> FALSE,
         pending |-> << >>, matched |-> {}, done |-> {}, err |-> ""]

byKey(k, l) == k[1] < l[1] \/ (k[1] = l[1] /\ k[2] < l[2])

\* The documents in the order SQLite scans them.
documents == LET K == SetToSortSeq(DOMAIN rows, byKey)
           IN  [i \in DOMAIN K |-> [key |-> K[i], data |-> rows[K[i]].data, version |-> rows[K[i]].version]]

storeOf(t) == [env EXCEPT !.tenant = t]

Init ==
    /\ env \in Envs
    /\ \E T \in Tables : rows = [k \in {r.key : r \in T} |->
                                    LET r == CHOOSE x \in T : x.key = k
                                    IN  [data |-> r.data, version |-> r.version]]
    /\ sequence = [t \in Tenants |-> Max({0} \cup {k[2] : k \in DOMAIN rows})]
    /\ work = [w \in Workers |-> Idle]
    /\ sent = 0

-----------------------------------------------------------------------------

\* Validate: a statement that would reach every row is refused.
Validate(s) == s.kind # "insert" => s.where # Nothing

\* schemaValidator.Validate.
validates(data) == \A f \in DOMAIN data : data[f] \notin Refused

\* SET clauses run one after the other on the record: the second sees the
\* first one's result.
assigned(data, sets) ==
    FoldLeft(LAMBDA d, c : [d EXCEPT ![c.col] = evalExpr(d, c.val)], data, sets)

\* The store reads _version as a float64 or an int; QueryWithPlan sets an
\* int64, and the version expected is then 0.
expectVersion(x) == IF x.pushed THEN 0 ELSE Head(x.pending).version

Begin(w, t, s) ==
    /\ work[w].phase = "idle" /\ sent < MaxStatements /\ Validate(s)
    /\ sent' = sent + 1
    /\ work' = [work EXCEPT ![w] = [Idle EXCEPT !.phase = IF s.kind = "insert" THEN "apply" ELSE "fetch",
                                                !.stmt = s, !.tenant = t,
                                                !.pending = IF s.kind = "insert" THEN s.values ELSE << >>]]
    /\ UNCHANGED <<env, rows, sequence>>

\* The count decides where the rows come from; then one query reads them.
\* matched is what the statement should reach, by SQL's reading of WHERE.
Fetch(w) ==
    LET x == work[w]
        m == mutationRows(storeOf(x.tenant), x.stmt.where, documents)
    IN  /\ x.phase = "fetch"
        /\ IF m.err # "" THEN work' = [work EXCEPT ![w].phase = "done", ![w].err = m.err]
           ELSE work' = [work EXCEPT ![w].phase = "apply", ![w].pushed = m.pushed, ![w].pending = m.rows,
                           ![w].matched = {k \in DOMAIN rows : /\ k[1] = x.tenant
                                                               /\ sqlTruth("plain", rows[k].data, x.stmt.where) = 2}]
        /\ UNCHANGED <<env, rows, sequence, sent>>

fail(w, err) == work' = [work EXCEPT ![w].phase = "done", ![w].err = err]
next(w, k)   == work' = [work EXCEPT ![w].pending = Tail(@), ![w].done = @ \cup {k}]
put(k, row)  == rows' = [j \in DOMAIN rows \cup {k} |-> IF j = k THEN row ELSE rows[j]]

Insert(w) ==
    LET x == work[w]
        k == <<x.tenant, sequence[x.tenant] + 1>>
    IN  /\ x.phase = "apply" /\ x.stmt.kind = "insert" /\ x.pending # << >>
        /\ IF validates(Head(x.pending))
           THEN /\ next(w, k) /\ put(k, [data |-> Head(x.pending), version |-> 1])
                /\ sequence' = [sequence EXCEPT ![x.tenant] = @ + 1]
           ELSE fail(w, "validation failed") /\ UNCHANGED <<rows, sequence>>
        /\ UNCHANGED <<env, sent>>

\* Variant: the version is not compared.
storeUpdateUnchecked(k, new, v) == IF k \notin DOMAIN rows THEN "ErrNotFound" ELSE ""

\* store.Update: a stale version is a conflict.  An adapted table does not tell
\* a missing row from one.
storeUpdate(k, new, v) ==
    CASE k \notin DOMAIN rows -> IF env.adapted THEN "ErrConflict" ELSE "ErrNotFound"
      [] k \in DOMAIN rows /\ rows[k].version # v -> "ErrConflict"
      [] k \in DOMAIN rows /\ rows[k].version = v -> ""

Update(w) ==
    LET x   == work[w]
        k   == <<x.tenant, Head(x.pending).key[2]>>
        new == assigned(Head(x.pending).data, x.stmt.sets)
        err == IF ~validates(new) THEN "validation failed" ELSE storeUpdate(k, new, expectVersion(x))
    IN  /\ x.phase = "apply" /\ x.stmt.kind = "update" /\ x.pending # << >>
        /\ IF err = "" THEN next(w, k) /\ put(k, [data |-> new, version |-> rows[k].version + 1])
           ELSE fail(w, err) /\ UNCHANGED rows
        /\ UNCHANGED <<env, sequence, sent>>

Delete(w) ==
    LET x == work[w]
        k == <<x.tenant, Head(x.pending).key[2]>>
    IN  /\ x.phase = "apply" /\ x.stmt.kind = "delete" /\ x.pending # << >>
        /\ IF k \in DOMAIN rows
           THEN next(w, k) /\ rows' = [j \in DOMAIN rows \ {k} |-> rows[j]]
           ELSE fail(w, "ErrNotFound") /\ UNCHANGED rows
        /\ UNCHANGED <<env, sequence, sent>>

\* NewMutationResult.
Finish(w) ==
    /\ work[w].phase = "apply" /\ work[w].pending = << >>
    /\ work' = [work EXCEPT ![w].phase = "done"]
    /\ UNCHANGED <<env, rows, sequence, sent>>

Answer(w) ==
    /\ work[w].phase = "done"
    /\ work' = [work EXCEPT ![w] = Idle]
    /\ UNCHANGED <<env, rows, sequence, sent>>

Next == \E w \in Workers : \/ \E t \in Tenants, s \in Statements : Begin(w, t, s)
                           \/ Fetch(w) \/ Insert(w) \/ Update(w) \/ Delete(w) \/ Finish(w) \/ Answer(w)

Spec == Init /\ [][Next]_vars

-----------------------------------------------------------------------------
(* The queries on which the strategies are known to differ from SQL *)

RECURSIVE leaves(_)
leaves(e) == CASE e.op \in {"and", "or"} -> leaves(e.l) \cup leaves(e.r)
               [] e.op = "not" -> leaves(e.x)
               [] OTHER -> {e}

RECURSIVE havingInGo(_, _)
havingInGo(q, h) == CASE h.op \in {"and", "or"} -> havingInGo(q, h.l) /\ havingInGo(q, h.r)
                      [] h.op = "cmp" -> h.on \in ToSet(q.cols)
                      [] OTHER -> h.op = "none"

gapOf(e, q, mine, plan, L, c) ==
    LET sql  == plan \cap {"FULL", "AGGREGATE"} # {}
        blob == "WHERE" \in plan /\ generates(q, plan)
        go   == ~sql /\ ~blob
        b4   == go /\ ~q.star /\ c # << >>
        cmps == {x \in L : x.op = "cmp"}
    IN  \/ go /\ \E i \in DOMAIN mine : \E f \in fieldsOf(q.where) : mine[i].data[f] = Null
        \/ \E x \in cmps : isLiteral(x.rhs) /\ \E i \in DOMAIN mine : mine[i].data[x.field][1] \notin {"null", x.rhs[1]}
        \/ blob /\ \E x \in L : \/ x.op = "cmp" /\ x.rel \in {"<", "<=", ">", ">="} /\ x.rhs[1] = "str"
                                \/ x.op = "between" /\ x.lo[1] = "str"
        \/ e.adapted /\ (blob \/ b4)
        \/ b4 /\ \E i, j \in DOMAIN c : i # j /\ c[i].field = c[j].field
        \/ sql /\ \E x \in cmps : x.rhs[1] = "field"
        \/ go /\ \E x \in L : x.op = "like" /\ x.plain # x.words
        \/ blob /\ q.top # NoTop /\ (grouped(q) \/ q.distinct \/ (q.order # << >> /\ "ORDER_BY" \notin plan))
        \/ blob /\ \E i \in DOMAIN q.order : q.order[i].by[1] = "alias"
        \/ ~q.top.exact \/ (go /\ q.top.n = 0)
        \/ "FULL" \notin plan /\ ~havingInGo(q, q.having)
        \/ "AGGREGATE" \in plan /\ (~GenerateAggregateSQL(e, q) \/ (q.top # NoTop /\ q.having # Nothing))
        \/ "FULL" \notin plan /\ q.star /\ q.distinct
        \/ ~go /\ e.tenant = 0 /\ Len(mine) # Cardinality(DOMAIN rows)

Gap(e, q) == gapOf(e, q, List(e, documents), Plan(e, q, CountEntities(e, documents)),
                   leaves(q.where), CompilePredicates(q.where).preds)

\* Two answers are the same when they hold the same rows, in the same order of
\* the sort keys; under TOP the choice among equals is free.
sortKeys(q, ans) ==
    [i \in DOMAIN ans |-> [j \in DOMAIN q.order |-> getFieldValue(ans[i], orderExpr(q, q.order[j]))]]

sameRows(x, y) ==
    \A r \in ToSet(x) \cup ToSet(y) :
        Cardinality({i \in DOMAIN x : x[i] = r}) = Cardinality({i \in DOMAIN y : y[i] = r})

same(q, x, y) == /\ sortKeys(q, x) = sortKeys(q, y)
                 /\ IF q.top = NoTop THEN sameRows(x, y) ELSE Len(x) = Len(y)

asked(P(_, _, _)) ==
    sent = 0 => \A t \in Tenants, q \in Queries :
                    LET ans == executeSelect(storeOf(t), documents, q)
                    IN  ans.err = "" => P(t, q, ans.rows)

(* Every SELECT answers what SQL's reading of it answers, whichever way the  *)
(* planner sends it - whole to SQLite, its groups only, its WHERE with or    *)
(* without ORDER BY and TOP, or none of it with half of the WHERE evaluated  *)
(* while the documents are tokenised - outside the listed gaps: the planner, *)
(* the SQL generators, the predicate compiler, the aggregator and the        *)
(* pipeline have to agree on which step has been done.                       *)
SelectsExact ==
    asked(LAMBDA t, q, ans : \/ Gap(storeOf(t), q)
                             \/ same(q, ans, sqlSelect(List(storeOf(t), documents), q, "plain", q.having, q.top)))

atWork(w, kind) == work[w].stmt # Nothing /\ work[w].stmt.kind = kind /\ work[w].pending # << >>

(* An UPDATE writes a row only if it is the row it read and nobody has       *)
(* written it since: between the read and the write of each row the          *)
(* statements of other requests run, and the version carried in the record   *)
(* is all that keeps their changes.                                          *)
NoLostUpdate ==
    [][\A k \in DOMAIN rows \cap DOMAIN rows' :
        rows'[k] # rows[k] =>
            \E w \in Workers : /\ atWork(w, "update") /\ Head(work[w].pending).key = k
                               /\ Head(work[w].pending).version = rows[k].version]_vars

(* A DELETE removes only documents that satisfied its WHERE when it read     *)
(* them: the ids it works through come from a query that names its tenant    *)
(* and are deleted from the store of that tenant.                            *)
DeletesOnlyMatching ==
    [][\A k \in DOMAIN rows \ DOMAIN rows' :
        \E w \in Workers : atWork(w, "delete") /\ Head(work[w].pending).key = k]_vars

(* A statement writes the rows it read, and no others: what it changes or    *)
(* deletes satisfied its WHERE and nobody has written it since it was read.  *)
WritesWhatItRead == NoLostUpdate /\ DeletesOnlyMatching

(* A statement that reports success has written every row of its tenant that *)
(* satisfied its WHERE, wherever the planner read the rows; not on an        *)
(* adapted entity past the threshold, nor where a compared field is missing. *)
SuccessReachesAll ==
    \A w \in Workers :
        LET x == work[w]
        IN  (x.phase = "done" /\ x.err = "" /\ x.stmt.kind # "insert" /\ ~(env.adapted /\ x.pushed)) =>
                x.matched \subseteq x.done
=============================================================================
