------------------------------- MODULE Oql -------------------------------
(***************************************************************************)
(* OQL (xolu/pkg/oql): the planner, the two ways a statement finds its     *)
(* rows - SQL generated for SQLite, or a scan filtered in Go - and the     *)
(* pipeline that follows.  Everything here reads; OqlStatements runs the   *)
(* statements that write.                                                  *)
(*                                                                         *)
(* A value is <<"null", 0>>, <<"num", n>> or <<"str", n>>: the n-th of the *)
(* words, none of which is a number.  A row is [key, data, version], its   *)
(* key <<tenant, id>> and its data a function of the fields; a missing     *)
(* field and a JSON null are both Null, as every reader makes them.        *)
(* Conditions and column expressions are records and tuples:               *)
(*   [op: cmp|null|between|in|like|fn|other, field, ...], [op: and|or|not] *)
(*   <<"field", f>>  <<"COUNT", "*">>  <<"SUM", f>>  <<"UPPER", f>> ...    *)
(* A query is [star, cols, where, group, having, order, distinct, top].    *)
(***************************************************************************)
EXTENDS Integers, Sequences, FiniteSets, FiniteSetsExt, SequencesExt

Null == <<"null", 0>>
Nothing == [op |-> "none"]        \* no WHERE, no HAVING
NoTop == [n |-> -1, exact |-> TRUE]

-----------------------------------------------------------------------------
(* Comparing, in Go *)

kindRank(v) == CASE v[1] = "null" -> 0 [] v[1] = "num" -> 1 [] v[1] = "str" -> 2

\* A number against a word compares their spellings: digits come first.
compareValues(a, b) ==
    CASE a = b -> 0
      [] a # b /\ (kindRank(a) < kindRank(b) \/ (a[1] = b[1] /\ a[2] < b[2])) -> -1
      [] OTHER -> 1

compareOrdered(c, op) ==
    CASE op = "=" -> c = 0 [] op = "!=" -> c # 0 [] op = "<" -> c < 0
      [] op = ">" -> c > 0 [] op = "<=" -> c <= 0 [] op = ">=" -> c >= 0

\* The right-hand side of a comparison is a literal or another field.
evalExpr(data, rhs) == IF rhs[1] = "field" THEN data[rhs[2]] ELSE rhs

\* UPPER stands for the functions on strings: word 2 is word 1 in small letters.
scalarUpper(v) == IF v = <<"str", 2>> THEN <<"str", 1>> ELSE v

\* FLOOR stands for those on numbers; it has no SQLite translation.
scalarFloor(v) == IF v[1] = "str" THEN <<"num", 0>> ELSE v

ScalarFunctions == {"UPPER", "FLOOR"}

EvalScalarFunction(name, v) ==
    CASE v = Null -> Null
      [] v # Null /\ name = "UPPER" -> scalarUpper(v)
      [] v # Null /\ name = "FLOOR" -> scalarFloor(v)

Aggregates == {"COUNT", "SUM", "MIN", "MAX"}

IsScalarFunction(e) == e[1] \in ScalarFunctions
isAggregate(e) == e[1] \in Aggregates
hasAggregates(q) == \E i \in DOMAIN q.cols : isAggregate(q.cols[i])
grouped(q) == q.group # << >> \/ hasAggregates(q)

\* A LIKE pattern is the set of values SQL's LIKE matches (words) and the set
\* the executor's own matcher does (plain): it knows % at the two ends only and
\* prints nil, so that "%" matches a missing field.
RECURSIVE evalCondition(_, _)
evalCondition(data, e) ==
    CASE e.op = "and"     -> evalCondition(data, e.l) /\ evalCondition(data, e.r)
      [] e.op = "or"      -> evalCondition(data, e.l) \/ evalCondition(data, e.r)
      [] e.op = "not"     -> ~evalCondition(data, e.x)
      [] e.op = "cmp"     -> compareOrdered(compareValues(data[e.field], evalExpr(data, e.rhs)), e.rel)
      [] e.op = "fn"      -> compareOrdered(compareValues(EvalScalarFunction(e.name, data[e.field]), e.rhs), e.rel)
      [] e.op = "null"    -> (data[e.field] = Null) # e.not
      [] e.op = "between" -> (/\ compareValues(data[e.field], e.lo) >= 0
                              /\ compareValues(data[e.field], e.hi) <= 0) # e.not
      [] e.op = "in"      -> (\E i \in DOMAIN e.vals : data[e.field] = e.vals[i]) # e.not
      [] e.op = "like"    -> (data[e.field] \in e.plain) # e.not
      [] e.op = "none"    -> TRUE
      [] OTHER            -> FALSE

RECURSIVE isGoPathSupported(_)
isGoPathSupported(e) ==
    CASE e.op \in {"and", "or"} -> isGoPathSupported(e.l) /\ isGoPathSupported(e.r)
      [] e.op = "not" -> isGoPathSupported(e.x)
      [] OTHER -> e.op # "other"

-----------------------------------------------------------------------------
(* The predicates evaluated while a document is read (B4) *)

RECURSIVE flattenAND(_)
flattenAND(e) == IF e.op = "and" THEN flattenAND(e.l) \o flattenAND(e.r) ELSE <<e>>

rebuildAND(s) ==
    IF s = << >> THEN Nothing
    ELSE FoldLeft(LAMBDA l, r : [op |-> "and", l |-> l, r |-> r], Head(s), Tail(s))

isLiteral(v) == v[1] \in {"num", "str"}

compileTerm(e) ==
    \/ e.op = "cmp" /\ isLiteral(e.rhs)
    \/ e.op = "in" /\ ~e.not /\ \A i \in DOMAIN e.vals : isLiteral(e.vals[i])
    \/ e.op = "like" /\ ~e.not

CompilePredicates(where) ==
    LET terms == flattenAND(where)
    IN  [preds |-> SelectSeq(terms, compileTerm),
         residual |-> rebuildAND(SelectSeq(terms, LAMBDA t : ~compileTerm(t)))]

\* The type of the literal (of the first one, for IN) decides which JSON
\* values are looked at; null is of no type.
EvalTokenValue(e, v) ==
    CASE e.op = "cmp"  -> v[1] = e.rhs[1] /\ compareOrdered(compareValues(v, e.rhs), e.rel)
      [] e.op = "in"   -> v[1] = e.vals[1][1] /\ \E i \in DOMAIN e.vals : v = e.vals[i]
      [] e.op = "like" -> v[1] = "str" /\ v \in e.words

\* The set is a map from fields to predicates: of two predicates on one field
\* the last is looked up, and the first is never seen, which fails the row.
FilterExtractFromTokens(preds, data) ==
    \A i \in DOMAIN preds : /\ \A j \in DOMAIN preds : j > i => preds[j].field # preds[i].field
                            /\ EvalTokenValue(preds[i], data[preds[i].field])

-----------------------------------------------------------------------------
(* SQL: three truth values, 0 false, 1 unknown, 2 true *)

truth(b) == IF b THEN 2 ELSE 0
castReal(v) == IF v[1] = "str" THEN <<"num", 0>> ELSE v
sqlCompare(x, op, y) == IF Null \in {x, y} THEN 1 ELSE truth(compareOrdered(compareValues(x, y), op))
sqlNot(not, t) == IF not THEN 2 - t ELSE t

chooseFieldExtraction(v, op, lit) ==
    IF op \in {"<", ">", "<=", ">="} \/ lit[1] = "num" THEN castReal(v) ELSE v

\* The word a column's name is: on an adapted table an identifier on the right
\* is bound as a string.
nameOf(f) == <<"str", 9>>
literalValueFromExpr(rhs) == IF rhs[1] = "field" THEN nameOf(rhs[2]) ELSE rhs

\* Whether a row satisfies the SQL generated for e: from json_extract on the
\* "blob" table (translateExpr) or from "native" columns (translateAdaptedWhere).
\* The third dialect, "plain", is SQL's own reading of e, which the properties use.
RECURSIVE sqlTruth(_, _, _)
sqlTruth(dialect, data, e) ==
    LET v == data[e.field]
        ranged == IF dialect = "blob" THEN castReal(v) ELSE v
        right  == IF dialect = "plain" THEN evalExpr(data, e.rhs) ELSE literalValueFromExpr(e.rhs)
    IN  CASE e.op = "none" -> 2
          [] e.op = "and"  -> Min({sqlTruth(dialect, data, e.l), sqlTruth(dialect, data, e.r)})
          [] e.op = "or"   -> Max({sqlTruth(dialect, data, e.l), sqlTruth(dialect, data, e.r)})
          [] e.op = "not"  -> 2 - sqlTruth(dialect, data, e.x)
          [] e.op = "cmp"  -> sqlCompare(IF dialect = "blob" THEN chooseFieldExtraction(v, e.rel, e.rhs) ELSE v,
                                         e.rel, right)
          [] e.op = "fn"   -> sqlCompare(EvalScalarFunction(e.name, v), e.rel, e.rhs)
          [] e.op = "null" -> truth((v = Null) # e.not)
          [] e.op = "between" ->
                sqlNot(e.not, Min({sqlCompare(ranged, ">=", e.lo), sqlCompare(ranged, "<=", e.hi)}))
          [] e.op = "in"   -> sqlNot(e.not, Max({sqlCompare(v, "=", e.vals[i]) : i \in DOMAIN e.vals}))
          [] e.op = "like" -> sqlNot(e.not, IF v = Null THEN 1 ELSE truth(v \in e.words))

translateExpr(data, where) == sqlTruth("blob", data, where)
translateAdaptedWhere(data, where) == sqlTruth("native", data, where)

RECURSIVE isWherePushable(_)
isWherePushable(e) ==
    CASE e.op \in {"and", "or"} -> isWherePushable(e.l) /\ isWherePushable(e.r)
      [] e.op = "not" -> isWherePushable(e.x)
      [] OTHER -> e.op \in {"cmp", "null", "between", "in", "like"}

\* An identifier on the right passes isLiteralOrParam and fails here.
RECURSIVE translates(_)
translates(e) ==
    CASE e.op \in {"and", "or"} -> translates(e.l) /\ translates(e.r)
      [] e.op = "not" -> translates(e.x)
      [] e.op = "cmp" -> e.rhs[1] # "field"
      [] OTHER -> TRUE

-----------------------------------------------------------------------------
(* Records, groups and order *)

getFieldValue(rec, e) == IF e \in DOMAIN rec THEN rec[e] ELSE Null

recordOf(data) == [e \in {<<"field", f>> : f \in DOMAIN data} |-> data[e[2]]]

\* A word counts as 0, in Go and in SQLite.
aggSum(vals) == <<"num", FoldLeft(LAMBDA x, v : x + (IF v[1] = "num" THEN v[2] ELSE 0), 0, vals)>>
aggMin(vals) == CHOOSE v \in ToSet(vals) : \A w \in ToSet(vals) : compareValues(v, w) <= 0
aggMax(vals) == CHOOSE v \in ToSet(vals) : \A w \in ToSet(vals) : compareValues(v, w) >= 0

collectValues(f, recs) ==
    SelectSeq([i \in DOMAIN recs |-> getFieldValue(recs[i], <<"field", f>>)], LAMBDA v : v # Null)

computeAggregate(fn, vals) ==
    CASE fn = "COUNT" -> <<"num", Len(vals)>>
      [] fn # "COUNT" /\ vals = << >> -> Null
      [] fn = "SUM" /\ vals # << >> -> aggSum(vals)
      [] fn = "MIN" /\ vals # << >> -> aggMin(vals)
      [] fn = "MAX" /\ vals # << >> -> aggMax(vals)

aggregate(e, recs) ==
    IF e = <<"COUNT", "*">> THEN <<"num", Len(recs)>> ELSE computeAggregate(e[1], collectValues(e[2], recs))

materializeScalars(recs, q) ==
    LET S == {e \in ToSet(q.cols) \cup ToSet(q.group) : IsScalarFunction(e)}
    IN  [i \in DOMAIN recs |->
            [e \in DOMAIN recs[i] \cup S |->
                IF e \in S THEN EvalScalarFunction(e[1], getFieldValue(recs[i], <<"field", e[2]>>))
                ELSE recs[i][e]]]

buildGroupKey(rec, group) == [i \in DOMAIN group |-> getFieldValue(rec, group[i])]

\* The groups in the order of their first records; one empty group when there
\* is no GROUP BY and no record.
groupsOf(recs, group) ==
    LET key(i)  == buildGroupKey(recs[i], group)
        first   == {i \in DOMAIN recs : \A j \in DOMAIN recs : key(j) = key(i) => i <= j}
        inOrder == SetToSortSeq(first, <)
    IN  IF group = << >> THEN <<recs>>
        ELSE [g \in DOMAIN inOrder |-> SelectSeq(recs, LAMBDA r : buildGroupKey(r, group) = key(inOrder[g]))]

rowOfGroup(recs, cols) ==
    [e \in ToSet(cols) |-> IF isAggregate(e) THEN aggregate(e, recs)
                           ELSE IF recs = << >> THEN Null ELSE getFieldValue(recs[1], e)]

\* HAVING in Go looks a function up among the columns, under its own spelling or
\* under any that contains its name, and lets pass what is not a comparison.
RECURSIVE evalHaving(_, _)
evalHaving(row, h) ==
    LET alike == {e \in DOMAIN row : e[1] = h.on[1]}
    IN  CASE h.op = "and" -> evalHaving(row, h.l) /\ evalHaving(row, h.r)
          [] h.op = "or"  -> evalHaving(row, h.l) \/ evalHaving(row, h.r)
          [] h.op = "cmp" -> LET v == IF h.on \in DOMAIN row THEN row[h.on]
                                      ELSE IF alike # {} THEN row[CHOOSE e \in alike : TRUE] ELSE Null
                             IN  compareOrdered(compareValues(v, h.rhs), h.rel)
          [] OTHER -> TRUE

Aggregate(recs, q) ==
    LET groups == groupsOf(recs, q.group)
    IN  SelectSeq([g \in DOMAIN groups |-> rowOfGroup(groups[g], q.cols)],
                  LAMBDA row : evalHaving(row, q.having))

\* ORDER BY names an expression, or column i by its alias.
orderExpr(q, item) == IF item.by[1] = "alias" THEN q.cols[item.by[2]] ELSE item.by

before(q, x, y, val(_, _)) ==
    \E i \in DOMAIN q.order :
        LET c(k) == compareValues(val(x, orderExpr(q, q.order[k])), val(y, orderExpr(q, q.order[k])))
        IN  /\ \A k \in 1..(i - 1) : c(k) = 0
            /\ IF q.order[i].desc THEN c(i) > 0 ELSE c(i) < 0

stableSort(s, less(_, _)) ==
    LET precedes(j, i) == less(s[j], s[i]) \/ (~less(s[i], s[j]) /\ j < i)
        rank(i) == 1 + Cardinality({j \in DOMAIN s : j # i /\ precedes(j, i)})
    IN  [p \in DOMAIN s |-> s[CHOOSE i \in DOMAIN s : rank(i) = p]]

OrderBy(recs, q) == stableSort(recs, LAMBDA x, y : before(q, x, y, getFieldValue))

\* A star has no expression, so all records have the same key.
buildDistinctKey(rec, q) == IF q.star THEN << >> ELSE [i \in DOMAIN q.cols |-> getFieldValue(rec, q.cols[i])]

keepFirst(s, key(_)) ==
    LET firsts == {i \in DOMAIN s : \A j \in DOMAIN s : key(s[j]) = key(s[i]) => i <= j}
    IN  [p \in 1..Cardinality(firsts) |-> s[SetToSortSeq(firsts, <)[p]]]

distinctRecords(recs, q) == keepFirst(recs, LAMBDA r : buildDistinctKey(r, q))

limit(s, n) == SubSeq(s, 1, Min({n, Len(s)}))

\* Variant: one row too many.
ApplyTopOneMore(recs, top) == IF top.n > 0 THEN limit(recs, top.n + 1) ELSE recs

\* PERCENT and WITH TIES are not looked at, and TOP 0 is no limit.
ApplyTop(recs, top) == IF top.n > 0 THEN limit(recs, top.n) ELSE recs

projectColumns(recs, q) ==
    IF q.star THEN recs
    ELSE [i \in DOMAIN recs |-> [e \in ToSet(q.cols) |-> getFieldValue(recs[i], e)]]

-----------------------------------------------------------------------------
(* What SQLite answers to a whole SELECT over rows with native columns *)

RECURSIVE sqlHaving(_, _)
sqlHaving(recs, h) ==
    CASE h.op = "none" -> 2
      [] h.op = "and"  -> Min({sqlHaving(recs, h.l), sqlHaving(recs, h.r)})
      [] h.op = "or"   -> Max({sqlHaving(recs, h.l), sqlHaving(recs, h.r)})
      [] h.op = "not"  -> 2 - sqlHaving(recs, h.x)
      [] h.op = "cmp"  -> sqlCompare(aggregate(h.on, recs), h.rel, h.rhs)

sqlValue(unit, e) ==
    IF isAggregate(e) THEN aggregate(e, unit) ELSE IF unit = << >> THEN Null ELSE getFieldValue(unit[1], e)

\* A unit is a group of records, or a single record of a query without groups.
sqlUnits(q, recs) == IF grouped(q) THEN groupsOf(recs, q.group) ELSE [i \in DOMAIN recs |-> <<recs[i]>>]

sqlColumns(q, units) ==
    [i \in DOMAIN units |-> IF q.star THEN units[i][1] ELSE [e \in ToSet(q.cols) |-> sqlValue(units[i], e)]]

sqlDistinct(q, out) == IF q.distinct THEN keepFirst(out, LAMBDA r : r) ELSE out

sqlLimit(top, out) == IF top.n >= 0 THEN limit(out, top.n) ELSE out

dataOf(rows) == [i \in DOMAIN rows |-> recordOf(rows[i].data)]

sqlSelect(rows, q, dialect, having, top) ==
    LET recs   == materializeScalars(dataOf(SelectSeq(rows, LAMBDA r : sqlTruth(dialect, r.data, q.where) = 2)), q)
        kept   == SelectSeq(sqlUnits(q, recs), LAMBDA u : sqlHaving(u, having) = 2)
        sorted == stableSort(kept, LAMBDA x, y : before(q, x, y, sqlValue))
    IN  sqlLimit(top, sqlDistinct(q, sqlColumns(q, sorted)))

-----------------------------------------------------------------------------
(* The planner.  env describes the store the statement runs on: its tenant, *)
(* whether the entity has an adapted table and with which columns, the       *)
(* thresholds of the hardware profile and the limits of the engine.          *)

translateScalarExpr(env, e) == e = <<"COUNT", "*">> \/ (e[1] # "FLOOR" /\ e[2] \in env.columns)

RECURSIVE fieldsOf(_)
fieldsOf(e) ==
    CASE e.op \in {"and", "or"} -> fieldsOf(e.l) \cup fieldsOf(e.r)
      [] e.op = "not" -> fieldsOf(e.x)
      [] e.op = "cmp" -> {e.field} \cup (IF e.rhs[1] = "field" THEN {e.rhs[2]} ELSE {})
      [] e.op \in {"fn", "null", "between", "in", "like"} -> {e.field}
      [] OTHER -> {}

RECURSIVE leftFields(_)
leftFields(e) ==
    CASE e.op \in {"and", "or"} -> leftFields(e.l) \cup leftFields(e.r)
      [] e.op = "not" -> leftFields(e.x)
      [] e.op \in {"cmp", "null", "between", "in", "like"} -> {e.field}
      [] OTHER -> {}

isAdaptedWherePushable(env, e) == isWherePushable(e) /\ leftFields(e) \subseteq env.columns

RECURSIVE isAdaptedHavingPushable(_, _)
isAdaptedHavingPushable(env, h) ==
    CASE h.op \in {"and", "or"} -> isAdaptedHavingPushable(env, h.l) /\ isAdaptedHavingPushable(env, h.r)
      [] h.op = "not" -> isAdaptedHavingPushable(env, h.x)
      [] h.op = "cmp" -> translateScalarExpr(env, h.on)

isFullyTranslatable(env, q) ==
    /\ ~q.star
    /\ \A e \in ToSet(q.cols) \cup ToSet(q.group) : translateScalarExpr(env, e)
    /\ q.where = Nothing \/ isAdaptedWherePushable(env, q.where)
    /\ q.having = Nothing \/ isAdaptedHavingPushable(env, q.having)
    /\ \A i \in DOMAIN q.order : q.order[i].by[1] # "alias" /\ translateScalarExpr(env, q.order[i].by)

isOrderByPrefixOfGroupBy(q) ==
    /\ Len(q.order) <= Len(q.group)
    /\ \A i \in DOMAIN q.order : q.order[i].by = q.group[i]

EstimateComplexity(q) ==
    [trees |-> (IF Len(q.group) >= 2 THEN 1 ELSE 0)
               + (IF q.order # << >> /\ q.group # << >> /\ ~isOrderByPrefixOfGroupBy(q) THEN 1 ELSE 0),
     nonCovering |-> /\ q.group # << >>
                     /\ \E e \in ToSet(q.cols) : /\ isAggregate(e) /\ e[1] # "COUNT"
                                                 /\ <<"field", e[2]>> \notin ToSet(q.group)]

Threshold(profile, qc) ==
    Max({0, IF qc.nonCovering THEN profile.nonCovering ELSE 0,
         CASE qc.trees = 0 -> 0 [] qc.trees = 1 -> profile.tree1 [] qc.trees >= 2 -> profile.tree2})

hasScalarFunctions(q) == \E e \in ToSet(q.cols) \cup ToSet(q.group) : IsScalarFunction(e)

isSimpleField(item) == item.by[1] \in {"field", "alias"}

isOrderByPushable(order) == order # << >> /\ \A i \in DOMAIN order : isSimpleField(order[i])

\* ORDER BY and TOP are pushed only behind a WHERE that is.
planBlob(env, q, count) ==
    IF count < env.threshold \/ q.where = Nothing \/ ~isWherePushable(q.where) THEN {}
    ELSE {"WHERE"} \cup (IF isOrderByPushable(q.order) THEN {"ORDER_BY"} ELSE {})
                   \cup (IF q.top # NoTop THEN {"LIMIT"} ELSE {})

\* A query on an adapted table goes whole to SQLite unless it is complex and
\* the table small; then, and when a clause has no translation, its groups
\* still go.  What remains is planned as for a blob entity.
Plan(env, q, count) ==
    LET least == Threshold(env.profile, EstimateComplexity(q))
        full  == isFullyTranslatable(env, q) /\ (least = 0 \/ count >= least)
    IN  CASE env.adapted /\ full -> {"FULL"}
          [] env.adapted /\ ~full /\ grouped(q) /\ ~hasScalarFunctions(q) -> {"AGGREGATE"}
          [] OTHER -> planBlob(env, q, count)

PlanMutation(env, where, count) ==
    IF count >= env.threshold /\ where # Nothing /\ isWherePushable(where) THEN {"WHERE"} ELSE {}

-----------------------------------------------------------------------------
(* Fetching.  rows are the entity's documents of every tenant.  An adapted   *)
(* entity has no row in the blob table.                                      *)

blobTable(env, rows) == IF env.adapted THEN << >> ELSE rows
List(env, rows) == SelectSeq(rows, LAMBDA r : r.key[1] = env.tenant)
CountEntities(env, rows) == Len(List(env, rows))

\* A store of tenant 0 passes no tenant to the SQL.
tenantClause(env, r) == env.tenant # 0 => r.key[1] = env.tenant

extractQueryFields(q) ==
    UNION {{e[2] : e \in ToSet(q.cols) \cup ToSet(q.group)}, fieldsOf(q.where),
           {q.order[i].by[2] : i \in {j \in DOMAIN q.order : q.order[j].by[1] # "alias"}}}

recordsOf(q, rows) ==
    [i \in DOMAIN rows |->
        LET F == DOMAIN rows[i].data \cap (IF q.star THEN DOMAIN rows[i].data ELSE extractQueryFields(q))
        IN  recordOf([f \in F |-> rows[i].data[f]])]

generates(q, plan) == ("WHERE" \in plan => translates(q.where)) /\ ("LIMIT" \in plan => q.top.exact)

\* GenerateSQL and QueryWithFields: an alias is the path of a missing field.
blobQuery(env, q, plan, rows) ==
    LET found  == SelectSeq(blobTable(env, rows),
                            LAMBDA r : /\ tenantClause(env, r)
                                       /\ "WHERE" \in plan => translateExpr(r.data, q.where) = 2)
        value(r, e) == IF e[1] = "field" THEN r.data[e[2]] ELSE Null
        sorted == IF "ORDER_BY" \in plan THEN stableSort(found, LAMBDA x, y : before(q, x, y, value)) ELSE found
    IN  IF "LIMIT" \in plan THEN limit(sorted, q.top.n) ELSE sorted

\* What the engine's own scan leaves.  On an adapted table the store ignores
\* the predicates, and only the residual is evaluated afterwards.
scanWith(env, q, c, mine) ==
    LET b4 == ~q.star /\ q.where # Nothing /\ c.preds # << >>
    IN  [rows |-> IF b4 /\ ~env.adapted THEN SelectSeq(mine, LAMBDA r : FilterExtractFromTokens(c.preds, r.data))
                  ELSE mine,
         residual |-> IF b4 THEN c.residual ELSE q.where]

goScan(env, q, rows) == scanWith(env, q, CompilePredicates(q.where), List(env, rows))

\* Variant: a record with a missing field is never matched.
filterRecordsComplete(rows, where) ==
    SelectSeq(rows, LAMBDA r : evalCondition(r.data, where) /\ \A f \in DOMAIN r.data : r.data[f] # Null)

filterRecords(rows, where) == SelectSeq(rows, LAMBDA r : evalCondition(r.data, where))

adaptedRows(env, rows) == SelectSeq(rows, LAMBDA r : tenantClause(env, r))

GenerateAggregateSQL(env, q) ==
    /\ q.top.exact
    /\ \A e \in ToSet(q.cols) \cup ToSet(q.group) : translateScalarExpr(env, e)
    /\ q.where = Nothing \/ isAdaptedWherePushable(env, q.where)

\* The records of the plan's strategy, and the plan that remains: a failure to
\* generate the blob SQL clears it, a failure of the other two does not.
fetched(plan, recs) == [plan |-> plan, err |-> "", recs |-> recs]

scanned(env, q, plan, scan) ==
    [fetched(plan, recordsOf(q, filterRecords(scan.rows, scan.residual))) EXCEPT
        !.err = IF env.maxScan > 0 /\ Len(scan.rows) > env.maxScan THEN "ErrScanLimit" ELSE ""]

generated(env, q, plan) ==
    CASE "FULL" \in plan -> q.top.exact
      [] "AGGREGATE" \in plan -> GenerateAggregateSQL(env, q)
      [] OTHER -> "WHERE" \in plan /\ generates(q, plan)

executeAggregate(env, q, rows) ==
    SelectSeq(sqlSelect(adaptedRows(env, rows), [q EXCEPT !.distinct = FALSE], "native", Nothing, q.top),
              LAMBDA row : evalHaving(row, q.having))

fetch(env, q, plan, rows) ==
    IF ~generated(env, q, plan)
    THEN scanned(env, q, plan \cap {"FULL", "AGGREGATE"}, goScan(env, q, rows))
    ELSE fetched(plan, CASE "FULL" \in plan -> sqlSelect(adaptedRows(env, rows), q, "native", q.having, q.top)
                         [] "AGGREGATE" \in plan -> executeAggregate(env, q, rows)
                         [] "WHERE" \in plan -> recordsOf(q, blobQuery(env, q, plan, rows)))

\* The steps every strategy shares; a step the plan says was pushed is skipped.
pipeline(q, plan, recs) ==
    LET native == plan \cap {"FULL", "AGGREGATE"} # {}
        scalars(s)  == IF native THEN s ELSE materializeScalars(s, q)
        groups(s)   == IF ~native /\ grouped(q) THEN Aggregate(s, q) ELSE s
        sorts(s)    == IF q.order # << >> /\ plan \cap {"FULL", "ORDER_BY"} = {} THEN OrderBy(s, q) ELSE s
        distinct(s) == IF q.distinct /\ "FULL" \notin plan THEN distinctRecords(s, q) ELSE s
        top(s)      == IF q.top # NoTop /\ plan \cap {"FULL", "LIMIT"} = {} THEN ApplyTop(s, q.top) ELSE s
    IN  top(distinct(sorts(groups(scalars(recs)))))

failed(err) == [err |-> err, rows |-> << >>]

limited(env, q, out) ==
    IF env.maxRows > 0 /\ Len(out) > env.maxRows THEN failed("ErrResultLimit")
    ELSE [err |-> "", rows |-> projectColumns(out, q)]

processed(env, q, f) == IF f.err # "" THEN failed(f.err) ELSE limited(env, q, pipeline(q, f.plan, f.recs))

executePlan(env, rows, q, plan) ==
    IF q.where # Nothing /\ "WHERE" \notin plan /\ ~isGoPathSupported(q.where) THEN failed("unsupported")
    ELSE processed(env, q, fetch(env, q, plan, rows))

executeSelect(env, rows, q) == executePlan(env, rows, q, Plan(env, q, CountEntities(env, rows)))

\* The rows an UPDATE or a DELETE works through: from generateMutationSQL, or,
\* when the WHERE cannot be pushed or translated, from the list of the store.
\* Only a WHERE that was never to be pushed is checked before it is evaluated.
mutationRows(env, where, rows) ==
    LET push == PlanMutation(env, where, CountEntities(env, rows)) # {}
        sql  == push /\ translates(where)
    IN  [err |-> IF ~push /\ ~isGoPathSupported(where) THEN "unsupported" ELSE "",
         pushed |-> sql,
         rows |-> IF sql THEN SelectSeq(blobTable(env, rows), LAMBDA r : /\ tenantClause(env, r)
                                                                         /\ translateExpr(r.data, where) = 2)
                  ELSE filterRecords(List(env, rows), where)]

=============================================================================
