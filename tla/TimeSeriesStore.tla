-------------------------- MODULE TimeSeriesStore --------------------------
(***************************************************************************)
(* One tenant's timeseries store over its life (xolu/pkg/timeseries: store,*)
(* registry, manager, retention worker): appends that write the event, then*)
(* count it, then record the first write; a retention worker that deletes  *)
(* expired events in batches under a deadline; and the process, which may  *)
(* close the store, or crash and find only what was on disk.  Times are in *)
(* days.                                                                   *)
(***************************************************************************)
EXTENDS TimeSeries

CONSTANTS
    Timelines,       \* timeline IDs callers use; 0 is reserved
    Dims,            \* dimension counts callers declare
    RetentionDays,   \* retention settings callers use; 0 is the default
    Batches,         \* what the appends carry: sequences of [tid, dims, time, nums]
    Writers,         \* goroutines that append
    purgeBatchSize,
    MaxWrites, MaxConfigs, MaxFaults   \* bounds on appends, configurations, faults

VARIABLES
    reg, defaultRetention,   \* the registry in memory
    regFile,                 \* registry.json
    known, open,             \* the tenant has a directory; its store is open
    events,                  \* the Pebble database
    counters,                \* event counters in memory
    meta,                    \* meta.json
    writing,                 \* writer -> events it has stored and not counted yet
    purge,                   \* the sweep of the retention worker
    now,
    writes, configs, faults, \* what the bounds count
    stored, horizon, crashed \* history: keys ever stored; the latest cutoff that
                             \* was ever in force; the counters were lost

config == <<reg, defaultRetention, regFile>>
history == <<stored, horizon, crashed>>
vars == <<reg, defaultRetention, regFile, known, open, events, counters, meta, writing, purge,
          now, writes, configs, faults, stored, horizon, crashed>>

idlePurge == [pc |-> "idle", ids |-> {}, id |-> 0, keys |-> << >>, deleted |-> 0]
noTimelines == [exists |-> FALSE, reg |-> << >>, defaultRetention |-> 0]

Init ==
    /\ reg = << >> /\ defaultRetention = 0 /\ regFile = noTimelines
    /\ known = FALSE /\ open = FALSE
    /\ events = << >> /\ counters = [t \in Timelines |-> 0] /\ meta = [t \in Timelines |-> 0]
    /\ writing = [w \in Writers |-> << >>] /\ purge = idlePurge
    /\ now = 0 /\ writes = 0 /\ configs = 0 /\ faults = 0
    /\ stored = {} /\ horizon = [t \in Timelines |-> 0] /\ crashed = FALSE

with(f, k, v) == [x \in DOMAIN f \cup {k} |-> IF x = k THEN v ELSE f[x]]

-----------------------------------------------------------------------------
(* The manager: a request opens the store of a tenant that has a directory *)

\* The handlers answer 404 until the tenant is provisioned, and find the store open.
tsStore == known /\ open

\* On the first open the configured default retention is taken over.
Provision(days) ==
    /\ ~known
    /\ known' = TRUE /\ open' = TRUE
    /\ defaultRetention' = days
    /\ UNCHANGED <<reg, regFile, events, counters, meta, writing, purge, now, writes, configs,
                   faults, stored, crashed>>

\* A later open finds registry.json, or takes the configured default again.
StoreFor(days) ==
    /\ known /\ ~open
    /\ open' = TRUE
    /\ reg' = regFile.reg
    /\ defaultRetention' = IF regFile.exists THEN regFile.defaultRetention ELSE days
    /\ counters' = meta
    /\ UNCHANGED <<regFile, known, events, meta, writing, purge, now, writes, configs, faults,
                   stored, crashed>>

Close ==
    /\ open /\ purge.pc = "idle" /\ \A w \in Writers : writing[w] = << >>
    /\ faults < MaxFaults /\ faults' = faults + 1
    /\ open' = FALSE /\ meta' = counters
    /\ UNCHANGED <<reg, defaultRetention, regFile, known, events, counters, writing, purge, now,
                   writes, configs, stored, crashed>>

Crash ==
    /\ open /\ faults < MaxFaults /\ faults' = faults + 1
    /\ open' = FALSE /\ crashed' = TRUE
    /\ writing' = [w \in Writers |-> << >>] /\ purge' = idlePurge
    /\ UNCHANGED <<reg, defaultRetention, regFile, known, events, counters, meta, now, writes,
                   configs, stored>>

-----------------------------------------------------------------------------
(* The registry.  Every change is saved before it returns. *)

Save(r, d) ==
    /\ reg' = r /\ defaultRetention' = d
    /\ regFile' = [exists |-> TRUE, reg |-> r, defaultRetention |-> d]

Configuring ==
    /\ tsStore /\ configs < MaxConfigs /\ configs' = configs + 1
    /\ UNCHANGED <<known, open, events, counters, meta, writing, purge, now, writes, faults,
                   stored, crashed>>

\* Defining an existing timeline again keeps its dimensions, whatever it says.
define(t, n, days) ==
    /\ Configuring
    /\ t # 0
    /\ IF t \notin DOMAIN reg
       THEN Save(with(reg, t, [dims |-> n, days |-> days, written |-> FALSE]), defaultRetention)
       ELSE /\ ~(reg[t].written /\ reg[t].dims # n)
            /\ Save([reg EXCEPT ![t].days = days], defaultRetention)

update(t, days) ==
    /\ Configuring
    /\ t \in DOMAIN reg
    /\ Save([reg EXCEPT ![t].days = days], defaultRetention)

setDefaultRetention(days) == Configuring /\ Save(reg, days)

recordFirstWrite(t) ==
    IF reg[t].written THEN UNCHANGED config
    ELSE Save([reg EXCEPT ![t].written = TRUE], defaultRetention)

\* Variant: a timeline without a retention of its own keeps its events for ever.
effectiveRetentionOwn(r, d, t) == IF t \in DOMAIN r THEN r[t].days ELSE d

effectiveRetention(r, d, t) == IF t \notin DOMAIN r \/ r[t].days = 0 THEN d ELSE r[t].days

-----------------------------------------------------------------------------
(* Append and AppendBatch *)

validateEvent(e) ==
    /\ e.tid # 0 /\ Len(e.nums) <= MaxNums
    /\ e.tid \in DOMAIN reg /\ Len(e.dims) = reg[e.tid].dims

keyOf(e) == EncodeKey(e.tid, e.dims, e.time)

\* All the events of a batch are written in one Pebble commit, or none.
AppendBatch(w, batch) ==
    /\ tsStore /\ writing[w] = << >> /\ writes < MaxWrites
    /\ batch # << >>
    /\ \A i \in DOMAIN batch : validateEvent(batch[i])
    /\ events' = FoldLeft(LAMBDA d, e : with(d, keyOf(e), e.nums), events, batch)
    /\ stored' = stored \cup {keyOf(batch[i]) : i \in DOMAIN batch}
    /\ writing' = [writing EXCEPT ![w] = batch]
    /\ writes' = writes + 1
    /\ UNCHANGED <<config, known, open, counters, meta, purge, now, configs, faults, crashed>>

HandleTSAppend(w, e) == AppendBatch(w, <<e>>)

HandleTSBatchAppend(w, batch) == Len(batch) <= tsQueryLimits.maxBatchSize /\ AppendBatch(w, batch)

CountDistinct(w) ==
    /\ open /\ writing[w] # << >>
    /\ LET t == Head(writing[w]).tid IN
         /\ counters' = [counters EXCEPT ![t] = IF reg[t].written THEN @ ELSE @ + 1]
         /\ recordFirstWrite(t)
    /\ writing' = [writing EXCEPT ![w] = Tail(@)]
    /\ UNCHANGED <<known, open, events, meta, purge, now, writes, configs, faults, stored, crashed>>

\* Then each is counted, an overwritten event again.
Count(w) ==
    /\ open /\ writing[w] # << >>
    /\ LET t == Head(writing[w]).tid IN
         /\ counters' = [counters EXCEPT ![t] = @ + 1]
         /\ recordFirstWrite(t)
    /\ writing' = [writing EXCEPT ![w] = Tail(@)]
    /\ UNCHANGED <<known, open, events, meta, purge, now, writes, configs, faults, stored, crashed>>

-----------------------------------------------------------------------------
(* The retention worker *)

purgeFrame == UNCHANGED <<config, known, open, meta, writing, now, writes, configs, stored, crashed>>

sweep ==
    /\ open /\ purge.pc = "idle"
    /\ purge' = [idlePurge EXCEPT !.pc = "next", !.ids = DOMAIN reg]
    /\ UNCHANGED <<events, counters, faults>> /\ purgeFrame

\* Variant: the day of the cutoff goes too.
expiredKeysInclusive(t, days) == {k \in DOMAIN events : k.tid = t /\ k.time <= now - days}

expiredKeys(t, days) == {k \in DOMAIN events : k.tid = t /\ k.time < now - days}

\* The cutoff and the iterator are taken here; later writes are not seen.
purgeTimeline ==
    /\ purge.pc = "next" /\ purge.ids # {}
    /\ \E t \in purge.ids :
         LET days == effectiveRetention(reg, defaultRetention, t)
         IN  purge' = IF days <= 0 THEN [purge EXCEPT !.ids = @ \ {t}]
                      ELSE [pc |-> "delete", ids |-> purge.ids \ {t}, id |-> t,
                            keys |-> SetToSortSeq(expiredKeys(t, days), before), deleted |-> 0]
    /\ UNCHANGED <<events, counters, faults>> /\ purgeFrame

flush ==
    LET n == IF Len(purge.keys) < purgeBatchSize THEN Len(purge.keys) ELSE purgeBatchSize
        batch == {purge.keys[i] : i \in 1..n}
    IN  /\ purge.pc = "delete" /\ purge.keys # << >>
        /\ events' = [k \in DOMAIN events \ batch |-> events[k]]
        /\ purge' = [purge EXCEPT !.keys = SubSeq(@, n + 1, Len(@)), !.deleted = @ + n]
        /\ UNCHANGED <<counters, faults>> /\ purgeFrame

purged ==
    /\ purge.pc = "delete" /\ purge.keys = << >>
    /\ counters' = [counters EXCEPT ![purge.id] = @ - purge.deleted]
    /\ purge' = [purge EXCEPT !.pc = "next"]
    /\ UNCHANGED <<events, faults>> /\ purgeFrame

sweepEnds ==
    /\ purge.pc = "next" /\ purge.ids = {}
    /\ purge' = idlePurge
    /\ UNCHANGED <<events, counters, faults>> /\ purgeFrame

\* The deadline of the sweep: what is deleted stays deleted and is not counted.
deadline ==
    /\ purge.pc \in {"next", "delete"} /\ faults < MaxFaults /\ faults' = faults + 1
    /\ purge' = idlePurge
    /\ UNCHANGED <<events, counters>> /\ purgeFrame

Tick ==
    /\ now < MaxTime /\ now' = now + 1
    /\ UNCHANGED <<config, known, open, events, counters, meta, writing, purge, writes, configs,
                   faults, stored, crashed>>

-----------------------------------------------------------------------------
\* The retention in force, as the registry states it: history and properties.
Declared(r, d, t) == IF t \in DOMAIN r /\ r[t].days > 0 THEN r[t].days ELSE d
Cutoff(r, d, t, time) == IF Declared(r, d, t) > 0 THEN time - Declared(r, d, t) ELSE 0

Observed == horizon' = [t \in Timelines |->
    IF Cutoff(reg', defaultRetention', t, now') > horizon[t] THEN Cutoff(reg', defaultRetention', t, now') ELSE horizon[t]]

Purging == sweep \/ purgeTimeline \/ flush \/ purged \/ sweepEnds

Next ==
    /\ \/ \E days \in RetentionDays : Provision(days) \/ StoreFor(days) \/ setDefaultRetention(days)
       \/ Close \/ Crash
       \/ \E t \in Timelines, n \in Dims, days \in RetentionDays : define(t, n, days)
       \/ \E t \in Timelines, days \in RetentionDays : update(t, days)
       \/ \E w \in Writers, b \in Batches : HandleTSBatchAppend(w, b) \/ HandleTSAppend(w, b[1])
       \/ \E w \in Writers : Count(w)
       \/ sweep \/ purgeTimeline \/ flush \/ purged \/ sweepEnds \/ deadline
       \/ Tick
    /\ Observed

Fairness == WF_vars(Purging /\ Observed)

Spec == Init /\ [][Next]_vars /\ Fairness

-----------------------------------------------------------------------------
KeysOf(t) == {k \in DOMAIN events : k.tid = t}

(* An event that was stored is lost only once it was older than a retention*)
(* that was in force: not by a crash, by an overlapping append of the same *)
(* key, by a change of the retention during a sweep, or by a sweep that    *)
(* its deadline cuts between two batches.                                  *)
StoredUntilExpired == \A k \in stored \ DOMAIN events : k.time < horizon[k.tid]

(* Between appends the counters never fall below the number of stored      *)
(* events, until a crash loses what was counted since the last Close.      *)
CountersCover ==
    (open /\ ~crashed /\ \A w \in Writers : writing[w] = << >>) =>
        \A t \in Timelines : Cardinality(KeysOf(t)) <= counters[t]

(* Every key was written with as many dimensions as its timeline declares, *)
(* so that every scan can decode it; a timeline with events is defined.    *)
KeysMatchDims ==
    open => \A k \in DOMAIN events : k.tid \in DOMAIN reg /\ Len(k.dims) = reg[k.tid].dims

(* While the store stays open, an expired event is deleted in the end:     *)
(* sweeps recur, and each deletes at least what it found when it started.  *)
Expired(k) == k \in DOMAIN events /\ k.time < Cutoff(reg, defaultRetention, k.tid, now)
EventuallyPurged == \A t \in Timelines :
    (open /\ \E k \in KeysOf(t) : Expired(k)) ~> (~open \/ ~\E k \in KeysOf(t) : Expired(k))

-----------------------------------------------------------------------------
(* Reference definitions of the queries *)

Matching(q) ==
    {k \in KeysOf(q.tid) : /\ k.time \in q.from..q.to
                           /\ \A i \in DOMAIN q.dims : k.dims[i] = q.dims[i]}

Having(S, f) == {k \in S : Len(events[k]) >= f}
ValuesOf(S, f) == {events[k][f] : k \in S}
SumOf(S, f) == FoldSet(LAMBDA k, s : s + events[k][f], 0, S)
Least(V) == CHOOSE v \in V : \A w \in V : v <= w
Greatest(V) == CHOOSE v \in V : \A w \in V : v >= w

DimPrefixes(t) == UNION {[1..n -> 0..MaxDim] : n \in 1..reg[t].dims}

\* Ranges that leave out what is too early, too late, both or nothing.
Selections(t) ==
    {[tid |-> t, dims |-> d, from |-> a, to |-> b, maxScan |-> 0, maxBuckets |-> 0]
        : d \in DimPrefixes(t), a \in 0..1, b \in 1..2}

RangeQueries(t) ==
    {q @@ [limit |-> l, order |-> o] : q \in Selections(t), l \in 1..2, o \in {"asc", "desc"}}

Aggregations(t) ==
    {q @@ [field |-> f, fn |-> fn, interval |-> i]
        : q \in Selections(t), f \in Fields, fn \in {"sum", "avg", "min", "max", "count"}, i \in {0, 2}}

RangeExact(t, q) ==
    LET r == HandleTSQueryRange(events, reg[t].dims, q).events
        M == Matching(q)
        better(x, y) == IF q.order = "asc" THEN before(x, y) ELSE before(y, x)
    IN  /\ ToSet(r) \subseteq M
        /\ Len(r) = IF Cardinality(M) < q.limit THEN Cardinality(M) ELSE q.limit
        /\ \A i \in DOMAIN r : \A k \in M \ ToSet(r) : better(r[i], k)
        /\ \A i, j \in DOMAIN r : i < j => better(r[i], r[j])

\* What the aggregate of the events S is.
ValueOf(q, S) ==
    CASE S = {} -> 0
      [] S # {} /\ q.fn = "count" -> Cardinality(S)
      [] S # {} /\ q.fn = "sum" -> SumOf(S, q.field)
      [] S # {} /\ q.fn = "avg" -> <<SumOf(S, q.field), Cardinality(S)>>
      [] S # {} /\ q.fn = "min" -> Least(ValuesOf(S, q.field))
      [] S # {} /\ q.fn = "max" -> Greatest(ValuesOf(S, q.field))

BucketsExact(t, q) ==
    LET M == IF q.fn = "count" THEN Matching(q) ELSE Having(Matching(q), q.field)
        A == HandleTSAggregate(events, reg[t].dims, q).buckets
        bucket(k) == IF q.interval = 0 THEN q.from ELSE q.interval * (k.time \div q.interval)
        starts == IF q.interval = 0 THEN {q.from} ELSE {bucket(k) : k \in M}
    IN  /\ {A[i].time : i \in DOMAIN A} = starts /\ Len(A) = Cardinality(starts)
        /\ \A i \in DOMAIN A :
              LET S == {k \in M : bucket(k) = A[i].time}
              IN  A[i].value = ValueOf(q, S) /\ A[i].count = Cardinality(S)

\* RangeSum, RangeMin, RangeMax and RangeQuantile, and the total of
\* RangeAggregate; RangeCount and RangeAvg are another matter (see below).
TotalsExact(t, q) ==
    LET R == RangeAggregate(events, reg[t].dims, q)
        byKey(S) == SetToSortSeq(S, before)
    IN  /\ R.count = Cardinality(Matching(q))
        /\ \A f \in Fields :
              LET M == Having(Matching(q), f)
                  qf == q @@ [field |-> f]
              IN  /\ R.fields[f] = (M # {})
                  /\ RangeSum(events, reg[t].dims, qf) = SumOf(M, f)
                  /\ M # {} => /\ RangeMin(events, reg[t].dims, qf) = Least(ValuesOf(M, f))
                               /\ RangeMax(events, reg[t].dims, qf) = Greatest(ValuesOf(M, f))
                  /\ RangeQuantile(events, reg[t].dims, qf) =
                        [i \in DOMAIN byKey(M) |-> events[byKey(M)[i]][f]]

\* Evaluated while nothing runs and on the last day: the queries read only the
\* registry and the events, and the days go by without changing these.
Quiet == open /\ purge.pc = "idle" /\ now = MaxTime /\ \A w \in Writers : writing[w] = << >>

(* On every store that can be reached, QueryRange returns the matching     *)
(* events of a dimension prefix and a time range in key order, up to the   *)
(* limit; Aggregate's buckets, and the totals, are those of exactly the    *)
(* matching events that have the field, or of all of them for a count      *)
(* (store.go, ts_handlers.go).                                             *)
QueriesExact ==
    Quiet => \A t \in DOMAIN reg :
        /\ \A q \in RangeQueries(t) : RangeExact(t, q)
        /\ \A q \in Aggregations(t) : BucketsExact(t, q)
        /\ \A q \in Selections(t) : TotalsExact(t, q)

(* What store.go says of RangeCount, "counts events carrying the specific  *)
(* field, not total events", and of RangeAvg, "the average of num field".  *)
FieldCountsExact ==
    Quiet => \A t \in DOMAIN reg : \A q \in Selections(t) : \A f \in Fields :
        LET M == Having(Matching(q), f)
            qf == q @@ [field |-> f]
        IN  /\ RangeCount(events, reg[t].dims, qf) = Cardinality(M)
            /\ M # {} => RangeAvg(events, reg[t].dims, qf) = <<SumOf(M, f), Cardinality(M)>>

(* What types.go says of LatestQuery: "the N most recent events matching a *)
(* dimension prefix".                                                      *)
LatestAreNewest ==
    open => \A t \in DOMAIN reg : \A q \in RangeQueries(t) :
        LET r == HandleTSLatest(events, reg[t].dims, [q EXCEPT !.from = 0, !.to = 0])
        IN  \A i \in DOMAIN r, k \in Matching([q EXCEPT !.from = 0, !.to = MaxTime]) \ ToSet(r) :
                k.time <= r[i].time
=============================================================================
