----------------------------- MODULE TimeSeries -----------------------------
(***************************************************************************)
(* The queries of the timeseries store (xolu/pkg/timeseries/store.go,      *)
(* codec.go) on the ordered keys of one Pebble database.  A key is         *)
(* [tid, dims, time]; EncodeKey lays it out big-endian, so keys are ordered*)
(* by timeline, then by each dimension, then by time.  A database maps keys*)
(* to their numeric fields; payloads are left out.  An average is the pair *)
(* <<sum, count>>.  MaxDim and MaxTime stand for the largest uint64.      *)
(***************************************************************************)
EXTENDS Integers, FiniteSets, Sequences, SequencesExt

CONSTANTS MaxDim, MaxTime, MaxNums,
          Config          \* the configured query limits; 0 asks for the default

EncodeKey(tid, dims, time) == [tid |-> tid, dims |-> dims, time |-> time]

flat(k) == <<k.tid>> \o k.dims \o <<k.time>>

\* Byte order of two encoded keys of the same timeline.
before(a, b) ==
    LET x == flat(a)  y == flat(b)
    IN  \E i \in 1..Len(x) : x[i] < y[i] /\ \A j \in 1..(i - 1) : x[j] = y[j]

padDims(dims, n, fill) == [i \in 1..n |-> IF i <= Len(dims) THEN dims[i] ELSE fill]

\* The iterator between two keys, both included (the end is incremented).
iter(db, lo, hi) ==
    SetToSortSeq({k \in DOMAIN db : k.tid = lo.tid /\ ~before(k, lo) /\ ~before(hi, k)}, before)

span(db, n, q) ==
    iter(db, EncodeKey(q.tid, padDims(q.dims, n, 0), q.from),
             EncodeKey(q.tid, padDims(q.dims, n, MaxDim), q.to))

\* A full prefix needs no look at the time: the key bounds are exact.
skipped(n, q, k) == Len(q.dims) < n /\ (k.time < q.from \/ k.time > q.to)

badDims(n, q) == Len(q.dims) < 1 \/ Len(q.dims) > n

-----------------------------------------------------------------------------
\* The loop stops at the limit, and fails when it has looked at more than
\* MaxScanEvents keys, the skipped ones included.
QueryRange(db, n, q) ==
    LET keys == IF q.order = "desc" THEN Reverse(span(db, n, q)) ELSE span(db, n, q)
        step(s, k) ==
            CASE s.err # "" \/ Len(s.events) >= q.limit -> s
              [] s.err = "" /\ Len(s.events) < q.limit
                   /\ q.maxScan > 0 /\ s.scanned + 1 > q.maxScan ->
                     [s EXCEPT !.err = "ErrScanLimitExceeded", !.events = << >>]
              [] OTHER -> [s EXCEPT !.scanned = @ + 1,
                                    !.events = IF skipped(n, q, k) THEN @ ELSE Append(@, k)]
        end == FoldLeft(step, [events |-> << >>, scanned |-> 0, err |-> ""], keys)
    IN  IF badDims(n, q) THEN [events |-> << >>, err |-> "OLU-TS007"]
        ELSE IF q.limit > 10000 THEN [events |-> << >>, err |-> "OLU-TS012"]
        ELSE [events |-> end.events, err |-> end.err]

\* From the last key backwards; From and To are 0 when absent.
Latest(db, n, q) ==
    LET all == Reverse(iter(db, EncodeKey(q.tid, padDims(q.dims, n, 0), 0),
                       EncodeKey(q.tid, padDims(q.dims, n, MaxDim), MaxTime)))
        within(k) == (q.from = 0 \/ k.time >= q.from) /\ (q.to = 0 \/ k.time <= q.to)
        fits == SelectSeq(all, within)
    IN  IF badDims(n, q) \/ (q.from > q.to /\ q.to # 0) THEN << >>
        ELSE SubSeq(fits, 1, IF q.limit < Len(fits) THEN q.limit ELSE Len(fits))

-----------------------------------------------------------------------------
Fields == 1..MaxNums

emptyStats == [count |-> 0, sum |-> 0, min |-> 0, max |-> 0]

add(s, v) == [count |-> s.count + 1, sum |-> s.sum + v,
              min |-> IF s.count = 0 \/ v < s.min THEN v ELSE s.min,
              max |-> IF s.count = 0 \/ v > s.max THEN v ELSE s.max]

bucketStart(q, t) == IF q.interval <= 0 THEN 0 ELSE t - (t % q.interval)

\* Buckets appear in the order in which the scan meets them.
Aggregate(db, n, q) ==
    LET step(s, k) ==
            LET b == bucketStart(q, k.time)
                v == IF q.fn = "count" THEN 0 ELSE db[k][q.field]
                new == b \notin DOMAIN s.buckets
            IN  CASE s.err # "" -> s
                  [] s.err = "" /\ q.maxScan > 0 /\ s.scanned + 1 > q.maxScan ->
                        [s EXCEPT !.err = "ErrScanLimitExceeded"]
                  [] OTHER ->
                        IF skipped(n, q, k) \/ (q.fn # "count" /\ q.field > Len(db[k]))
                        THEN [s EXCEPT !.scanned = @ + 1]
                        ELSE IF new /\ q.maxBuckets > 0 /\ Len(s.order) + 1 > q.maxBuckets
                        THEN [s EXCEPT !.err = "ErrBucketLimitExceeded"]
                        ELSE [s EXCEPT
                                !.scanned = @ + 1,
                                !.order = IF new THEN Append(@, b) ELSE @,
                                !.buckets = [x \in DOMAIN @ \cup {b} |->
                                    IF x # b THEN @[x] ELSE add(IF new THEN emptyStats ELSE @[b], v)]]
        end == FoldLeft(step, [buckets |-> << >>, order |-> << >>, scanned |-> 0, err |-> ""],
                        span(db, n, q))
        value(s) == CASE q.fn = "avg" -> <<s.sum, s.count>>
                      [] q.fn = "sum" -> s.sum
                      [] q.fn = "min" -> s.min
                      [] q.fn = "max" -> s.max
                      [] q.fn = "count" -> s.count
    IN  IF badDims(n, q) THEN [err |-> "OLU-TS007", buckets |-> << >>]
        ELSE IF end.err # "" THEN [err |-> end.err, buckets |-> << >>]
        ELSE [err |-> "",
              buckets |-> [i \in DOMAIN end.order |->
                [time  |-> IF q.interval <= 0 THEN q.from ELSE end.order[i],
                 value |-> value(end.buckets[end.order[i]]),
                 count |-> end.buckets[end.order[i]].count]]]

\* One pass over all fields.  The averages divide by the number of events,
\* with the field or without it; a scan that is cut short returns what it has.
RangeAggregate(db, n, q) ==
    LET step(s, k) ==
            CASE s.err # "" -> s
              [] s.err = "" /\ q.maxScan > 0 /\ s.scanned + 1 > q.maxScan ->
                    [s EXCEPT !.err = "ErrScanLimitExceeded"]
              [] OTHER ->
                    IF skipped(n, q, k) THEN [s EXCEPT !.scanned = @ + 1]
                    ELSE [s EXCEPT !.scanned = @ + 1, !.count = @ + 1,
                                   !.stats = [i \in Fields |->
                                        IF i <= Len(db[k]) THEN add(@[i], db[k][i]) ELSE @[i]]]
        end == FoldLeft(step, [count |-> 0, scanned |-> 0, err |-> "", stats |-> [i \in Fields |-> emptyStats]],
                        span(db, n, q))
    IN  [err   |-> IF badDims(n, q) THEN "OLU-TS007" ELSE end.err,
         count |-> end.count,
         fields |-> [i \in Fields |-> end.stats[i].count > 0],
         sums  |-> [i \in Fields |-> end.stats[i].sum],
         avgs  |-> [i \in Fields |-> IF end.stats[i].count > 0 THEN <<end.stats[i].sum, end.count>> ELSE <<0, 0>>],
         mins  |-> [i \in Fields |-> end.stats[i].min],
         maxs  |-> [i \in Fields |-> end.stats[i].max]]

RangeSum(db, n, q)   == RangeAggregate(db, n, q).sums[q.field]
RangeAvg(db, n, q)   == RangeAggregate(db, n, q).avgs[q.field]
RangeMin(db, n, q)   == RangeAggregate(db, n, q).mins[q.field]
RangeMax(db, n, q)   == RangeAggregate(db, n, q).maxs[q.field]
RangeCount(db, n, q) == LET r == RangeAggregate(db, n, q)
                        IN  IF r.fields[q.field] THEN r.count ELSE 0

\* The values the t-digest of a quantile is made from, in scan order.
RangeQuantile(db, n, q) ==
    LET keys == SelectSeq(span(db, n, q), LAMBDA k : ~skipped(n, q, k) /\ q.field <= Len(db[k]))
    IN  [i \in DOMAIN keys |-> db[keys[i]][q.field]]

RangeFullAggregate(db, n, q, wanted) ==
    [aggregate |-> RangeAggregate(db, n, q),
     digests |-> [i \in Fields |-> IF i \in wanted THEN RangeQuantile(db, n, [q EXCEPT !.field = i]) ELSE << >>]]

\* The first and the last key, by key order.
TimelineStats(db, tid, n, counters) ==
    LET all == iter(db, EncodeKey(tid, padDims(<< >>, n, 0), 0),
                    EncodeKey(tid, padDims(<< >>, n, MaxDim), MaxTime))
    IN  [total |-> IF counters[tid] < 0 THEN 0 ELSE counters[tid],
         oldest |-> IF all = << >> THEN -1 ELSE Head(all).time,
         newest |-> IF all = << >> THEN -1 ELSE Last(all).time]
-----------------------------------------------------------------------------
(* The HTTP handlers around the queries (xolu/pkg/server/ts_handlers.go)   *)

orDefault(v, default) == IF v <= 0 THEN default ELSE v

tsQueryLimits ==
    [maxEvents    |-> orDefault(Config.maxEvents, 10000),
     maxScan      |-> orDefault(Config.maxScan, 500000),
     maxRangeDays |-> orDefault(Config.maxRangeDays, 366),
     maxBatchSize |-> orDefault(Config.maxBatchSize, 5000),
     maxBuckets   |-> orDefault(Config.maxBuckets, 10000)]

\* What a caller asks for, below the configured maximum.
requested(n, default) ==
    LET m == IF n < 1 THEN default ELSE n
    IN  IF m > tsQueryLimits.maxEvents THEN tsQueryLimits.maxEvents ELSE m

tooLong(req) == req.to - req.from > tsQueryLimits.maxRangeDays

HandleTSQueryRange(db, n, req) ==
    IF tooLong(req) THEN [err |-> "OLU-TS011", events |-> << >>]
    ELSE QueryRange(db, n, [req EXCEPT
            !.limit = requested(@, 1000), !.maxScan = tsQueryLimits.maxScan,
            !.order = IF @ = "" THEN "asc" ELSE @])

HandleTSLatest(db, n, req) == Latest(db, n, [req EXCEPT !.limit = requested(@, 10)])

\* Without an interval the answer is the one bucket, or zero.
HandleTSAggregate(db, n, req) ==
    LET r == Aggregate(db, n, [req EXCEPT !.maxScan = tsQueryLimits.maxScan,
                                          !.maxBuckets = tsQueryLimits.maxBuckets])
    IN  CASE tooLong(req) -> [err |-> "OLU-TS011", buckets |-> << >>]
          [] ~tooLong(req) /\ req.interval <= 0 /\ r.err = "" /\ r.buckets = << >> ->
                [err |-> "", buckets |-> <<[time |-> req.from, value |-> 0, count |-> 0]>>]
          [] OTHER -> r

\* Each timeline with its own retention setting, 0 when it has the default.
HandleTSGetRetention(reg, default) ==
    [default |-> default, timelines |-> [t \in DOMAIN reg |-> reg[t].days]]

HandleTSTimelineStats(db, reg, tid, counters) ==
    IF tid \notin DOMAIN reg THEN [total |-> 0, oldest |-> -1, newest |-> -1]
    ELSE TimelineStats(db, tid, reg[tid].dims, counters)
=============================================================================
