------------------------------ MODULE LiveData ------------------------------
(* What AdminServer keeps of the queries for the dashboard: the ring buffer    *)
(* with its subscribers, the most frequent names, and the time series.  The    *)
(* goroutines that answer queries call RecordQuery at once; a stream of the    *)
(* query log and snapshots of the time series run beside them.                 *)
(*                                                                             *)
(* An entry is its ID.  The two trackers are alike; the one of the names is     *)
(* modelled.  Of a bucket the queries and the fallbacks are kept.               *)
EXTENDS Integers, Sequences, FiniteSets, FiniteSetsExt, Functions, Folds

CONSTANTS
    Recorders,      \* goroutines of the DNS handler
    Names,
    Capacity,       \* QueryLog.capacity
    Backlog,        \* capacity of a subscriber's channel
    BackfillSize,
    PruneAt, Keep,  \* TopTracker: limit*10 and limit*2
    MaxBuckets,
    MaxTime,        \* bound on the clock, in seconds
    None

\* NewQueryLog puts its default for a size that is not positive.
ASSUME LogAssumption == Capacity \in Nat \ {0} /\ BackfillSize \in Nat

VARIABLES
    now,
    budget,         \* what may still happen, by kind
    rec,            \* RecordQuery of each goroutine: [pc, id, name]
    nextID,
    entries, head, count,   \* QueryLog
    stream,         \* handleQueryStreamWS: [pc, sent, ch]
    counts,         \* TopTracker.counts
    buckets, current,       \* TimeSeriesAggregator
    snap,           \* Snapshot: the time it took before the lock
    logged,         \* history: the IDs in the order they were put into the ring
    from, dropped,  \* history: where the stream subscribed, what did not fit its channel
    asked,          \* history: how often each name was counted
    counted, aged   \* history: queries counted, and trimmed again, by second

live == <<rec, nextID, entries, head, count, stream, counts, buckets, current, snap, logged, from, dropped, asked, counted, aged>>

Quiescent == [pc |-> "idle", id |-> 0, name |-> None]
Closed == [pc |-> "idle", sent |-> << >>, ch |-> << >>]
Use(what) == budget[what] > 0 /\ budget' = [budget EXCEPT ![what] = @ - 1]

-----------------------------------------------------------------------------
(* QueryLog.                                                                  *)

Recent(n) ==
    LET m == IF n > count THEN count ELSE n
    IN  [i \in 1 .. m |-> entries[(head - m + i - 1 + Capacity) % Capacity]]

\* Record, under mu: the ring.
RecordRing(d) ==
    /\ rec[d].pc = "ring"
    /\ entries' = [entries EXCEPT ![head] = rec[d].id]
    /\ head' = (head + 1) % Capacity
    /\ count' = IF count < Capacity THEN count + 1 ELSE count
    /\ rec' = [rec EXCEPT ![d].pc = "fan"]
    /\ logged' = Append(logged, rec[d].id)
    /\ UNCHANGED <<now, budget, nextID, stream, counts, buckets, current, snap, from, dropped, asked, counted, aged>>

Subscribed == stream.pc = "stream"

\* Subscribers that still have something to send get nothing.
RecordFan_Idle(d) ==
    /\ rec[d].pc = "fan"
    /\ stream' = IF Subscribed /\ stream.ch = << >> THEN [stream EXCEPT !.ch = <<rec[d].id>>] ELSE stream
    /\ dropped' = IF Subscribed /\ Len(stream.ch) >= Backlog THEN dropped \cup {rec[d].id} ELSE dropped
    /\ rec' = [rec EXCEPT ![d].pc = "series"]
    /\ UNCHANGED <<now, budget, nextID, entries, head, count, counts, buckets, current, snap, logged, from, asked, counted, aged>>

\* Record, under subMu: every subscriber whose channel has room.
RecordFan(d) ==
    /\ rec[d].pc = "fan"
    /\ IF ~Subscribed THEN UNCHANGED <<stream, dropped>>
       ELSE IF Len(stream.ch) < Backlog
            THEN stream' = [stream EXCEPT !.ch = Append(@, rec[d].id)] /\ UNCHANGED dropped
            ELSE dropped' = dropped \cup {rec[d].id} /\ UNCHANGED stream
    /\ rec' = [rec EXCEPT ![d].pc = "series"]
    /\ UNCHANGED <<now, budget, nextID, entries, head, count, counts, buckets, current, snap, logged, from, asked, counted, aged>>

\* handleQueryStreamWS: the last entries, the subscription, then what arrives;
\* it ends when a write or a ping fails.
StreamBackfill ==
    /\ stream.pc = "idle" /\ Use("stream")
    /\ stream' = [stream EXCEPT !.pc = "subscribe", !.sent = Recent(BackfillSize)]
    /\ UNCHANGED <<now, rec, nextID, entries, head, count, counts, buckets, current, snap, logged, from, dropped, asked, counted, aged>>

Subscribe ==
    /\ stream.pc = "subscribe"
    /\ stream' = [stream EXCEPT !.pc = "stream"]
    /\ from' = Len(logged) /\ dropped' = {}
    /\ UNCHANGED <<now, budget, rec, nextID, entries, head, count, counts, buckets, current, snap, logged, asked, counted, aged>>

StreamWrite ==
    /\ Subscribed /\ stream.ch # << >>
    /\ stream' = [stream EXCEPT !.sent = Append(@, Head(stream.ch)), !.ch = Tail(@)]
    /\ UNCHANGED <<now, budget, rec, nextID, entries, head, count, counts, buckets, current, snap, logged, from, dropped, asked, counted, aged>>

Unsubscribe ==
    /\ stream.pc # "idle"
    /\ stream' = Closed
    /\ UNCHANGED <<now, budget, rec, nextID, entries, head, count, counts, buckets, current, snap, logged, from, dropped, asked, counted, aged>>

-----------------------------------------------------------------------------
(* TopTracker.                                                                *)

Increased(key) == [k \in DOMAIN counts \cup {key} |-> IF k \in DOMAIN counts THEN counts[k] + (IF k = key THEN 1 ELSE 0) ELSE 1]

\* Any Keep entries are kept.
prune_Any(c) == {[k \in K |-> c[k]] : K \in kSubset(Keep, DOMAIN c)}

\* The Keep entries with the highest counts; sort.Slice puts equal ones in any order.
prune(c) ==
    {[k \in K |-> c[k]] : K \in {K \in kSubset(Keep, DOMAIN c) : \A k \in K, l \in DOMAIN c \ K : c[k] >= c[l]}}

Inc(d) ==
    /\ rec[d].pc = "top"
    /\ LET c == Increased(rec[d].name)
       IN  counts' \in IF Cardinality(DOMAIN c) > PruneAt THEN prune(c) ELSE {c}
    /\ rec' = [rec EXCEPT ![d].pc = "ring"]
    /\ asked' = [asked EXCEPT ![rec[d].name] = @ + 1]
    /\ UNCHANGED <<now, budget, nextID, entries, head, count, stream, buckets, current, snap, logged, from, dropped, counted, aged>>

-----------------------------------------------------------------------------
(* TimeSeriesAggregator.                                                      *)

Bucket(t) == [ts |-> t, queries |-> 0, fallbacks |-> 0]

\* A bucket without queries is flushed without its fallbacks.
flushCurrentLocked(bs) == Append(bs, IF current.queries = 0 THEN Bucket(current.ts) ELSE current)

\* The oldest buckets are trimmed.
Trim(bs) == SubSeq(bs, Len(bs) - (IF Len(bs) > MaxBuckets THEN MaxBuckets ELSE Len(bs)) + 1, Len(bs))

\* The buckets once time t has been looked at.
rotateLocked(t) ==
    LET all == flushCurrentLocked(buckets)
        old == SubSeq(all, 1, Len(all) - Len(Trim(all)))
    IN  IF current = None THEN [buckets |-> buckets, current |-> Bucket(t), aged |-> aged]
        ELSE IF current.ts = t THEN [buckets |-> buckets, current |-> current, aged |-> aged]
        ELSE [buckets |-> Trim(all), current |-> Bucket(t),
              aged |-> [s \in DOMAIN aged |->
                  aged[s] + FoldFunction(LAMBDA b, n : n + (IF b.ts = s THEN b.queries ELSE 0), 0, old)]]

\* Record of the time series, which reads the clock under the lock; the query is done.
RecordSeries(d) ==
    /\ rec[d].pc = "series"
    /\ LET r == rotateLocked(now) IN
       /\ buckets' = r.buckets /\ aged' = r.aged
       /\ current' = [r.current EXCEPT !.queries = @ + 1]
    /\ counted' = [counted EXCEPT ![now] = @ + 1]
    /\ rec' = [rec EXCEPT ![d] = Quiescent]
    /\ UNCHANGED <<now, budget, nextID, entries, head, count, stream, counts, snap, logged, from, dropped, asked>>

RecordFallback ==
    /\ Use("fallback")
    /\ LET r == rotateLocked(now) IN
       /\ buckets' = r.buckets /\ aged' = r.aged
       /\ current' = [r.current EXCEPT !.fallbacks = @ + 1]
    /\ UNCHANGED <<now, rec, nextID, entries, head, count, stream, counts, snap, logged, from, dropped, asked, counted>>

\* Snapshot reads the clock before it has the lock.
SnapshotTime ==
    /\ snap = None /\ Use("snapshot")
    /\ snap' = now
    /\ UNCHANGED <<now, rec, nextID, entries, head, count, stream, counts, buckets, current, logged, from, dropped, asked, counted, aged>>

SnapshotRotate ==
    /\ snap # None
    /\ LET r == rotateLocked(snap) IN buckets' = r.buckets /\ current' = r.current /\ aged' = r.aged
    /\ snap' = None
    /\ UNCHANGED <<now, budget, rec, nextID, entries, head, count, stream, counts, logged, from, dropped, asked, counted>>

\* What Snapshot returns for a window, the clock being at now.
Snapshot(window) ==
    LET r == rotateLocked(now)
        Recently(b) == b.ts >= now - window
    IN  SelectSeq(r.buckets, Recently) \o SelectSeq(<<r.current>>, LAMBDA b : b.queries > 0 /\ Recently(b))

\* The buckets of the window, neighbours in one interval added up.
SnapshotAggregated(window, interval) ==
    LET Add(b, groups) ==
            LET start == b.ts - (b.ts % interval)
                gs == IF groups = << >> \/ groups[Len(groups)].ts # start THEN Append(groups, Bucket(start)) ELSE groups
            IN  [gs EXCEPT ![Len(gs)].queries = @ + b.queries, ![Len(gs)].fallbacks = @ + b.fallbacks]
        bs == Snapshot(window)
    IN  MapThenFoldSet(Add, << >>, LAMBDA i : bs[i], LAMBDA I : Max(I), DOMAIN bs)

-----------------------------------------------------------------------------
\* RecordQuery: the ID, the names, the log, the time series.
RecordQuery(d) ==
    /\ rec[d].pc = "idle" /\ Use("query")
    /\ nextID' = nextID + 1
    /\ \E n \in Names : rec' = [rec EXCEPT ![d] = [pc |-> "top", id |-> nextID', name |-> n]]
    /\ UNCHANGED <<now, entries, head, count, stream, counts, buckets, current, snap, logged, from, dropped, asked, counted, aged>>

\* The state of a new AdminServer.
NewLiveData ==
    [rec |-> [d \in Recorders |-> Quiescent], entries |-> [i \in 0 .. Capacity - 1 |-> 0],
     none |-> [n \in Names |-> 0], seconds |-> [s \in 0 .. MaxTime |-> 0]]

LiveInit ==
    /\ rec = NewLiveData.rec /\ nextID = 0
    /\ entries = NewLiveData.entries /\ head = 0 /\ count = 0 /\ logged = << >>
    /\ stream = Closed /\ from = 0 /\ dropped = {}
    /\ counts = << >> /\ asked = NewLiveData.none
    /\ buckets = << >> /\ current = None /\ snap = None
    /\ counted = NewLiveData.seconds /\ aged = NewLiveData.seconds

LiveReset ==
    /\ rec' = NewLiveData.rec /\ nextID' = 0
    /\ entries' = NewLiveData.entries /\ head' = 0 /\ count' = 0 /\ logged' = << >>
    /\ stream' = Closed /\ from' = 0 /\ dropped' = {}
    /\ counts' = << >> /\ asked' = NewLiveData.none
    /\ buckets' = << >> /\ current' = None /\ snap' = None
    /\ counted' = NewLiveData.seconds /\ aged' = NewLiveData.seconds

LiveNext ==
    \/ \E d \in Recorders : RecordQuery(d) \/ Inc(d) \/ RecordRing(d) \/ RecordFan(d) \/ RecordSeries(d)
    \/ StreamBackfill \/ Subscribe \/ StreamWrite \/ Unsubscribe
    \/ RecordFallback \/ SnapshotTime \/ SnapshotRotate

-----------------------------------------------------------------------------
(* Properties.                                                                *)

\* For every n, Recent(n) is what was logged last, in that order, however often
\* the ring has gone round; and after it has subscribed a stream gets every entry
\* that is logged: it was sent, it is in the channel, its goroutine is about to
\* send it, or there was no room in the channel (QueryLog.Record, Recent,
\* Subscribe).
LogIsComplete ==
    /\ \A n \in 1 .. Capacity + 1 :
         Recent(n) = SubSeq(logged, Len(logged) - Min({n, Capacity, Len(logged)}) + 1, Len(logged))
    /\ Subscribed => \A i \in from + 1 .. Len(logged) :
         \/ logged[i] \in Range(stream.sent) \cup Range(stream.ch) \cup dropped
         \/ \E d \in Recorders : rec[d].id = logged[i] /\ rec[d].pc = "fan"

\* The tracker stays within its bound and never counts a name more often than it
\* was asked.  A name all of whose queries are counted is dropped only when they
\* are a smaller share of all queries than one in Keep + 1, whatever the order
\* of the queries and however ties are broken (Inc, prune).
TopIsSound ==
    [][/\ Cardinality(DOMAIN counts') <= PruneAt
       /\ \A n \in DOMAIN counts' : counts'[n] <= asked'[n]
       /\ \A n \in Names \ DOMAIN counts' :
            asked[n] = (IF n \in DOMAIN counts THEN counts[n] ELSE 0) /\ asked'[n] > 0
            => (Keep + 1) * asked'[n] < MapThenSumSet(LAMBDA k : asked'[k], Names)]_<<counts, asked>>

\* Each query is counted once and in its own second: a snapshot of any window
\* has the queries recorded in it except those whose bucket was trimmed, also
\* when a snapshot with an older time comes in between; and adding buckets up to
\* longer intervals loses and doubles nothing (rotateLocked, Snapshot,
\* SnapshotAggregated).
EveryQueryCounted ==
    \A w \in 0 .. MaxTime :
        LET Sum(bs) == FoldFunction(LAMBDA b, n : <<n[1] + b.queries, n[2] + b.fallbacks>>, <<0, 0>>, bs)
        IN  /\ Sum(Snapshot(w))[1] =
                  MapThenSumSet(LAMBDA s : counted[s] - rotateLocked(now).aged[s], {s \in 0 .. MaxTime : s >= now - w})
            /\ \A i \in 2 .. 3 : Sum(SnapshotAggregated(w, i)) = Sum(Snapshot(w))

\* Both: what the dashboard counts is what was asked (TopTracker,
\* TimeSeriesAggregator).
CountsAreSound == TopIsSound /\ []EveryQueryCounted
=============================================================================
