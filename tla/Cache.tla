------------------------------- MODULE Cache -------------------------------
(* The sharded TTL cache of package cache: the map and the eviction heap of   *)
(* every shard, the lookups (which take a shard's lock several times in one   *)
(* call), the insertions, the background sweeper, Flush and Delete.           *)
(*                                                                            *)
(* An entry stands for the Go *Entry: its id is its address, so two entries   *)
(* are the same pointer exactly when they have the same id.  Records, SOA and *)
(* DNSSEC verdict are left out; the query class is a single one.  Time is in  *)
(* whole seconds: RemainingTTL truncates elapsed time to seconds, so it is    *)
(* zero exactly from InsertedAt + OrigTTL on.                                 *)
EXTENDS Integers, FiniteSets

CONSTANTS
    Names,          \* lower-cased owner names
    QTypes,         \* record types clients ask for (not the sentinel)
    NXType,         \* qtype 0: the sentinel under which NXDOMAIN is stored
    ECSPrefixes,    \* client subnet prefixes a scoped answer is keyed by
    NoECS,          \* the empty prefix: the global entry
    Parent,         \* the name with its first label removed, or NoName
    NoName,
    ShardCount,     \* number of shards (256 in the code)
    ShardOf,        \* shardIndex: the shard a name hashes to
    MaxEntries,     \* configured capacity of the whole cache; <= 0: unlimited
    WireTTLs,       \* TTLs (after sanitizeWireTTL) that answers carry
    MinTTL, MaxTTL, NegMaxTTL, MaxFailureTTL, DefaultFailureTTL,
    HardenBelowNX, PrefetchEnabled,
    StaleSettings,  \* the values serveStale may have
    FlushUsed,      \* whether the dashboard flushes the cache
    Getters,        \* goroutines that look names up
    NoEntry,        \* the nil *Entry
    ClockSteps,     \* how far the clock may advance in one step
    MaxTime,        \* bound on the clock
    MaxStores,      \* bound on the number of insertions
    MaxStoreDelay   \* bound on the wait for a shard's lock in an insertion

ASSUME ShardAssumption == /\ ShardCount \in Nat \ {0}
                          /\ ShardOf \in [Names -> 0 .. ShardCount - 1]
ASSUME KeyAssumption == /\ NXType \notin QTypes
                        /\ NoECS \notin ECSPrefixes
                        /\ NoName \notin Names
                        /\ Parent \in [Names -> Names \cup {NoName}]
ASSUME TTLAssumption == /\ WireTTLs \subseteq Nat
                        /\ MinTTL \in Nat /\ MaxTTL \in Nat /\ NegMaxTTL \in Nat
                        /\ MaxFailureTTL \in Nat /\ DefaultFailureTTL \in Nat
ASSUME BoundAssumption == /\ MaxEntries \in Int /\ MaxTime \in Nat /\ ClockSteps \subseteq Nat
                          /\ MaxStores \in Nat /\ MaxStoreDelay \in Nat

Shards == 0 .. ShardCount - 1
cacheKey == [name : Names, qtype : QTypes \cup {NXType}, ecs : ECSPrefixes \cup {NoECS}]
NegativeType == {"positive", "nxdomain", "nodata", "servfail"}
Entry == [id : Nat, key : cacheKey, kind : NegativeType, at : Nat, ttl : Nat]

\* Names are at most 255 octets long and types 16 bits wide.
ASSUME FiniteAssumption == IsFiniteSet(cacheKey)

\* NoEntry is a value of its own, not an entry.
ASSUME NilAssumption == NoEntry \notin Entry

VARIABLES
    entries,    \* [cacheKey -> Entry or NoEntry]: the maps of all shards
    evictQ,     \* [Shards -> SUBSET Entry]: the items of each shard's heap
    now,        \* the clock
    nextId,     \* number of entries allocated so far
    prefetched, \* ids of the entries whose prefetched flag is set
    getter,     \* where each goroutine is inside Get, and what it holds
    sweeper,    \* the sweeper: its next shard and the time it started at
    flusher,    \* Flush: its next shard and the entries that existed at its start
    serveStale  \* whether expired entries are kept, fixed when the cache is made

vars == <<entries, evictQ, now, nextId, prefetched, getter, sweeper, flusher, serveStale>>

Idle == ShardCount      \* index of a sweeper or flusher that is not running
key(n, t) == [name |-> n, qtype |-> t, ecs |-> NoECS]
shardIndex(k) == ShardOf[k.name]
InShard(ents, s) == {k \in cacheKey : shardIndex(k) = s /\ ents[k] # NoEntry}

expiresAt(e) == e.at + e.ttl

\* A plausible bug: the elapsed time rounded down once more.
RemainingTTL_Late(e) == IF now - e.at > e.ttl THEN 0 ELSE e.ttl - (now - e.at) + 1

RemainingTTL(e) == IF now - e.at >= e.ttl THEN 0 ELSE e.ttl - (now - e.at)

clampTTL(t) == IF t < MinTTL THEN MinTTL ELSE IF t > MaxTTL THEN MaxTTL ELSE t
clampNegativeTTL(t) == IF t < MinTTL THEN MinTTL ELSE IF t > NegMaxTTL THEN NegMaxTTL ELSE t
clampFailureTTL(t) ==
    LET u == IF t = 0 THEN DefaultFailureTTL ELSE t
    IN  IF u > MaxFailureTTL THEN MaxFailureTTL ELSE u

-----------------------------------------------------------------------------
(* Insertion and capacity.                                                    *)

Limit == MaxEntries \div ShardCount + 1

\* The bound without the shard's share: the whole capacity in every shard.
OverLimit_Global(ents, s) ==
    MaxEntries > 0 /\ Cardinality(InShard(ents, s)) > MaxEntries + 1

OverLimit(ents, s) == MaxEntries > 0 /\ Cardinality(InShard(ents, s)) > Limit

\* The items of a heap whose entry is still the one in the map.
Current(ents, q) == {i \in q : ents[i.key] = i}

\* The keys nextEvictionKeyLocked may return: a current item that expires
\* first, or, should the heap hold no current item, an entry with the least
\* remaining TTL.
nextEvictionKeys(ents, q, s) ==
    IF Current(ents, q) # {}
    THEN {i.key : i \in {j \in Current(ents, q) : \A o \in Current(ents, q) : expiresAt(j) <= expiresAt(o)}}
    ELSE {k \in InShard(ents, s) : \A l \in InShard(ents, s) : RemainingTTL(ents[k]) <= RemainingTTL(ents[l])}

\* What is left of the heap once victim, an entry, has been popped from it.
\* Stale items with the same expiry may go before or after it: an item that is
\* stale stays so, and is skipped whenever it is popped.
PoppedUpTo(ents, q, victim) ==
    {i \in q : expiresAt(i) > expiresAt(victim) \/ (i \in Current(ents, q) /\ i # victim)}

\* s.entries[key] = entry; pushEvictionEntry; enforceMaxEntriesLocked.  The
\* eviction loop runs at most once: a shard within its limit grows by one key.
insert(k, kind, ttl, at) ==
    LET e    == [id |-> nextId, key |-> k, kind |-> kind, at |-> at, ttl |-> ttl]
        s    == shardIndex(k)
        ents == [entries EXCEPT ![k] = e]
        q    == evictQ[s] \cup {e}
    IN  /\ nextId < MaxStores
        /\ nextId' = nextId + 1
        /\ IF OverLimit(ents, s)
           THEN \E v \in nextEvictionKeys(ents, q, s) :
                    /\ entries' = [ents EXCEPT ![v] = NoEntry]
                    /\ evictQ' = [evictQ EXCEPT ![s] = PoppedUpTo(ents, q, ents[v])]
           ELSE /\ entries' = ents
                /\ evictQ' = [evictQ EXCEPT ![s] = q]
        /\ UNCHANGED <<now, prefetched, getter, sweeper, flusher, serveStale>>

\* InsertedAt is read before the shard's lock is taken.
InsertTimes == {t \in 0 .. now : now - t <= MaxStoreDelay}

\* StoreWithStatus and, with an ECS prefix, StoreWithECSStatus.  extractTTL is
\* the least TTL of the answers, or MinTTL when the section is empty; zero is
\* not cached.
StoreWithStatus(n, t, ecs) ==
    \E ttl \in WireTTLs \cup {MinTTL}, at \in InsertTimes :
        /\ ttl # 0
        /\ insert([name |-> n, qtype |-> t, ecs |-> ecs], "positive", clampTTL(ttl), at)

\* NODATA stored under the sentinel as NXDOMAIN is.
StoreNegative_Sentinel(n, t, kind) ==
    \E rawTTL \in WireTTLs, at \in InsertTimes :
        /\ rawTTL # 0
        /\ insert(key(n, NXType), kind, clampNegativeTTL(rawTTL), at)

\* rawTTL is extractNegativeTTL of an authority section whose SOA, if any,
\* covers the name; other sections are not cached.
StoreNegative(n, t, kind) ==
    \E rawTTL \in WireTTLs, at \in InsertTimes :
        /\ rawTTL # 0
        /\ insert(key(n, IF kind = "nxdomain" THEN NXType ELSE t), kind, clampNegativeTTL(rawTTL), at)

StoreFailure(n, t, ttl) ==
    \E at \in InsertTimes : insert(key(n, t), "servfail", clampFailureTTL(ttl), at)

-----------------------------------------------------------------------------
(* Lookups.  Each step takes a shard's read lock once, or none; what was read *)
(* may be replaced or deleted before the next step.                           *)

IdleGetter == [pc |-> "idle", op |-> "get", name |-> NoName, qtype |-> NXType,
               cursor |-> NoName, held |-> NoEntry, ttl |-> 0]

\* The call returns entry e with its TTLs decayed to ttl; NoEntry is a miss.
Answer(g, e, ttl) == [getter EXCEPT ![g].pc = "done", ![g].held = e, ![g].ttl = ttl]

\* Read an exact key; op says which function is running: "get", "lookup"
\* (Lookup, and GetWithECS for a non-empty prefix) or "stale" (GetStale).
Begin(g, op, k) ==
    LET e  == entries[k]
        pc == IF e # NoEntry THEN "check" ELSE IF op = "get" THEN "nx" ELSE "done"
    IN  /\ getter[g].pc = "idle"
        /\ getter' = [getter EXCEPT ![g] = [pc |-> pc, op |-> op, name |-> k.name, qtype |-> k.qtype,
                                            cursor |-> k.name, held |-> e, ttl |-> 0]]
        /\ UNCHANGED <<entries, evictQ, now, nextId, prefetched, sweeper, flusher, serveStale>>

Get(g, n, t) == Begin(g, "get", key(n, t))
Lookup(g, n, t) == Begin(g, "lookup", key(n, t))
GetWithECS(g, n, t, ecs) == Begin(g, "lookup", [name |-> n, qtype |-> t, ecs |-> ecs])
GetStale(g, n, t) == serveStale /\ Begin(g, "stale", key(n, t))

\* The exact key was absent: try the NXDOMAIN sentinel of the same name.
GetNX(g) ==
    LET e == entries[key(getter[g].name, NXType)]
    IN  /\ getter[g].pc = "nx"
        /\ getter' = IF e # NoEntry THEN [getter EXCEPT ![g].pc = "check", ![g].held = e]
                     ELSE IF HardenBelowNX THEN [getter EXCEPT ![g].pc = "walk"]
                     ELSE Answer(g, NoEntry, 0)
        /\ UNCHANGED <<entries, evictQ, now, nextId, prefetched, sweeper, flusher, serveStale>>

\* One iteration of the walk up the labels: the sentinel of the next ancestor.
checkParentNXDomain(g) ==
    LET parent == Parent[getter[g].cursor]
        e == entries[key(parent, NXType)]
    IN  /\ getter[g].pc = "walk"
        /\ getter' = IF parent = NoName THEN Answer(g, NoEntry, 0)
                     ELSE IF e # NoEntry /\ RemainingTTL(e) > 0 THEN Answer(g, e, RemainingTTL(e))
                     ELSE [getter EXCEPT ![g].cursor = parent]
        /\ UNCHANGED <<entries, evictQ, now, nextId, prefetched, sweeper, flusher, serveStale>>

prefetchThreshold(e) == IF e.ttl \div 10 = 0 THEN 1 ELSE e.ttl \div 10

\* The entry that was read is live: it is returned, and a Get close to its
\* expiry starts the prefetch, once per entry (tryPrefetch).
GetLive(g) ==
    LET e == getter[g].held
    IN  /\ getter[g].pc = "check"
        /\ RemainingTTL(e) > 0
        /\ getter' = IF getter[g].op = "stale" THEN Answer(g, NoEntry, 0) ELSE Answer(g, e, RemainingTTL(e))
        /\ prefetched' = IF getter[g].op = "get" /\ PrefetchEnabled /\ RemainingTTL(e) < prefetchThreshold(e)
                         THEN prefetched \cup {e.id} ELSE prefetched
        /\ UNCHANGED <<entries, evictQ, now, nextId, sweeper, flusher, serveStale>>

\* The entry that was read has expired: GetStale returns it, the others miss,
\* and a Get that does not serve stale goes on to delete it.
GetExpired(g) ==
    LET e == getter[g].held
    IN  /\ getter[g].pc = "check"
        /\ RemainingTTL(e) = 0
        /\ getter' = IF getter[g].op = "stale" THEN Answer(g, e, 0)
                     ELSE IF getter[g].op = "get" /\ ~serveStale THEN [getter EXCEPT ![g].pc = "delete"]
                     ELSE Answer(g, NoEntry, 0)
        /\ UNCHANGED <<entries, evictQ, now, nextId, prefetched, sweeper, flusher, serveStale>>

\* delete(s.entries, lookupKey), whatever the key holds by now.
GetDelete(g) ==
    /\ getter[g].pc = "delete"
    /\ entries' = [entries EXCEPT ![getter[g].held.key] = NoEntry]
    /\ getter' = Answer(g, NoEntry, 0)
    /\ UNCHANGED <<evictQ, now, nextId, prefetched, sweeper, flusher, serveStale>>

Return(g) ==
    /\ getter[g].pc = "done"
    /\ getter' = [getter EXCEPT ![g] = IdleGetter]
    /\ UNCHANGED <<entries, evictQ, now, nextId, prefetched, sweeper, flusher, serveStale>>

-----------------------------------------------------------------------------
(* The sweeper, Flush and Delete.                                             *)

\* A tick of StartSweeper: sweep() reads the clock once, before its first shard.
SweepStart ==
    /\ sweeper.shard = Idle
    /\ sweeper' = [shard |-> 0, now |-> now]
    /\ UNCHANGED <<entries, evictQ, now, nextId, prefetched, getter, flusher, serveStale>>

\* A loop that leaves out the last shard.
SweepShard_SkipLast ==
    /\ sweeper.shard # Idle
    /\ sweeper.shard = ShardCount - 1
    /\ sweeper' = [shard |-> Idle, now |-> 0]
    /\ UNCHANGED <<entries, evictQ, now, nextId, prefetched, getter, flusher, serveStale>>

\* evictExpiredLocked on one shard, and the fallback for a shard whose heap it
\* leaves empty.
SweepShard ==
    LET s       == sweeper.shard
        popped  == {i \in evictQ[s] : expiresAt(i) <= sweeper.now}
        expired == {i.key : i \in {j \in Current(entries, popped) : RemainingTTL(j) = 0}}
        kept    == [k \in cacheKey |-> IF k \in expired THEN NoEntry ELSE entries[k]]
        orphans == IF popped = evictQ[s] THEN {k \in InShard(kept, s) : RemainingTTL(kept[k]) = 0} ELSE {}
    IN  /\ s # Idle
        /\ sweeper' = IF s = ShardCount - 1 THEN [shard |-> Idle, now |-> 0] ELSE [sweeper EXCEPT !.shard = s + 1]
        /\ entries' = [k \in cacheKey |-> IF k \in orphans THEN NoEntry ELSE kept[k]]
        /\ evictQ' = [evictQ EXCEPT ![s] = @ \ popped]
        /\ UNCHANGED <<now, nextId, prefetched, getter, flusher, serveStale>>

FlushStart ==
    /\ FlushUsed
    /\ flusher.shard = Idle
    /\ flusher' = [shard |-> 0, ids |-> nextId]
    /\ UNCHANGED <<entries, evictQ, now, nextId, prefetched, getter, sweeper, serveStale>>

\* resetEntries of one shard.
FlushShard ==
    LET s == flusher.shard
    IN  /\ s # Idle
        /\ entries' = [k \in cacheKey |-> IF shardIndex(k) = s THEN NoEntry ELSE entries[k]]
        /\ evictQ' = [evictQ EXCEPT ![s] = {}]
        /\ flusher' = [flusher EXCEPT !.shard = s + 1]
        /\ UNCHANGED <<now, nextId, prefetched, getter, sweeper, serveStale>>

\* Removes the map entry; its heap item stays and is stale from now on.
Delete(n, t) ==
    /\ entries[key(n, t)] # NoEntry
    /\ entries' = [entries EXCEPT ![key(n, t)] = NoEntry]
    /\ UNCHANGED <<evictQ, now, nextId, prefetched, getter, sweeper, flusher, serveStale>>

Tick ==
    /\ \E d \in ClockSteps : now' = now + d
    /\ now' <= MaxTime
    /\ UNCHANGED <<entries, evictQ, nextId, prefetched, getter, sweeper, flusher, serveStale>>

-----------------------------------------------------------------------------
Init ==
    /\ entries = [k \in cacheKey |-> NoEntry]
    /\ evictQ = [s \in Shards |-> {}]
    /\ now = 0
    /\ nextId = 0
    /\ prefetched = {}
    /\ getter = [g \in Getters |-> IdleGetter]
    /\ sweeper = [shard |-> Idle, now |-> 0]
    /\ flusher = [shard |-> Idle, ids |-> 0]
    /\ serveStale \in StaleSettings

Call(g, n, t) ==
    \/ Get(g, n, t)
    \/ Lookup(g, n, t)
    \/ \E ecs \in ECSPrefixes : GetWithECS(g, n, t, ecs)
    \/ GetStale(g, n, t)

GetStep(g) ==
    \/ GetNX(g)
    \/ checkParentNXDomain(g)
    \/ GetLive(g)
    \/ GetExpired(g)
    \/ GetDelete(g)

Update(n, t) ==
    \/ \E ecs \in ECSPrefixes \cup {NoECS} : StoreWithStatus(n, t, ecs)
    \/ \E kind \in {"nxdomain", "nodata"} : StoreNegative(n, t, kind)
    \/ StoreFailure(n, t, DefaultFailureTTL)
    \/ Delete(n, t)

Sweep == SweepStart \/ SweepShard
Flush == FlushStart \/ FlushShard

Next ==
    \/ \E g \in Getters : GetStep(g) \/ Return(g)
    \/ \E g \in Getters, n \in Names, t \in QTypes : Call(g, n, t)
    \/ \E n \in Names, t \in QTypes : Update(n, t)
    \/ Sweep
    \/ Flush
    \/ Tick

Spec == Init /\ [][Next]_vars

\* The sweeper's goroutine runs for as long as the process does and its ticker
\* fires again and again; callers, Flush and the clock promise nothing.
FairSpec == Spec /\ WF_vars(Sweep)

-----------------------------------------------------------------------------
(* Properties.                                                                *)

Getter == [pc : {"idle", "nx", "walk", "check", "delete", "done"}, op : {"get", "lookup", "stale"},
           name : Names \cup {NoName}, qtype : QTypes \cup {NXType}, cursor : Names \cup {NoName},
           held : Entry \cup {NoEntry}, ttl : Nat]

\* Every variable that changes has its type.
TypeOK ==
    /\ entries \in [cacheKey -> Entry \cup {NoEntry}]
    /\ evictQ \in [Shards -> SUBSET Entry]
    /\ now \in Nat
    /\ nextId \in Nat
    /\ prefetched \in SUBSET Nat
    /\ getter \in [Getters -> Getter]
    /\ sweeper \in [shard : 0 .. ShardCount, now : Nat]
    /\ flusher \in [shard : 0 .. ShardCount, ids : Nat]

\* enforceMaxEntriesLocked keeps every shard within its share of the capacity,
\* plus one, whenever its lock is free.
WithinLimit == MaxEntries > 0 => \A s \in Shards : Cardinality(InShard(entries, s)) <= Limit

\* Every entry of a shard's map has its own item in that shard's heap, so that
\* the sweeper and the capacity eviction can find it: the fallback scans of
\* nextEvictionKeyLocked and sweep are never needed.
HeapCovers ==
    \A k \in cacheKey : entries[k] # NoEntry =>
        entries[k].key = k /\ entries[k] \in evictQ[shardIndex(k)]

\* n and all names above it.
SelfAndAncestors(n) ==
    {a \in Names : \A S \in SUBSET Names :
        (n \in S /\ \A x \in S : Parent[x] \in S \cup {NoName}) => a \in S}

\* What a lookup returns answers the question: Get returns the entry of the
\* exact key or an NXDOMAIN for the name (or, hardened, for a name above it),
\* with a TTL between one and the stored one; Lookup only the exact key;
\* GetStale only an entry of the exact key that has expired.
HitAnswersQuestion ==
    \A g \in Getters : LET c == getter[g] IN
        c.pc = "done" /\ c.held # NoEntry =>
            LET exact == c.held.key.name = c.name /\ c.held.key.qtype = c.qtype
                above == SelfAndAncestors(c.name)
            IN  CASE c.op = "get"    -> /\ \/ exact /\ c.held.kind # "nxdomain"
                                           \/ /\ c.held.kind = "nxdomain"
                                              /\ c.held.key.name \in (IF HardenBelowNX THEN above ELSE {c.name})
                                        /\ c.ttl \in 1 .. c.held.ttl
                  [] c.op = "lookup" -> exact /\ c.ttl \in 1 .. c.held.ttl
                  [] c.op = "stale"  -> exact /\ expiresAt(c.held) <= now

\* An insertion that overflows a shard evicts an entry that expires no later
\* than any entry the shard keeps.
EvictsSoonest ==
    [][nextId' > nextId =>
        \A k, l \in cacheKey :
            /\ entries[k] # NoEntry /\ entries'[k] = NoEntry
            /\ shardIndex(l) = shardIndex(k) /\ entries'[l] # NoEntry
            => expiresAt(entries[k]) <= expiresAt(entries'[l])]_vars

\* Once Flush has passed a shard, no entry that existed when Flush was called
\* is left in it.
FlushClears ==
    \A k \in cacheKey : entries[k] # NoEntry /\ shardIndex(k) < flusher.shard =>
        entries[k].id >= flusher.ids

\* When sweep leaves a shard, the entries that had expired when it started are
\* gone, and it has removed no entry that is still live.
SweepExact ==
    [][sweeper.shard # Idle /\ sweeper' # sweeper =>
        /\ \A k \in InShard(entries', sweeper.shard) : expiresAt(entries'[k]) > sweeper.now
        /\ \A k \in cacheKey : entries'[k] # entries[k] => RemainingTTL(entries[k]) = 0]_vars

\* What makes room removes the right entries: an insertion one that expires
\* soonest, and the sweep and Flush, which go from shard to shard while entries
\* come and go, all they are there to remove, the sweep nothing else
\* (enforceMaxEntriesLocked, sweep, evictExpiredLocked, Flush).
RemovalIsExact == EvictsSoonest /\ SweepExact /\ []FlushClears

\* The entry of the i-th insertion has expired and is still found under a key.
Expired(i) == \E k \in cacheKey : entries[k] # NoEntry /\ entries[k].id = i /\ expiresAt(entries[k]) <= now

\* No entry stays in the cache for ever once it has expired: the sweeper removes
\* it, or it is replaced, although no lookup may ask for it again (sweep).
ExpiredGoesAway == \A i \in 0 .. MaxStores - 1 : []<>~Expired(i)
=============================================================================
