# labyrinth in TLA+

labyrinth is a recursive DNS resolver written in Go: listeners for UDP, TCP,
DNS over TLS and DNS over HTTPS, a request handler, a cache, an iterative
resolver with DNSSEC validation, forwarding and local answers, a blocklist,
access control and rate limits, and an administration server. This directory
holds TLA+ modules of its stateful parts, the TLC configurations that check them
on small instances, and TLAPS proofs of their main properties for every
instance.

To check: `tlc -config <run>.cfg <module>` for a run, `tlapm <module>` for the
proofs. `PROJECT.json` lists the runs, the theorems, the source lines behind
each definition, a mutation of the code for each property, the finding and the
hazards.

## The system

A packet arrives at a listener, which hands it to `MainHandler.Handle` on a
goroutine of its own. Handle applies the access lists, the rate limit and the
blocklist, looks the question up in the cache, and on a miss calls the resolver.
`Resolve` coalesces equal questions (`inflight.do`); the one that runs is
answered by a local zone, goes to a forward or stub zone's servers, or walks
from the root servers to an answer, with the validator's verdict on every answer
and a fallback resolver behind it. Handle stores the result in the cache, or on
failure serves a stale entry, and lets the response rate limiter have the last
word. Other goroutines change the same state: the sweeper of the cache, the
refresh loop of the blocklist, the cleanups of the limiters, and the
administration server, which also keeps a log of the queries, rewrites the
configuration file and updates the executable.

| Part | Module | What makes it hard |
|---|---|---|
| cache (`cache/`) | `Cache` | lookups take locks several times; the heap keeps items of replaced entries; capacity, expiry, serve-stale |
| coalescing (`resolver/inflight.go`) | `Inflight`, which implements `Coalescer` | three critical sections per call; panics |
| blocklist (`blocklist/`) | `Blocklist` | a refresh rebuilds the matchers while rules change; downloads fail; matchers are read without the lock |
| iterative resolver (`resolver/resolver.go`, `classify.go`, `qmin.go`, ...) | `Iterative` | referrals, aliases, failing servers, retries, loops, verdicts of several hops |
| routing, forwarding, fallback, exchanges (`resolver/forward.go`, `upstream.go`, `localzone.go`, `infracache.go`, ...) | `Resolve` | the order of the tables; retries over two transports; what a second resolver may repair |
| DNSSEC validator (`dnssec/`) | `Denial`, `Validator` | single flight across nested validations; zones that roll keys; denial proofs |
| request handler (`server/handler.go`) | `Handler`, on top of `Limits` and `ACL` | lookup, resolution and store are separate; scopes; stale answers; settings switched meanwhile |
| access and rate limits (`security/`) | `Limits`, `ACL` | refill, removal of idle buckets, the slip counter |
| listeners, start, shutdown, PID file (`server/`, `main*.go`, `daemon/`) | `Service` | semaphores, panics, deadlines, SIGTERM at any time, PIDs that are used again |
| messages (`dns/`) | `Wire` | compression pointers, lengths, names inside record data |
| accounts, configuration file, update (`web/`) | `Console`, on top of `LiveData` | handlers without a lock between them; files rewritten step by step; crashes |
| query log, top names, time series (`web/`) | `LiveData` | recorders, a stream and snapshots at once |
| others | | see "Not modelled" |

An `MC*` module gives a module's constants small values, a `*Proofs` module
holds theorems: `CacheProofs` also those about `Inflight`, `HandlerProofs` those
about `Blocklist`, `ResolveProofs` those about `Service`; `LimiterProofs` has the
login limiter of `Console` and `ConsoleProofs` the rest of it, and
`ValidatorProofs` rests on the lemmas of `FrameProofs`. The definitions of
modules that are proved about together differ in their names (`ServiceSpec`,
`InflightSpec`). A run checks what could really go wrong on the whole; some of
its properties are conjunctions of definitions that are proved one by one, and
some invariants (the type invariants among them) are stated for the proofs and
checked by them alone.

## The cache: `Cache`

`entries` is the union of the shards' maps, keyed by name, type (or the
NXDOMAIN sentinel `NXType`) and ECS prefix; `evictQ` the shards' heaps, sets of
items that may be of replaced entries; `now` the clock; `getter` the lookups
under way; `sweeper` and `flusher` the index of the next shard of a sweep and
of a Flush. An entry is its identity, key, kind, time of storage and TTL.

A lookup is a sequence of steps, one per critical section: the exact key
(`Begin`), the sentinel of the name (`GetNX`), those of its ancestors
(`checkParentNXDomain`, only with harden-below-nxdomain), the decision on what
was found (`GetLive`, `GetExpired`), the deletion of an expired entry
(`GetDelete`). An insertion is one step under the shard's lock, with the clock
read up to `MaxStoreDelay` earlier; it pushes the heap item and evicts
(`nextEvictionKeys`). The sweep and Flush take one step per shard.

| Run | Shows | Instance |
|---|---|---|
| `cache_store` | `WithinLimit`; `RemovalIsExact`: an insertion evicts an entry that expires soonest (`EvictsSoonest`), a sweep all that had expired and nothing live (`SweepExact`), and what a shard held when Flush was called is gone once Flush has passed it (`FlushClears`) | two shards of limit 1, two keys each, three insertions, time to 2 |
| `cache_lookup` | `HitAnswersQuestion`: a hit is an entry of the question or an NXDOMAIN of the name or (if hardened) of an ancestor, and, unless stale, alive; `ExpiredGoesAway`: expired entries leave the cache | one lookup of any kind, two insertions, also with an ECS prefix |

Three insertions overfill a shard of limit 1 and leave the heap item of a
replaced entry behind; with two ticks of the clock entries of different TTLs
expire one after the other. Lookups touch each other only through the map, so
one lookup against every other action has the interleavings that matter. The
prefetch flag is in the model and in the proofs; the runs leave it off, since
whole seconds never lie inside the threshold of so short a TTL.
Whether expired entries are served is fixed when the cache is made
(`serveStale`); `cache_lookup` has both settings. Fairness: only the sweeper's
steps, weakly (`FairSpec`); it is a loop over a ticker and takes locks that are
always released. `ExpiredGoesAway` says of each entry that again and again it is
not an expired one in the cache; as an expired entry stays expired until it is
removed, that is that it is removed.

Proved (`CacheProofs`), for any names, shards, capacity and number of
insertions: `TypeCorrect`, `CapacityHolds`, `HeapIsComplete` (every entry has
its item in its shard's heap, `HeapCovers`), `EvictionOrder`, `SweepIsExact`,
`FlushIsComplete`, from these three `RemovalIsRight`, and `HitsAnswer`. The inductive invariant
`IInv` adds to types, capacity and `HeapCovers` that a heap holds items of its own shard only (an eviction makes room in the right
shard), that a sweep does not start in the future (it pops only items of
expired entries) and that a lookup past its first step has a name and, past
its read, an entry. The capacity argument counts keys: an insertion adds at
most one key, and while the shard is over its limit the heap has a current
item, because every entry has one. The constants are assumed as `Cache` states
them: finite keys, at least one shard, TTL limits that are numbers. For Flush
the invariant is that later entries have later identities than the call. For
lookups `HitInv` says that entries lie in the past, that the sentinel type has
exactly the NXDOMAINs, and of each lookup step by step that what it has read is
the entry of the exact key or of a sentinel on its walk, which stays on the
ancestors of the name.

## Coalescing: `Inflight` implements `Coalescer`

`Register` and `Join` are the critical section at the start of `do`, `RunFn`
the call of fn with its recovery from panics, `Done` the wg.Done, `Remove` the
deletion of the key, `Wake` the return of wg.Wait. Call objects are identities
that are reused once no one refers to them, as the garbage collector would.

`Coalescer` is the promise: a computation per key, which publishes its outcome
once; whoever asks while it is registered is given that outcome. The mapping
publishes an outcome at `Done` and lets the leader forget the key and take its
answer in one step at `Remove`; a caller that arrives between the two joins a
call that is already done.

| Run | Shows | Instance |
|---|---|---|
| `inflight` | `EveryCallerReturns`, panics included, and `Coalesces`: the refinement | three callers, two keys, three call objects |

Three callers are a leader, a waiter that joined before Done and one that
comes after it. Fairness: every goroutine inside `do` that can step does, and
fn returns: upstream queries have timeouts and `Iterative` bounds their number.
No fairness makes anyone call.

Proved (`CacheProofs`), for any callers, keys and call objects:
`OneLeaderHolds` (one goroutine runs fn for a key), `ResultIsShared`,
`NothingOrphaned` (a key is registered only while its leader is inside `do`),
and `Refinement`: the specification implements `Coalescer`. `CoalescingInv` links a leader to the call
registered under its key and the call's fields to how far the leader is, and
says that no call is registered under two keys.

## The blocklist: `Blocklist`

`sources` are the lists in use, `customBlocks` and `customAllows` the rules of
the administrator, `matcher` and `rpzMatcher` what queries are checked against.
A refresh (`refresher`) downloads list after list into new matchers
(`FetchOK`, `FetchFailed`), applies the custom rules and swaps the matchers in;
`BlockDomain`, `UnblockDomain` and the changes of lists run between these steps,
each taking its locks one after the other; `IsBlocked` reads the two matchers
without the lock.

| Run | Shows | Instance |
|---|---|---|
| `blocklist` | `LostOnlyToOverlap`: a custom block in force is lost only to a refresh that had read the custom rules before it; `CustomBlocksRestored`: and not for good; `BlockedForAReason`: a name is reported blocked only if the matchers blocked it when the query began or when it ended | a name and its child, a domain list and a response policy zone, one refresh loop, one administrator, one query, lists that come and go |

Fairness: the refresh loop and handlers that have begun go on (a ticker, and
requests with no wait between their steps). Proved (`HandlerProofs`), for any
lists, domains and goroutines: `TypeCorrect`, `LossIsOverlap`,
`ReportIsGrounded` (`BlockedForAReason`), and `WhitelistIsHonoured`: after the first refresh the matcher blocks no name of the
configured whitelist. The invariant says that a refresh about to swap has the
configured whitelist in what it built, that allows are recorded before the
matcher is touched, and that only response policy zones bring wildcards.

## The iterative resolver: `Iterative`

One call of `Resolve` for one question: a frame per CNAME or DNAME hop, each
with the zone it is in, the servers left, the minimised name, the rounds used.
Servers answer any of `Messages`, or not at all; each answer passes the
bailiwick filter and `classifyResponse`, gets any verdict of the validator, and
is cached or not as the code does.

| Run | Shows | Instance |
|---|---|---|
| `iterative` | `StoredIsSound`: nothing out of bailiwick or bogus is cached; `AnswerFollowsChain`; `QueryBound`; `VerdictOfChain`: a chain is no better than its worst hop (`SecureChain`, `BogusFails`); `AllServersAsked`: a call that ends because its last server failed has asked every server of the delegation | 13 messages: referrals with and without glue, hops, denials, circles; depth 3, one hop, minimisation on |

Depth 3 is a referral, a second one and the answer, and lets a loop run into
the bound; one hop is enough for verdicts to be combined and for the limit to be
hit by a second. Proved (`IterativeProofs`), for every depth, chain length and
set of messages: `WorkIsBounded`, `NoServerAskedAgain` (`AskedOnce`),
`SecureMeansEveryHop`, `BogusIsFatal`, from these two `WorstHopDecides`,
`StoredInBailiwick` (`StoredIsSound`), `AnswerLeadsFromQuestion`
(`AnswerFollowsChain`) and `GivesUpAfterAll` (`AllServersAsked`). The
invariant is a budget and some accounts: what was sent is
within `MaxDepth` rounds of each call below and the rounds the innermost has
used (`Budget`); every key visited but the last has had its queries (`Keys`);
every name of the chain but the last has its verdict, and a result is secure
only if the hops from its own frame on were (`ChainOK`); a response past the
filter has only records of the zone in force (`ResponseOK`); a server dropped
from the list has been asked at one of its addresses for this name in this zone
(`AskedOK`); the records kept with a frame lead to the name of the next, and
those of a result from its frame to the end (`FollowOK`). That messages are
records with these sections, whose records have an owner, a type and data, is
all that is assumed of them.

## Routing and exchanges: `Resolve`

One call of `ResolveWithECS`: the local zones, special-use names and the table
of forward and stub zones decide its route, then each server is tried over UDP,
over TCP if truncated, without EDNS0 after FORMERR, up to `UpstreamRetries`
times, in the order the InfraCache ranks them (`SortByRTT`); DNS64 and the
fallback resolver come after. Other resolutions change the InfraCache at any
time. The iteration stays at one zone: the way down is `Iterative`'s.

| Run | Shows | Instance |
|---|---|---|
| `resolve` | `RepliesMatch`; `SendBound`: the queries a call sends are within what its route's servers and the second part it is in, DNS64 or the fallback, may cost; `AskedWhereItBelongs`: local names stay here (`LocalNamesStayHome`), others go to the servers of their zone (`ForwardedToItsZone`), and after a bogus verdict nobody else is asked (`BogusIsFinal`); `EveryCallReturns` | local zones of four types, a forward zone inside a stub zone and one for a special-use name, two root servers, a fallback, 2 retries, 8 kinds of reply |

Fairness: the steps of the call itself, weakly; each exchange has a deadline.
Proved (`ResolveProofs`), for any tables, servers, replies and retries:
`OnlyOwnReplies`, `NamesStayHome`, `ZonesKeepTheirNames`, `BogusStays`, from
the last three `RouteIsKept`, and `SendsAreBounded`. The invariant adds that a call that asks anyone has passed the local and special-use
names and asks its own route's servers before all others (`RouteInv`), and that
a bogus verdict is found only at the end of an iteration (`VerdictInv`). That
`SortByRTT` and `findZone` have a choice to make rests on the well-ordering of
the naturals. Assumed of the constants: a zone is once in its table, has servers
and a name of labels, and replies are records of the fields used. `SendBound`
is again a budget (`CostInv`): what was sent, what the server at hand may still
cost after this attempt, and the full price of the servers not tried yet are
together within the bound; a server costs two queries per attempt, the second
for TCP or the repeat without EDNS0.

## The DNSSEC validator: `Validator` on `Denial`

`Denial` has the NSEC and NSEC3 proofs as operators, measured against the
zones an authority may have. In `Validator` each goroutine has a stack of
validations (`stack`): a fetch of keys may have to resolve a name server's
address, which is validated in turn. The key cache, both single flights
(`inflight`), the loop over signatures and the walk of the trust chain are
steps; zones roll their keys between any two (`Roll`), cache entries expire
(`Expire`) and fetches fail. That a signature or a digest fits is a predicate.

| Run | Shows | Instance |
|---|---|---|
| `dnssec` | `SingleFlight`: one fetch per zone at a time, and nobody waits for ever; `SecureAnswerIsProved`; `FailuresStayFailures`: a failed fetch makes nothing insecure and is not kept; `HonestIsNeverBogus`; `SecureDenialIsTrue` | two goroutines; the root, a zone in three phases of a key roll, a signed zone without DS whose name server lies in the other; every denial of every zone over five names |
| `dnssec_nsec3` | violated: `HonestIsNeverBogus` for NSEC3 denials of a type; see "Finding" | the same, these denials only |

Three phases are the old key, both keys with the old DS, and the new DS. Name
servers' zones do not depend on each other in a circle: with one the code waits
for itself. Two goroutines validate an honest and a spoilt answer of the zone that rolls its
keys; the other answers (the island's, one with the signatures of both keys,
signatures that are expired, weak or over other data) and the exhaustive denials
are validated by one, since nothing of them is shared but the keys.

Proved (`FrameProofs`, what one validation knows, and `ValidatorProofs`, the
steps and the theorems), for any zones and whatever they publish, any
responses, any number of goroutines and validations nested to any depth:
`SecureAnswersAreProved` (`SecureAnswerIsProved`), `FailuresDecideNothing`
(`FailuresStayFailures`) and `SecureDenialsAreTrue` (`SecureDenialIsTrue`). Under
`RollsByTheBook`, which says that a zone's keys go with the DS records of the
phase before and after (RFC 6781), `RolloversAreNeverBogus`: the part of
`HonestIsNeverBogus` about answers. Under `NoHostCycle`, which says that the
zones can be ordered so that a name server's address is signed in zones before
the one it serves, `FetchesAreShared` (`SingleFlight`), and
`NobodyWaitsInACircle`: along the waits of goroutines for each other's fetches
the zones only come earlier, so that no circle of any length exists, where
`SingleFlight` speaks of two. `MCValidator` assumes both conditions of its
instance (`ZonesAssumption`), and TLC evaluates them.

The inductive invariant `IInv` has an invariant of one validation and one of all.
A frame of a stack (`FrameOK`) knows why each of its flags is set: what the loop
over signatures has let through is a candidate (`LoopOK`); a fetch has a result of
the zone's present phase or the one before, and the links of the chain behind it
were delegated (`FetchOK`); and a verdict is right (`DoneOK`), which is what the
first three theorems read off. Of the present phase or the one before is what the
cache holds as well, since a zone goes on only when what it published earlier has
timed out (`Current`). Of all validations, `SlotsOK` says that the slots of the
single flights are held by the frames that lead a fetch, one for each, `NestedOK`
that below the innermost validation there are only queries for name servers,
`WaitsOK` that whoever is waited for has a frame at work on that fetch, and
`RanksOK` that zones come earlier from frame to frame. Assumed of the constants:
a zone has an ancestor for every label (`ZoneAssumption`), an authority signs what
it sends (`ResponseAssumption`), and names are sequences of labels
(`NameAssumption`).

## Requests: `Handler`, `Limits`, `ACL`

`req` is the call of Handle each worker is in; its steps are the checks up to
the cache, the one or two lookups, the resolution, the failure path with the
stale answer, the store, and the response with the response limiter. The cache
is fresh, expired or gone per entry, and the configuration (private address
filter, ECS) changes at any time. `Limits` has both token buckets, the removal
of idle buckets and the slip counter; time and tokens are integers in a common
unit. `ACL` has the lists.

| Run | Shows | Instance |
|---|---|---|
| `handler` | `AnswersInScope`, `AuthenticDataIsValidated`, `PrivateStaysOut` | two workers, three queries (two clients of a network, one without ECS), results of two scopes and a failure, stale answers, the filter switched |
| `limits` | `RatesAreKept`: both limiters, in every interval (`AdmittedBound`, `RespondedBound`); `LimitsSpec`: Handle changes the limiters only by their operations | one worker, a query of each kind the checks tell apart, three clients under different lists, time to 3 |

Two workers are a lookup and a store that overlap, under either configuration.
One worker is enough for the limiters, whose operations are single steps under
a lock; time 3 covers a bucket emptied, refilled and removed.

Proved (`HandlerProofs`), of the limiters by themselves, for every rate, burst, slip ratio and set of clients:
`AdmittedWithinRate`, `RespondedWithinRate`, from these `RatesHold`, and
`SlipLeavesAWay`: fewer than `SlipRatio` responses are dropped in a row. The
invariant is a budget: what a bucket would hold now and what was taken from it since the
interval began are at most a full bucket and the rate times the time. Removing
an idle bucket keeps it only because a bucket idle that long is full
(`CleanupAssumption`). And of Handle, for any workers, entries,
networks and configurations: `ScopeIsKept`, `VerdictIsKept`,
`PrivateAreFiltered`, `ListsAreObeyed` (records go only to clients the lists
permit, and of names that are not blocked), and `HandlerLimits`: Handler implements
`LimitsSpec`, which carries the three bounds over to it. The invariant says the
same of every cache entry and of what each call has in hand as of the
responses: honest about its verdict, public while the filter has been on, and
filed under the scope it was given for.

## The process: `Service`, and messages: `Wire`

`proc` is what runs under each PID, `pidFile` the file, `port` who has the
sockets; `udp`, `accept`, `sem` and `conn` are the listeners, `tried`, `ready`
and `validator` what happens behind them after the start. Packets,
connections, panics, failed reads, kills, other programs that get a PID and
`daemon stop` come from the environment, as many as a scenario allows.

`Wire` has Pack and Unpack over buffers of cells: a byte of a name is a cell,
a field of fixed width is one. It has no state beyond the message at hand and
runs as a scenario of its own in `MCService`.

| Run | Shows | Instance |
|---|---|---|
| `service` | `SlotsMatchConnections`; `StopReachesDaemon` (`PidFileNamesDaemon`, `StopSparesStrangers`); `NobodyIsLeftWaiting`: connections end and the UDP reader gets a worker; `SigtermStops`; `ValidatesInTheEnd`; `MessagesSurvive`: what Pack writes is read as it was, and what is read as a name from any bytes is one | two PIDs; three packets at two workers; two TCP connections for one place; DoT and DoH; two starts with a kill and two stops; messages of one question and up to two records over four names, and every buffer of six cells over six values |

One place for two connections makes one wait; two starts with a kill between
reuse a PID. Names share suffixes of one and two labels, and `PointerSpace` is
so small that some names lie beyond the reach of a pointer. Fairness, weak, for
the loops of the listeners, the goroutine of each connection (it has a
deadline), the start-up goroutine and the process: the Go scheduler runs what
can run. Nothing makes a client come or go.

Proved (`ResolveProofs`), for any PIDs, connections and numbers of places:
`PlacesComeBack`, `SocketStaysOpen` (no answer finds the UDP socket closed before
a shutdown), `PidFileIsRight`, `StrangersAreSpared` and from these two
`StopIsRight`. The invariant counts the connections that hold a place (`ListenerInv`) and says that
without overlapping starts there is one process, and that the file has its PID
once it is written (`ProcessInv`). `Wire` is recursive and only model-checked.

## The dashboard: `Console` on `LiveData`

`h` is the request each goroutine of the HTTP server handles; login with its
limiter, change of password, the editor, the layout, the setup wizard and the
update are sequences of steps without a lock between them, down to the single
file operations of `writeFileAtomically`, each of which may fail. The process
may crash at any step and starts again from the file. `LiveData` is
`RecordQuery` of several goroutines: the ring buffer with a stream, the tracker
of the most frequent names, the time series with its rotation and snapshots.
Histories (`logged`, `asked`, `counted`) keep what the properties compare with.

| Run | Shows | Instance |
|---|---|---|
| `console` | `AttemptsBounded`; `SavedIsKept`: what was saved is in the file or its backup, and in memory; `PasswordOnlyByChange`; `ExecutableIsWhole`; of the live data `LogIsComplete`: the log and its stream; `CountsAreSound`: the most frequent names (`TopIsSound`) and the time series (`EveryQueryCounted`) | two goroutines of each kind, two passwords, a crash, with and without a file at the start, requests by scenario |

Each scenario of `MCBudgets` brings the requests together that touch the same
state: logins with the clock; changes of password with a save; save, layout and
change; two wizards; two layouts and a wizard with two crashes; two updates with two releases; queries with a stream; and
queries with snapshots. Properties that say "while no two writers overlap" name
the condition by `clean`: with overlapping writers they do not hold (see
below). `killed` and `torn` remember a crash with a write ahead and one inside
the wizard, which writes its sections in place: after the first the file may be
older than what was saved, and after the second the half-written file takes the
place of the backup at the next save. The bounds (ring of two, trackers of two
and one, two buckets) are such that everything goes round once.

Proved (`ConsoleProofs`), for any goroutines, passwords, edits, crashes and
failing file operations: `SavedConfigIsKept`, `PasswordChanges`
(`PasswordOnlyByChange`) and `ExecutableRuns` (`ExecutableIsWhole`); for any
capacity, recorders and backfill `QueryLogIsComplete` (`LogIsComplete`); and in
`LimiterProofs`, for any limits and pace of the clock, `LoginsAreBounded`
(`AttemptsBounded`). The
invariant for the file (`CleanInv`) says of the one writer there is, step by
step, where the configuration saved last is and what `s.config` has to do with
the file: before `unlink` the two agree, at `replace` there is no file and the
backup is what was saved, at `publish` the file is what is about to be in memory
(`WriterOK`). What an update has in hand is a whole published binary that is not
older than the process (`UpdateInv`). The limiter's invariant (`LimiterInv`) splits the attempts at one of
them. Without a lockout (`OpenAfter`) the limiter remembers all later ones that
are in the window, fewer than `MaxFailures`, and of the earlier ones at most as
many are in the window as there are other goroutines. In a lockout (`ShutAt`) the
attempt at the split armed it, whatever came later was let in before, and nobody
is let in until all up to the split are out of the window: the lockout is not
shorter than the window, nor is the time after which an idle entry is evicted
(`LimiterAssumption`; in login_limiter.go 60 s, 60 s and 15 minutes). The log's invariant places the j-th entry
logged at `Slot(j)` of the ring, however often the ring has gone round
(`RingInv`), and says that an entry is with the stream, dropped or in the hands
of its recorder (`StreamInv`). Assumed is that the capacity is positive, as
NewQueryLog makes it, and that passwords, edits and goroutines are what
`ConsoleAssumption` says.

## What is only model-checked

Liveness: `ExpiredGoesAway`, `EveryCallerReturns` (`Inflight`), `EveryCallReturns`
(`Resolve`), `CustomBlocksRestored`, `NobodyIsLeftWaiting`, `SigtermStops`,
`ValidatesInTheEnd`; fairness and ENABLED are beyond the prover. Safety:
- `CountsAreSound` (the most frequent names and the time series) compares sums
  over histories of any length; what a fold over such a history is takes
  induction over it, which the prover cannot do.
- `MessagesSurvive`: `Wire` computes by recursion.
- `HonestIsNeverBogus` for denials: that the records an authority sends are
  enough rests on the next name after a given one in a finite, ordered zone, whose
  existence takes induction over the zone. For answers it is proved.

For every property of a run a mutation of the code breaks it (`PROJECT.json`,
"mutants"); in all runs time, requests and failures are bounded by named
constants. Symmetry is used where only safety is checked: over the workers of
`handler`, the goroutines of `dnssec`, and workers, recorders and names of
`console`. Deadlock is not checked where the model may stop because a bound is
used up or because the environment has nothing more to do.

## Finding

`dnssec_nsec3`: validator.go:868-870 says that NSEC3 records are validated "to
prove the queried name does not exist or the type is absent."
`VerifyNSEC3DenialFull` (nsec3.go:293) accepts a denial only if a record covers
the hash of the name. The record that proves a type absent has that hash as its
owner and covers nothing, so an authority's own response is Bogus.

## Observations

Behaviour met while modelling. The models have it as the code has it; where a
property would be violated by it, the property states the weaker fact.

Cache and coalescing.
- Get deletes the key of an expired entry (cache.go:130) after it has let go of
  the read lock: an entry stored in between is lost.
- The sweeper removes expired entries also with serve-stale (eviction.go:30),
  which keeps them in Get (cache.go:126).
- Scoped entries whose scope differs from the source prefix are never found.

Blocklist.
- A custom block added while a refresh is between reading the custom rules and
  its swap is out of force until the next refresh (manager.go:300).

Resolution.
- After a secure hop, a SERVFAIL may be reported with status secure
  (resolver.go:960, against :944).
- A sibling name server is not tried when the first has no glue and its address
  cannot be found (resolver.go:861).
- No CNAME is synthesised after a DNAME (resolver.go:599); an NXDOMAIN with any
  SOA is taken (classify.go:41).
- fallback.go:43 says "Only accept successful responses (NOERROR or NXDOMAIN)";
  only SERVFAIL is refused.
- localzone.go:105 says a deny zone is to "silently discard"; the client gets
  REFUSED.
- DNS64 for a name in a forward or stub zone asks the root servers for its A
  records, and special-use names are not looked for in CNAME targets.
- RecordLame, IsLame, EnableCookies and RRL.StartCleanup are never called;
  FailCount is not reset by a success; revokedTokens is never filled.

Validation.
- A NODATA by wildcard or empty non-terminal with NSEC, and an NXDOMAIN with
  NSEC3 more than a label below its closest encloser, are Bogus.
- A chain through labels that are no zone cut is Insecure; denials are Secure
  without a walk of the trust chain; a denial of which some signatures could not
  be checked for want of keys is Bogus, not Indeterminate.

Requests.
- acl.go:17 says the rules of a zone are evaluated "instead of the" global
  lists; the global lists are applied first, and deny first.
- TC is also set over TCP (handler.go:986, 1030, 1090), and options are added
  after the truncation.
- Stale answers are not limited by RRL; glue the resolver caches is not
  filtered; prefetching never stores what it resolved; a bogus failure of a
  client with EDNS is not cached.

Process.
- A process started by `daemon start` writes its PID and exits; a second
  `-daemon` start overwrites the PID file before it fails to bind.
- SIGTERM before waitForShutdown leaves the PID file; `daemon status` does not
  verify the program; a PID may change hands between the check and the signal
  of `daemon stop`.
- handleDoT does not recover from panics itself. The UDP socket is closed at
  the start of the graceful period, so answers under way are lost. Serve
  returns no error before ctx is done, so the error exit of waitForShutdown is
  never taken.

Messages.
- The names in RRSIG, NSEC and DNAME data are compressed as well, although
  wire.go:227 says "Other types are written as raw bytes."; a SOA whose numbers
  are cut short is kept raw and has its names compressed by Pack, after which
  it cannot be read by itself.
- A label with a dot in it does not survive; the limit of 255 is applied to the
  text of a name, so names of up to 257 bytes pass.

Dashboard.
- writeFileAtomically renames the file to .bak and then the new one into place
  (api_config.go:423); a crash in between leaves no file, and the next start has
  no user, although auth.go:363 says the file is written "back atomically."
- A save or layout that overlaps a change of password can restore the old hash;
  after overlapping saves memory and file may differ.
- A crash in the middle of the wizard's write leaves a file without a user with
  which the wizard is not offered again.
- A crash in the wizard after an earlier one has left only the backup costs the
  backup too: the next save removes it and renames the half-written file over
  it (api_config.go:423).
- Overlapping updates may leave the older of two new releases; the version
  reported is that of the first fetch.
- A stream may miss entries logged between its backfill and Subscribe, or get
  them twice or out of order. Fallbacks counted in a second without queries are
  lost, and a snapshot with an older time can open a bucket out of order.
- Over a long run the tracker can drop a name that was asked most of the time.

## Not modelled

Partly: of the iterative resolver the nested resolution of a name server's
address (any address of the host is taken instead), root priming, client
subnets; of the start the construction of the parts, which is one step; of the
live data the numbers of the clients, the subscription messages of the
time-series socket and the pages that only read; of the messages the parsers of
single records and options (rdata.go, edns.go, ecs.go) and the buffer pool,
whose results the other models take as given; of the administration server the
endpoints that show or call what other modules model.

Not at all: the resolution trace (a diagnostic copy of the loop that stores
nothing), certificates (a wrapper of the ACME library), configuration (parsing
at start; its values are constants here), metrics and log (counters no decision
reads), the benchmark tool, the web pages, and the Windows files of the daemon.
