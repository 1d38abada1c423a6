------------------------------ MODULE Handler ------------------------------
(* MainHandler.Handle of package server: what one query goes through, several *)
(* of them at once, with the limiters, the access lists, the cache they share *)
(* and a configuration that can be changed while they run.                    *)
(*                                                                            *)
(* The cache is reduced to what Handle sees of it: an entry is fresh, expired *)
(* or gone (Cache has the rest).  The resolver may return any of Results.  A  *)
(* record is [type, data]; an ECS address is a pair of parts and a prefix     *)
(* length counts parts.                                                       *)
EXTENDS Limits, ACL, FiniteSets, FiniteSetsExt

CONSTANTS
    Workers,        \* goroutines of the listeners
    Queries,        \* the queries clients send
    Prefix,         \* client -> its network for RRL (sourcePrefix)
    Results,        \* what ResolveWithECS may return
    Blocked,        \* names for which Manager.IsBlocked holds
    BlockingMode,   \* Manager.BlockingMode
    NoCacheClients, \* noCacheNets
    LimiterOn, RRLOn,           \* limiter # nil, rrl # nil
    ServeStale,
    ReservedAddrs,  \* addresses for which IsReservedIP holds
    PrivateData,    \* record data for which IsReservedIP holds
    MaxPrefix,      \* ecsMaxPrefix
    RRSize,         \* record type -> octets
    AdvertisedSize, \* advertisedUDPBufferSize
    Glue,           \* what the resolver caches by itself: [name, type, answers]
    Configs         \* configurations the handler may be given: [filter, ecs]

VARIABLES
    req,            \* the call of Handle each worker is in
    cache,
    privateFilter, ecsEnabled,  \* fields of MainHandler set while queries run
    everOff         \* history: the filter was off at some time

hvars == <<req, cache, privateFilter, ecsEnabled, everOff>>
vars == <<limits, hvars>>

-----------------------------------------------------------------------------
(* EDNS Client Subnet.                                                        *)

TruncateIP(a, n) == [i \in DOMAIN a |-> IF i <= n THEN a[i] ELSE 0]

\* The key of every client, "" in the code.
Global == << >>
CacheKey(e) == IF e = None \/ e.len = 0 THEN Global ELSE <<TruncateIP(e.addr, e.len), e.len>>

\* The option sent upstream: the client's, shortened; none if it says nothing.
buildOutboundECS(q) ==
    IF ~ecsEnabled \/ ~q.edns \/ q.ecs = None THEN None
    ELSE IF q.ecs.len = 0 THEN q.ecs
    ELSE IF q.ecs.addr \in ReservedAddrs THEN None
    ELSE LET n == IF q.ecs.len > MaxPrefix THEN MaxPrefix ELSE q.ecs.len
         IN  [addr |-> TruncateIP(q.ecs.addr, n), len |-> n]

\* An answer for some networks only goes under the global key.
chooseCacheECSKey_Global(out, scope) == Global

chooseCacheECSKey(out, scope) ==
    IF out = None \/ scope \in {None, 0} THEN Global
    ELSE CacheKey([addr |-> TruncateIP(out.addr, scope), len |-> scope])

\* The networks an answer given for out with this scope is meant for.
Scope(out, scope) ==
    IF out = None \/ scope \in {None, 0} THEN None
    ELSE [addr |-> TruncateIP(out.addr, scope), len |-> scope]

-----------------------------------------------------------------------------
(* Responses.                                                                 *)

isPrivateAddressRecord(rr) == rr.type \in {"A", "AAAA"} /\ rr.data \in PrivateData

FilterPrivateAddresses(rrs) == {rr \in rrs : ~isPrivateAddressRecord(rr)}

isDNSSECRRType(t) == t \in {"RRSIG", "DNSKEY", "DS", "NSEC", "NSEC3", "NSEC3PARAM"}

stripDNSSECRRs(rrs, qtype) == {rr \in rrs : ~isDNSSECRRType(rr.type) \/ rr.type = qtype}

\* 512 octets, or what the client takes, but no more than the server's ceiling.
maxSize(q) ==
    LET asked == IF q.edns /\ q.udpSize >= 512 THEN q.udpSize ELSE 512
    IN  IF asked > AdvertisedSize THEN AdvertisedSize ELSE asked

Size(rrs) == MapThenSumSet(LAMBDA rr : RRSize[rr.type], rrs)

\* A response too large goes out empty, with TC set.
maybeTruncateUDP(q, r) ==
    IF Size(r.answers) <= maxSize(q) THEN r ELSE [r EXCEPT !.answers = {}, !.tc = TRUE]

\* A response without records.
buildError(rcode) ==
    [from |-> "error", rcode |-> rcode, answers |-> {}, ad |-> FALSE, tc |-> FALSE,
     verdict |-> None, for |-> None]
buildBadVersResponse == buildError("BADVERS")
buildErrorWithEDE(rcode) == buildError(rcode)

\* What buildResponse and buildCacheResponse make of records with a status.
Assemble(q, from, e) ==
    maybeTruncateUDP(q,
        [from |-> from, rcode |-> e.rcode,
         answers |-> IF q.edns /\ q.do THEN e.answers ELSE stripDNSSECRRs(e.answers, q.type),
         ad |-> e.status = "secure" /\ ~q.cd, tc |-> FALSE, verdict |-> e.verdict, for |-> e.for])

buildCacheResponse(q, e) == Assemble(q, "cache", e)

buildResponse(q, e) ==
    Assemble(q, "resolver",
             [e EXCEPT !.answers = IF privateFilter THEN FilterPrivateAddresses(@) ELSE @])

buildBlockedResponse(q) ==
    [buildError(IF BlockingMode = "null_ip" \/ (BlockingMode = "custom_ip" /\ q.type = "A")
                THEN "NOERROR" ELSE "NXDOMAIN") EXCEPT
        !.from = "blocklist",
        !.answers = IF \/ BlockingMode = "null_ip" /\ q.type \in {"A", "AAAA"}
                       \/ BlockingMode = "custom_ip" /\ q.type = "A"
                    THEN {[type |-> q.type, data |-> BlockingMode]} ELSE {}]

buildMinimalANYResponse(q) ==
    maybeTruncateUDP(q, [buildError("NOERROR") EXCEPT !.from = "any",
                            !.answers = {[type |-> "HINFO", data |-> "RFC8482"]}])

buildSlipResponse == [buildError("NOERROR") EXCEPT !.from = "slip", !.tc = TRUE]

-----------------------------------------------------------------------------
(* One call of Handle.                                                        *)

Idle == [pc |-> "idle", q |-> None, out |-> None, got |-> None, resp |-> None]

Goto(w, pc) == req' = [req EXCEPT ![w].pc = pc]
Got(w, pc, e) == req' = [req EXCEPT ![w].pc = pc, ![w].got = e]
Send(w, r) == req' = [req EXCEPT ![w].pc = "sent", ![w].got = None, ![w].resp = r]
Reject(w, q, r) == req' = [req EXCEPT ![w] = [Idle EXCEPT !.pc = "sent", !.q = q, !.resp = r]]

bypassCache(q) == q.client \in NoCacheClients

\* The checks between the rate limiter and the cache, in their order; q.defect
\* is the first thing wrong with the message, if any.
Screen(w, q) ==
    \/ q.defect = "response" /\ Reject(w, q, None)
    \/ q.defect \in {"FORMERR", "NOTIMP"} /\ Reject(w, q, buildError(q.defect))
    \/ q.defect = "BADVERS" /\ Reject(w, q, buildBadVersResponse)
    \/ /\ q.defect = None
       /\ \/ ~CheckWithZone(q.client, q.name) /\ Reject(w, q, buildError("REFUSED"))
          \/ /\ CheckWithZone(q.client, q.name)
             /\ \/ q.name \in Blocked /\ Reject(w, q, buildBlockedResponse(q))
                \/ /\ q.name \notin Blocked
                   /\ \/ q.type = "ANY" /\ Reject(w, q, buildMinimalANYResponse(q))
                      \/ /\ q.type # "ANY"
                         /\ req' = [req EXCEPT ![w] =
                                [Idle EXCEPT !.pc = IF bypassCache(q) THEN "resolve" ELSE "lookup",
                                             !.q = q, !.out = buildOutboundECS(q)]]

\* The start of Handle: the global list, the rate limiter, the message.
Receive(w, q) ==
    /\ req[w].pc = "idle"
    /\ \/ ~Check(q.client) /\ Reject(w, q, buildError("REFUSED")) /\ UNCHANGED limits
       \/ Check(q.client) /\ LimiterOn /\ Allow(q.client, FALSE) /\ Reject(w, q, buildError("REFUSED"))
       \/ Check(q.client) /\ LimiterOn /\ Allow(q.client, TRUE) /\ Screen(w, q)
       \/ Check(q.client) /\ ~LimiterOn /\ UNCHANGED limits /\ Screen(w, q)
    /\ UNCHANGED <<cache, privateFilter, ecsEnabled, everOff>>

Key(q, ecsKey) == <<q.name, q.type, ecsKey>>
Fresh(k) == cache[k] # None /\ cache[k].fresh

\* Cache.Get: an expired entry goes unless it may be served stale.
CacheGet(k) ==
    cache' = IF cache[k] # None /\ ~cache[k].fresh /\ ~ServeStale
             THEN [cache EXCEPT ![k] = None] ELSE cache

Lookup(w) ==
    LET r == req[w]
        k == Key(r.q, Global) IN
    /\ r.pc = "lookup"
    /\ IF Fresh(k) THEN Got(w, "hit", cache[k])
       ELSE Goto(w, IF r.out # None THEN "lookupECS" ELSE "resolve")
    /\ CacheGet(k)
    /\ UNCHANGED <<limits, privateFilter, ecsEnabled, everOff>>

\* Cache.GetWithECS under the client's own prefix.
LookupECS(w) ==
    LET r == req[w]
        k == Key(r.q, CacheKey(r.out)) IN
    /\ r.pc = "lookupECS"
    /\ IF Fresh(k) THEN Got(w, "hit", cache[k]) ELSE Goto(w, "resolve")
    /\ IF CacheKey(r.out) = Global THEN CacheGet(k) ELSE UNCHANGED cache
    /\ UNCHANGED <<limits, privateFilter, ecsEnabled, everOff>>

\* What responses are counted under.
rrlKey(q, rcode) == <<Prefix[q.client], q.name, rcode>>

\* The response goes out, goes out empty with TC, or does not go out.
Gate(w, r, rcode) ==
    \E act \in {"allow", "drop", "slip"} :
        /\ IF RRLOn THEN AllowResponse(rrlKey(req[w].q, rcode), act)
           ELSE act = "allow" /\ UNCHANGED limits
        /\ Send(w, IF act = "allow" THEN r ELSE IF act = "drop" THEN None ELSE buildSlipResponse)

Hit(w) ==
    /\ req[w].pc = "hit"
    /\ Gate(w, buildCacheResponse(req[w].q, req[w].got), req[w].got.rcode)
    /\ UNCHANGED <<cache, privateFilter, ecsEnabled, everOff>>

resolveOK(r) == ~r.err /\ r.rcode # "SERVFAIL"

\* Resolver.ResolveWithECS returns.
Resolve(w, r) ==
    /\ req[w].pc = "resolve"
    /\ Got(w, IF resolveOK(r) THEN "store" ELSE "failed",
           [rcode |-> r.rcode, answers |-> r.answers, status |-> r.status, err |-> r.err,
            verdict |-> r.status, scope |-> r.scope, for |-> Scope(req[w].out, r.scope)])
    /\ UNCHANGED <<limits, cache, privateFilter, ecsEnabled, everOff>>

\* The stale entry keeps the verdict it was stored with.
GetStale_Status(k) ==
    IF ServeStale /\ cache[k] # None /\ ~cache[k].fresh THEN {cache[k]} ELSE {}

\* Cache.GetStale: an entry that has expired, without its DNSSEC verdict.
GetStale(k) ==
    IF ServeStale /\ cache[k] # None /\ ~cache[k].fresh
    THEN {[cache[k] EXCEPT !.status = ""]} ELSE {}

\* After a failure: the expired entry, or the error, or on with the result.
Failed(w) ==
    LET r == req[w]
        stale == GetStale(Key(r.q, Global)) IN
    /\ r.pc = "failed"
    /\ IF stale # {}
       THEN \E e \in stale : Send(w, [buildCacheResponse(r.q, e) EXCEPT !.from = "stale"])
       ELSE IF r.got.status = "bogus" /\ r.q.edns THEN Send(w, buildErrorWithEDE("SERVFAIL"))
       ELSE Goto(w, IF r.got.err THEN "error" ELSE "store")
    /\ UNCHANGED <<limits, cache, privateFilter, ecsEnabled, everOff>>

Entry(e) == [rcode |-> e.rcode, answers |-> e.answers, status |-> e.status,
             verdict |-> e.verdict, for |-> e.for, fresh |-> TRUE]
Negative(e) == Entry([e EXCEPT !.answers = {}, !.status = ""])

\* StoreFailure, then SERVFAIL.
Error(w) ==
    LET r == req[w] IN
    /\ r.pc = "error"
    /\ cache' = IF bypassCache(r.q) THEN cache
                ELSE [cache EXCEPT ![Key(r.q, Global)] = Negative(r.got)]
    /\ Send(w, IF r.q.edns THEN buildErrorWithEDE("SERVFAIL") ELSE buildError("SERVFAIL"))
    /\ UNCHANGED <<limits, privateFilter, ecsEnabled, everOff>>

\* The filter is left to buildResponse.
Store_Unfiltered(w) ==
    LET r == req[w]
        k == Key(r.q, chooseCacheECSKey(r.out, r.got.scope)) IN
    /\ r.pc = "store"
    /\ cache' = IF bypassCache(r.q) \/ r.got.rcode = "REFUSED" THEN cache
                ELSE IF r.got.rcode = "NOERROR" /\ r.got.answers # {}
                THEN [cache EXCEPT ![k] = Entry(r.got)]
                ELSE [cache EXCEPT ![Key(r.q, Global)] = Negative(r.got)]
    /\ Goto(w, "respond")
    /\ UNCHANGED <<limits, privateFilter, ecsEnabled, everOff>>

\* Step 5 of Handle: answers, filtered, under their scope; everything negative
\* and every failure under the global key; other response codes nowhere.
Store(w) ==
    LET r == req[w]
        k == Key(r.q, chooseCacheECSKey(r.out, r.got.scope))
        kept == IF privateFilter THEN FilterPrivateAddresses(r.got.answers) ELSE r.got.answers IN
    /\ r.pc = "store"
    /\ cache' = IF bypassCache(r.q) \/ r.got.rcode \notin {"NOERROR", "NXDOMAIN", "SERVFAIL"} THEN cache
                ELSE IF r.got.rcode = "NOERROR" /\ r.got.answers # {}
                THEN [cache EXCEPT ![k] = Entry([r.got EXCEPT !.answers = kept])]
                ELSE [cache EXCEPT ![Key(r.q, Global)] = Negative(r.got)]
    /\ Goto(w, "respond")
    /\ UNCHANGED <<limits, privateFilter, ecsEnabled, everOff>>

Respond(w) ==
    /\ req[w].pc = "respond"
    /\ Gate(w, buildResponse(req[w].q, req[w].got), req[w].got.rcode)
    /\ UNCHANGED <<cache, privateFilter, ecsEnabled, everOff>>

\* With the response the client's bucket is given up.
Done_Forgets(w) ==
    /\ req[w].pc = "sent"
    /\ req' = [req EXCEPT ![w] = Idle]
    /\ clients' = [clients EXCEPT ![req[w].q.client] = None]
    /\ UNCHANGED <<now, entries, since, admitted, responded, droppedInARow, cache, privateFilter, ecsEnabled, everOff>>

\* The listener has written the response, if any.
Done(w) == /\ req[w].pc = "sent"
           /\ req' = [req EXCEPT ![w] = Idle]
           /\ UNCHANGED <<limits, cache, privateFilter, ecsEnabled, everOff>>

-----------------------------------------------------------------------------
(* What happens around it.                                                    *)

Scopes == {r.scope : r \in Results} \ {None}

\* An upstream's scope may be longer than the prefix it was sent.
ECSKeys ==
    {CacheKey([addr |-> TruncateIP(TruncateIP(q.ecs.addr, m), n), len |-> n]) :
        q \in {p \in Queries : p.ecs # None}, m \in 0 .. MaxPrefix, n \in 0 .. MaxPrefix \cup Scopes}
    \cup {Global}
CacheKeys == {Key(q, e) : q \in Queries, e \in ECSKeys}

\* Time passes an entry's TTL.
Expire(k) == /\ Fresh(k)
             /\ cache' = [cache EXCEPT ![k].fresh = FALSE]
             /\ UNCHANGED <<limits, req, privateFilter, ecsEnabled, everOff>>

\* The sweeper, the size limit, a flush or a deletion takes an entry.
Evict(k) == /\ cache[k] # None
            /\ cache' = [cache EXCEPT ![k] = None]
            /\ UNCHANGED <<limits, req, privateFilter, ecsEnabled, everOff>>

\* A resolution, prefetch included, caches glue as it came, or that there is none.
ResolverStore(g) ==
    /\ cache' = [cache EXCEPT ![Key(g, Global)] =
           [rcode |-> "NOERROR", answers |-> g.answers, status |-> "", verdict |-> "glue",
            for |-> None, fresh |-> TRUE]]
    /\ UNCHANGED <<limits, req, privateFilter, ecsEnabled, everOff>>

\* The dashboard applies a changed configuration to the running handler.
ApplyConfig(c) ==
    /\ privateFilter' = c.filter /\ ecsEnabled' = c.ecs
    /\ everOff' = (everOff \/ ~c.filter)
    /\ UNCHANGED <<limits, req, cache>>

Init == /\ LimitsInit
        /\ req = [w \in Workers |-> Idle]
        /\ cache = [k \in CacheKeys |-> None]
        /\ \E c \in Configs : privateFilter = c.filter /\ ecsEnabled = c.ecs
        /\ everOff = ~privateFilter

Handle(w) == \/ \E q \in Queries : Receive(w, q)
             \/ Lookup(w) \/ LookupECS(w) \/ Hit(w)
             \/ \E r \in Results : Resolve(w, r)
             \/ Failed(w) \/ Error(w) \/ Store(w) \/ Respond(w) \/ Done(w)

Around == \/ \E k \in CacheKeys : Expire(k) \/ Evict(k)
          \/ \E g \in Glue : ResolverStore(g)
          \/ \E c \in Configs : ApplyConfig(c)
          \/ (StartCleanup \/ Tick \/ Observe) /\ UNCHANGED hvars

Next == (\E w \in Workers : Handle(w)) \/ Around

Spec == Init /\ [][Next]_vars

\* What the parser and the configuration make sure of, and what RRL counts apart.
ASSUME InputAssumption ==
    /\ \A q \in Queries : q.client \in Clients /\ (q.ecs # None => q.ecs.len \in Nat)
    /\ MaxPrefix \in Nat
    /\ Configs \subseteq [filter : BOOLEAN, ecs : BOOLEAN]
ASSUME KeysAssumption ==
    RRLOn => \A q \in Queries, rc \in {r.rcode : r \in Results} \cup {"NOERROR"} : rrlKey(q, rc) \in Keys

-----------------------------------------------------------------------------
(* Properties.                                                                *)

PCs == {"idle", "lookup", "lookupECS", "hit", "resolve", "failed", "error", "store", "respond", "sent"}

\* The response worker w has ready, with the call it belongs to, has records.
Answers(w) == req[w].pc = "sent" /\ req[w].resp # None /\ req[w].resp.answers # {}
FromData(w) == Answers(w) /\ req[w].resp.from \in {"cache", "stale", "resolver"}

\* chooseCacheECSKey, CacheKey, GetStale: records an authority gave for one
\* network only reach clients of that network, from the cache or not, whatever
\* is stored, expires or is reconfigured meanwhile.
AnswersInScope ==
    \A w \in Workers : FromData(w) /\ req[w].resp.for # None =>
        /\ req[w].out # None
        /\ TruncateIP(req[w].out.addr, req[w].resp.for.len) = req[w].resp.for.addr

\* buildCacheResponse, buildResponse, GetStale: a response has AD only if the
\* resolution its records come from found them secure, they have not expired
\* and the client asked for the check.
AuthenticDataIsValidated ==
    \A w \in Workers : req[w].pc = "sent" /\ req[w].resp # None /\ req[w].resp.ad =>
        req[w].resp.verdict = "secure" /\ req[w].resp.from # "stale" /\ ~req[w].q.cd

\* "Filtering at the write site": as long as the filter has been on, no
\* resolution's private addresses are given to a client, stored and stale ones
\* included.  (Glue the resolver caches by itself is not filtered.)
PrivateStaysOut ==
    ~everOff => \A w \in Workers : FromData(w) /\ req[w].resp.verdict # "glue" =>
        \A rr \in req[w].resp.answers : ~isPrivateAddressRecord(rr)

\* The rules of the most specific zone decide on top of the global ones.
Permitted(c, n) ==
    /\ c \notin GlobalACL.deny /\ (GlobalACL.allow = {} \/ c \in GlobalACL.allow)
    /\ \A za \in ZoneACLs :
          inZoneOrEqual(n, za.zone)
          /\ (\A zb \in ZoneACLs : inZoneOrEqual(n, zb.zone) => Len(zb.zone) <= Len(za.zone))
          => c \notin za.deny /\ (za.allow = {} \/ c \in za.allow)

\* Check, CheckWithZone, IsBlocked: records from the cache or the resolver only
\* go to clients the lists permit, and never for a name that is blocked.
OnlyPermittedAnswers ==
    \A w \in Workers : FromData(w) => Permitted(req[w].q.client, req[w].q.name) /\ req[w].q.name \notin Blocked
=============================================================================
