------------------------------- MODULE Resolve -------------------------------
(* ResolveWithECS of package resolver: local zones, special-use names, forward *)
(* and stub zones, iteration over a zone's servers, DNS64 and the fallback     *)
(* resolver, down to the exchanges of upstream.go and forward.go with their    *)
(* retries.                                                                    *)
(*                                                                             *)
(* Names are sequences of labels.  The iteration stays at one zone, whose      *)
(* servers are chosen by the InfraCache; the way down the referrals is module  *)
(* Iterative's, the validator is its verdict.                                  *)
EXTENDS Integers, Sequences, FiniteSets

CONSTANTS
    Queries,            \* [name, type, class] asked
    LocalZones,         \* records [name, type, records]; records: {<<name, type>>}
    SpecialUse,         \* onion, invalid, test, example, local, home.arpa
    ForwardZones,       \* records [name, addrs, stub]; addrs: a sequence
    RootServers,        \* the servers an iteration starts from
    FallbackResolvers,
    Replies,            \* [match, tc, rcode, answers, ad] a server may send
    RTT,                \* the round-trip time of a server
    UpstreamRetries,
    DNS64Enabled,
    DNSSECEnabled,
    MaxFails,           \* bound on FailCount
    None

ASSUME RetryAssumption == UpstreamRetries \in Nat
\* parseZoneAddrs leaves out a zone without addresses.
Elements(s) == {s[i] : i \in DOMAIN s}
ASSUME AddressAssumption ==
    \A s \in {RootServers} \cup {z.addrs : z \in ForwardZones} : s # << >> /\ s \in Seq(Elements(s))
\* A zone is configured once in its table.
ASSUME ZoneAssumption ==
    /\ \A z \in LocalZones \cup ForwardZones : z.name \in Seq(STRING)
    /\ \A y, z \in LocalZones : y.name = z.name => y = z
    /\ \A z \in LocalZones : z.type \in {"static", "deny", "refuse", "redirect", "transparent"}
    /\ \A y, z \in ForwardZones : y.name = z.name => y = z
    /\ SpecialUse \subseteq Seq(STRING) /\ \A q \in Queries : q.name \in Seq(STRING)
ASSUME ReplyAssumption == Replies \subseteq [match : BOOLEAN, tc : BOOLEAN, rcode : STRING, answers : BOOLEAN, ad : BOOLEAN]

VARIABLES
    call,       \* the call of ResolveWithECS under way
    infra,      \* InfraCache: [rtt, fails] per server, or None
    asked,      \* every [server, name, type, job] a query was sent for in this call
    sends       \* number of exchanges of this call

vars == <<call, infra, asked, sends>>

InZone(n, z) == Len(z) <= Len(n) /\ SubSeq(n, Len(n) - Len(z) + 1, Len(n)) = z
HasSuffix(n, zone) == zone # << >> /\ InZone(n, zone)
Within(n, z) == n = z \/ HasSuffix(n, z)
Result(rcode, answers, status, err) == [rcode |-> rcode, answers |-> answers, status |-> status, err |-> err]
NoResult == Result("", FALSE, "", TRUE)

-----------------------------------------------------------------------------
(* Answers that need no server.                                               *)

\* The most specific zone the name is in.
findZone(n) ==
    CHOOSE z \in LocalZones : Within(n, z.name) /\ \A y \in LocalZones : Within(n, y.name) => Len(y.name) <= Len(z.name)

\* Lookup: the set of results, empty when resolution goes on.
LocalLookup(q) ==
    IF q.class # "IN" \/ \A z \in LocalZones : ~Within(q.name, z.name) THEN {}
    ELSE LET z == findZone(q.name)
             found == <<q.name, q.type>> \in z.records
             some == \E r \in z.records : r[1] = q.name
             typed == \E r \in z.records : r[2] = q.type
         IN  CASE z.type = "static" -> {Result(IF found \/ some THEN "NOERROR" ELSE "NXDOMAIN", found, "", FALSE)}
               [] z.type = "deny" -> {Result("REFUSED", FALSE, "local-deny", FALSE)}
               [] z.type = "refuse" -> {Result("REFUSED", FALSE, "", FALSE)}
               [] z.type = "redirect" -> {Result("NOERROR", typed, "", FALSE)}
               [] z.type = "transparent" -> IF found THEN {Result("NOERROR", TRUE, "", FALSE)} ELSE {}

\* The names below example.com and its like are not special.
specialUseResponse(n) == n # << >> /\ \E s \in SpecialUse : HasSuffix(n, s)

\* The forward zone with the longest name.
Match(n) ==
    LET in == {z \in ForwardZones : Within(n, z.name)}
    IN  {z \in in : \A y \in in : Len(y.name) <= Len(z.name)}

-----------------------------------------------------------------------------
(* One call.  job: what its exchanges are for; "forward", "servers" (iteration *)
(* from the roots or a stub zone), "a64" (the A query of DNS64) or "fallback".  *)

Idle ==
    [pc |-> "idle", q |-> None, job |-> "", todo |-> << >>, server |-> None, attempt |-> 0, edns |-> TRUE,
     reply |-> None, tcp |-> FALSE, result |-> NoResult, verdict |-> ""]
Blank(c) == [c EXCEPT !.server = None, !.attempt = 0, !.edns = TRUE, !.reply = None, !.tcp = FALSE]
Answered(c, r) == [Blank(c) EXCEPT !.pc = "done", !.result = r, !.todo = << >>]
Start(c, job, servers) == [Blank(c) EXCEPT !.pc = "next", !.job = job, !.todo = servers]

Unasked == UNCHANGED <<asked, sends>>

\* The special-use names come after forward zones.
Route_ForwardFirst(q) ==
    LET c == [Idle EXCEPT !.q = q]
    IN  call' = IF LocalLookup(q) # {} THEN Answered(c, CHOOSE r \in LocalLookup(q) : TRUE)
                ELSE IF Match(q.name) # {}
                THEN LET z == CHOOSE z \in Match(q.name) : TRUE
                     IN  Start(c, IF z.stub THEN "servers" ELSE "forward", z.addrs)
                ELSE IF specialUseResponse(q.name) THEN Answered(c, Result("NXDOMAIN", FALSE, "", FALSE))
                ELSE Start(c, "servers", RootServers)

\* The route a query takes.
Route(q) ==
    LET c == [Idle EXCEPT !.q = q]
    IN  call' = IF LocalLookup(q) # {} THEN Answered(c, CHOOSE r \in LocalLookup(q) : TRUE)
                ELSE IF specialUseResponse(q.name) THEN Answered(c, Result("NXDOMAIN", FALSE, "", FALSE))
                ELSE IF Match(q.name) # {}
                THEN LET z == CHOOSE z \in Match(q.name) : TRUE
                     IN  Start(c, IF z.stub THEN "servers" ELSE "forward", z.addrs)
                ELSE Start(c, "servers", RootServers)

ResolveWithECS(q) ==
    /\ call.pc \in {"idle", "done"}
    /\ Route(q)
    /\ asked' = {} /\ sends' = 0
    /\ UNCHANGED infra

-----------------------------------------------------------------------------
(* InfraCache.                                                                *)

DefaultRTT == 100
FailPenalty == 500
effectiveRTT(s) ==
    IF infra[s] = None THEN DefaultRTT
    ELSE (IF infra[s].rtt = 0 THEN DefaultRTT ELSE infra[s].rtt) + infra[s].fails * FailPenalty

getOrCreate(s) == IF infra[s] = None THEN [rtt |-> 0, fails |-> 0] ELSE infra[s]
RecordRTT(s, rtt) ==
    infra' = [infra EXCEPT ![s] = [getOrCreate(s) EXCEPT !.rtt = IF @ = 0 THEN rtt ELSE (7 * @ + 3 * rtt) \div 10]]
RecordFailure(s) ==
    infra' = [infra EXCEPT ![s] = [getOrCreate(s) EXCEPT !.fails = IF @ < MaxFails THEN @ + 1 ELSE @]]

\* Other resolutions share the cache, and the cleanup forgets idle servers.
Elsewhere(s) == (RecordRTT(s, RTT[s]) \/ RecordFailure(s)) /\ UNCHANGED <<call, asked, sends>>
CleanStale(s) == infra[s] # None /\ infra' = [infra EXCEPT ![s] = None] /\ UNCHANGED <<call, asked, sends>>

\* SortByRTT: the first of the servers with the least effective RTT.
Ranked(servers) ==
    CHOOSE i \in DOMAIN servers :
        \A j \in DOMAIN servers : \/ effectiveRTT(servers[i]) < effectiveRTT(servers[j])
                                  \/ effectiveRTT(servers[i]) = effectiveRTT(servers[j]) /\ i <= j
Without(servers, i) == [j \in 1 .. Len(servers) - 1 |-> servers[IF j < i THEN j ELSE j + 1]]

-----------------------------------------------------------------------------
(* The exchanges.                                                             *)

QType(c) == IF c.job = "a64" THEN "A" ELSE c.q.type
Ask(c, s) ==
    /\ call' = c
    /\ asked' = asked \cup {[server |-> s, name |-> c.q.name, type |-> QType(c), job |-> c.job]}
    /\ sends' = sends + 1
    /\ UNCHANGED infra

\* The next server: in the order given for a forward zone and the fallback, by
\* round-trip time for an iteration.
NextServer ==
    /\ call.pc = "next"
    /\ LET i == IF call.job \in {"servers", "a64"} THEN Ranked(call.todo) ELSE 1
       IN  Ask([call EXCEPT !.pc = "udp", !.server = call.todo[i], !.todo = Without(@, i), !.attempt = 1,
                            !.edns = TRUE, !.tcp = FALSE], call.todo[i])

\* One attempt too many.
Retries_OneMore == 1 + IF call.job = "fallback" \/ UpstreamRetries < 1 THEN 1 ELSE UpstreamRetries

Retries == IF call.job = "fallback" \/ UpstreamRetries < 1 THEN 1 ELSE UpstreamRetries
Waiting == call.pc \in {"udp", "tcp"}

\* Nothing arrives in time, or what arrives answers another question: the
\* attempt is over.
Failed ==
    IF call.attempt < Retries
    THEN Ask([call EXCEPT !.pc = "udp", !.attempt = @ + 1, !.edns = TRUE, !.tcp = FALSE], call.server)
    ELSE call' = [call EXCEPT !.pc = "gaveup", !.attempt = 0, !.edns = TRUE, !.tcp = FALSE] /\ UNCHANGED infra /\ Unasked

\* The last attempt has no deadline.
Timeout_NotLast == Waiting /\ call.attempt < Retries /\ Failed

Timeout == Waiting /\ Failed
Mismatch(m) == Waiting /\ ~m.match /\ Failed

\* The reply over TCP is not compared with the question.
Truncated_Unchecked(m) ==
    /\ call.pc = "udp" /\ m.match /\ m.tc
    /\ \E r \in Replies : call' = [call EXCEPT !.pc = "got", !.reply = r, !.tcp = TRUE]
    /\ Unasked /\ UNCHANGED infra

\* A truncated reply over UDP: ask again over TCP.
Truncated(m) ==
    /\ call.pc = "udp" /\ m.match /\ m.tc
    /\ Ask([call EXCEPT !.pc = "tcp", !.tcp = TRUE], call.server)

\* A reply.  A forwarder that answers FORMERR is asked again without EDNS0.
Reply(m) ==
    /\ Waiting /\ m.match /\ (call.pc = "udp" => ~m.tc)
    /\ IF call.job \in {"forward", "fallback"} /\ m.rcode = "FORMERR" /\ call.edns
       THEN Ask([call EXCEPT !.pc = "udp", !.edns = FALSE, !.tcp = FALSE], call.server)
       ELSE call' = [call EXCEPT !.pc = "got", !.reply = m] /\ UNCHANGED infra /\ Unasked

-----------------------------------------------------------------------------
(* What becomes of a reply.                                                   *)

Secure(m) == IF DNSSECEnabled /\ m.ad THEN "secure" ELSE ""

\* queryForwardECS: the first address that answers decides.
Forwarded ==
    /\ call.job = "forward"
    /\ \/ /\ call.pc = "got"
          /\ call' = [Blank(call) EXCEPT !.pc = "post", !.todo = << >>,
                                  !.result = Result(call.reply.rcode, call.reply.answers, Secure(call.reply), FALSE)]
       \/ /\ call.pc = "gaveup"
          /\ call' = IF call.todo = << >> THEN [Blank(call) EXCEPT !.pc = "post", !.result = Result("", FALSE, "", TRUE)]
                     ELSE [Blank(call) EXCEPT !.pc = "next"]
    /\ Unasked /\ UNCHANGED infra

\* A server of the iteration has answered: an answer or a denial is validated,
\* any other reply makes it one server less.
Verdicts == IF DNSSECEnabled THEN {"secure", "insecure", "bogus"} ELSE {""}
Finish(c, r) ==
    IF c.job = "servers" THEN [Blank(c) EXCEPT !.pc = "post", !.todo = << >>, !.result = r]
    ELSE Answered(c, IF ~r.err /\ r.rcode = "NOERROR" /\ r.answers THEN Result("NOERROR", TRUE, "", FALSE) ELSE c.result)
Classified ==
    /\ call.pc = "got" /\ call.job \in {"servers", "a64"}
    /\ RecordRTT(call.server, RTT[call.server])
    /\ IF call.reply.rcode \in {"NOERROR", "NXDOMAIN"}
       THEN \E v \in Verdicts :
              call' = [Finish(call, IF v = "bogus" THEN Result("SERVFAIL", FALSE, "bogus", FALSE)
                                    ELSE Result(call.reply.rcode, call.reply.answers, v, FALSE))
                         EXCEPT !.verdict = IF call.job = "servers" THEN v ELSE @]
       ELSE call' = IF call.todo = << >> THEN Finish(call, Result("SERVFAIL", FALSE, "", FALSE))
                    ELSE [Blank(call) EXCEPT !.pc = "next"]
    /\ Unasked

GaveUp ==
    /\ call.pc = "gaveup" /\ call.job \in {"servers", "a64"}
    /\ RecordFailure(call.server)
    /\ call' = IF call.todo = << >> THEN Finish(call, Result("SERVFAIL", FALSE, "", TRUE))
               ELSE [Blank(call) EXCEPT !.pc = "next"]
    /\ Unasked

-----------------------------------------------------------------------------
(* After the primary resolution.                                              *)

dns64 == DNS64Enabled /\ call.q.type = "AAAA" /\ ~call.result.err /\ call.result.rcode = "NOERROR" /\ ~call.result.answers

shouldFallback(r) == r.err \/ (r.rcode = "SERVFAIL" /\ r.status # "bogus")

Post ==
    /\ call.pc = "post"
    /\ \/ dns64 /\ call' = Start(call, "a64", RootServers)
       \/ /\ ~dns64 /\ shouldFallback(call.result) /\ FallbackResolvers # {}
          /\ \E s \in FallbackResolvers : call' = Start(call, "fallback", <<s>>)
       \/ /\ ~dns64 /\ ~(shouldFallback(call.result) /\ FallbackResolvers # {})
          /\ call' = Answered(call, call.result)
    /\ Unasked /\ UNCHANGED infra

\* queryFallback: one resolver, once; its SERVFAIL leaves the first result.
Fallback ==
    /\ call.job = "fallback"
    /\ \/ call.pc = "gaveup" /\ call' = Answered(call, call.result)
       \/ /\ call.pc = "got"
          /\ call' = Answered(call, IF call.reply.rcode = "SERVFAIL" THEN call.result
                                    ELSE Result(call.reply.rcode, call.reply.answers, Secure(call.reply), FALSE))
    /\ Unasked /\ UNCHANGED infra

\* The servers the InfraCache ranks: forwarders and fallbacks are not recorded.
Servers == Elements(RootServers) \cup UNION {Elements(z.addrs) : z \in {y \in ForwardZones : y.stub}}
ASSUME InfraAssumption == MaxFails \in Nat /\ \A s \in Servers : RTT[s] \in Nat

Init ==
    /\ call = Idle
    /\ infra = [s \in Servers |-> None]
    /\ asked = {} /\ sends = 0

Next ==
    \/ \E q \in Queries : ResolveWithECS(q)
    \/ NextServer \/ Timeout
    \/ \E m \in Replies : Mismatch(m) \/ Truncated(m) \/ Reply(m)
    \/ Forwarded \/ Classified \/ GaveUp \/ Post \/ Fallback
    \/ \E s \in Servers : Elsewhere(s) \/ CleanStale(s)

Spec == Init /\ [][Next]_vars
FairSpec == Spec /\ WF_vars(NextServer \/ Timeout \/ Forwarded \/ Classified \/ GaveUp \/ Post \/ Fallback)

-----------------------------------------------------------------------------
(* Properties.                                                                *)

\* A reply is only used when it has the transaction ID and the question asked,
\* and in full: what came truncated over UDP was fetched over TCP (sendQuery,
\* sendQueryWithRDECS).
RepliesMatch == call.pc = "got" => call.reply.match /\ (call.reply.tc => call.tcp)

\* What asking every server of a list may cost, with so many queries per attempt.
CostOf(perAttempt, servers) == perAttempt * (IF UpstreamRetries < 1 THEN 1 ELSE UpstreamRetries) * Len(servers)

\* What the route of a query may cost.
RouteCost(q) ==
    IF Match(q.name) = {} THEN CostOf(2, RootServers)
    ELSE LET z == CHOOSE z \in Match(q.name) : TRUE IN CostOf(IF z.stub THEN 2 ELSE 4, z.addrs)

\* However servers fail, a call sends at most so many queries: two per attempt
\* (UDP, TCP), twice that to a forwarder, where EDNS0 may be given up, per server
\* of the route and retry; the A query of DNS64 adds an iteration, the fallback
\* one attempt, and never both; a local or special-use answer sends none.
SendBound ==
    call.pc # "idle" =>
        sends <= CASE call.job \in {"forward", "servers"} -> RouteCost(call.q)
                   [] call.job = "a64" -> RouteCost(call.q) + CostOf(2, RootServers)
                   [] call.job = "fallback" -> RouteCost(call.q) + 4
                   [] OTHER -> 0

\* A name that a local zone answers, or that is special-use, is asked of no
\* server, in no step of the call ("must never leave the resolver").
LocalNamesStayHome ==
    \A a \in asked :
        /\ \A s \in SpecialUse : ~HasSuffix(a.name, s)
        /\ call.q.class = "IN" =>
             \A z \in LocalZones : InZone(a.name, z.name) /\ z.name # << >>
                 /\ (\A y \in LocalZones : InZone(a.name, y.name) => Len(y.name) <= Len(z.name))
                 => z.type = "transparent" /\ <<a.name, call.q.type>> \notin z.records

\* A name in a forward or stub zone is asked of the servers of the most specific
\* such zone; the root servers see it only for DNS64, the fallback resolver only
\* after the zone's servers.
ForwardedToItsZone ==
    \A a \in asked : \A z \in ForwardZones :
        /\ InZone(a.name, z.name) /\ z.name # << >>
        /\ \A y \in ForwardZones : InZone(a.name, y.name) => Len(y.name) <= Len(z.name)
        => \/ a.server \in Elements(z.addrs)
           \/ a.job = "a64" /\ call.q.type = "AAAA"
           \/ a.job = "fallback" /\ \E b \in asked : b.job \in {"forward", "servers"}

\* "Don't bypass DNSSEC validation failures": once the validator has called the
\* answer bogus nobody else is asked, and the client gets SERVFAIL.
BogusIsFinal ==
    call.verdict = "bogus" => /\ \A a \in asked : a.job = "servers"
                              /\ call.pc = "done" => call.result = Result("SERVFAIL", FALSE, "bogus", FALSE)

\* Together: a question is asked nowhere but where its route leads, and after a
\* bogus verdict nowhere else (ResolveWithECS, shouldFallback).
AskedWhereItBelongs == LocalNamesStayHome /\ ForwardedToItsZone /\ BogusIsFinal

\* Every call of ResolveWithECS returns: each attempt has its deadline.
EveryCallReturns == call.pc # "idle" ~> call.pc = "done"
=============================================================================
