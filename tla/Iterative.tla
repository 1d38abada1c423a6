----------------------------- MODULE Iterative -----------------------------
(* resolveIterativeFromInner of package resolver: one resolution, from the    *)
(* root servers down the referrals, across CNAME and DNAME, with query name   *)
(* minimisation, failing servers and the validator's verdicts.                *)
(*                                                                            *)
(* Names are sequences of labels, lower-cased; the root is the empty one.  A  *)
(* server may answer any query with any message of Messages, or not at all.   *)
(* RRSIG records and TTLs are left out; the validator is its verdict.         *)
EXTENDS Integers, Sequences, FiniteSets

CONSTANTS
    Questions,      \* the questions asked: <<name, type>>
    Messages,       \* what servers may answer
    RootServers,    \* nsEntry records of the root servers
    HostAddrs,      \* the addresses each name server's host name may have
    NoAddr,         \* an empty ipv4 or ipv6 field
    MaxDepth,       \* config.MaxDepth
    MaxCNAMEDepth,  \* config.MaxCNAMEDepth
    QMinEnabled,
    PreferIPv4,
    Validating      \* a validator is set and skipValidation is false

ASSUME DepthAssumption == MaxDepth \in Nat /\ MaxCNAMEDepth \in Nat
ASSUME MessageAssumption ==
    \A m \in Messages : /\ DOMAIN m = {"rcode", "aa", "answers", "authority", "additional"}
                        /\ m.rcode \in {"NOERROR", "NXDOMAIN", "SERVFAIL"}
ASSUME SwitchAssumption == QMinEnabled \in BOOLEAN /\ PreferIPv4 \in BOOLEAN /\ Validating \in BOOLEAN

\* r is a record [owner, type, data]; m a message [rcode, aa, answers,
\* authority, additional] whose sections are sets of records.

VARIABLES
    frames,     \* the calls under way, one per CNAME or DNAME hop
    qtype,      \* the type asked for
    pc,         \* the next step of the innermost call
    ip,         \* the address of the server being asked
    resp,       \* its response, filtered
    visited,    \* visitedSet.ns: <<address, name, zone>> asked already
    cnames,     \* visitedSet.cname: targets followed already
    result,     \* what the innermost call returns
    stored,     \* what was put into the cache, and on whose word
    hops,       \* names whose response was validated, in order, with the verdict
    sent        \* number of calls of queryUpstreamECS

call == <<frames, qtype, pc, ip, resp, visited, cnames, result>>
vars == <<call, stored, hops, sent>>

-----------------------------------------------------------------------------
(* Names and messages.                                                        *)

InZone(n, z) == Len(z) <= Len(n) /\ SubSeq(n, Len(n) - Len(z) + 1, Len(n)) = z

\* strings.HasSuffix(n, "."+z)
HasSuffix(n, z) == z # << >> /\ Len(z) < Len(n) /\ InZone(n, z)

OfType(rrs, t) == {rr \in rrs : rr.type = t}

\* Glue for hosts outside the zone of the server that answers is kept.
SanitizeBailiwick_KeepGlue(m, zone) ==
    LET authority == {rr \in m.authority : InZone(rr.owner, zone)}
        hosts == {rr.data : rr \in OfType(authority, "NS")}
    IN  [m EXCEPT !.answers = {rr \in @ : InZone(rr.owner, zone)},
                  !.authority = authority,
                  !.additional = {rr \in @ : rr.owner \in hosts}]

SanitizeBailiwick(m, zone) ==
    LET authority == {rr \in m.authority : InZone(rr.owner, zone)}
        hosts == {rr.data : rr \in OfType(authority, "NS")}
    IN  [m EXCEPT !.answers = {rr \in @ : InZone(rr.owner, zone)},
                  !.authority = authority,
                  !.additional = {rr \in @ : rr.owner \in hosts /\ InZone(rr.owner, zone)}]

classifyResponse(m, n, t) ==
    LET hasRequestedType == \E rr \in m.answers : rr.owner = n /\ rr.type = t
        hasCNAME == \E rr \in m.answers : rr.owner = n /\ rr.type = "CNAME"
        hasDNAME == \E rr \in OfType(m.answers, "DNAME") : HasSuffix(n, rr.owner)
        hasNS == OfType(m.authority, "NS") # {}
        hasSOA == \E rr \in OfType(m.authority, "SOA") : InZone(n, rr.owner)
    IN  CASE m.rcode = "NXDOMAIN" -> "nxdomain"
          [] m.rcode = "SERVFAIL" -> "servfail"
          [] m.rcode = "NOERROR" ->
               IF hasRequestedType \/ hasCNAME \/ hasDNAME
               THEN IF ~m.aa THEN "servfail"
                    ELSE IF hasRequestedType THEN "answer"
                    ELSE IF hasCNAME THEN "cname" ELSE "dname"
               ELSE IF hasNS /\ ~hasSOA THEN "referral"
               ELSE IF hasSOA THEN "nodata" ELSE "servfail"

\* The address of the glue for host h, of type A or AAAA.
Glue(m, h, t) ==
    IF \E rr \in OfType(m.additional, t) : rr.owner = h
    THEN (CHOOSE rr \in OfType(m.additional, t) : rr.owner = h).data ELSE NoAddr

extractDelegation(m) ==
    {[host |-> rr.data, ipv4 |-> Glue(m, rr.data, "A"), ipv6 |-> Glue(m, rr.data, "AAAA")] :
        rr \in OfType(m.authority, "NS")}

\* The zone is the owner of the last NS record.
DelegatedZones(m) == {rr.owner : rr \in OfType(m.authority, "NS")}

extractCNAMERecords(m, n) == {rr \in OfType(m.answers, "CNAME") : rr.owner = n}

\* The targets a CNAME, or a DNAME above n, leads to; none is an empty target.
extractCNAMETarget(m, n) == {rr.data : rr \in extractCNAMERecords(m, n)} \ {<< >>}

extractDNAMETarget(m, n) ==
    {SubSeq(n, 1, Len(n) - Len(rr.owner)) \o rr.data :
        rr \in {r \in OfType(m.answers, "DNAME") : HasSuffix(n, r.owner) /\ r.data # << >>}}

minimizeQName(n, t, zone) ==
    IF n = << >> \/ t = "DS" THEN <<n, t>>
    ELSE IF zone = << >> THEN <<SubSeq(n, Len(n), Len(n)), "NS">>
    ELSE IF ~HasSuffix(n, zone) \/ Len(n) - Len(zone) <= 1 THEN <<n, t>>
    ELSE <<SubSeq(n, Len(n) - Len(zone), Len(n)), "NS">>

\* Servers without glue go as well.
removeNSByIP_Glued(ns, a) == {e \in ns : e.ipv4 \notin {a, NoAddr} /\ e.ipv6 # a}

removeNSByIP(ns, a) == {e \in ns : e.ipv4 # a /\ e.ipv6 # a}

\* One secure hop makes the chain secure.
combineDNSSECStatus_Or(a, b) ==
    IF a = "bogus" \/ b = "bogus" THEN "bogus"
    ELSE IF a = "secure" \/ b = "secure" THEN "secure" ELSE "insecure"

combineDNSSECStatus(a, b) ==
    IF a = "bogus" \/ b = "bogus" THEN "bogus"
    ELSE IF a = "secure" /\ b = "secure" THEN "secure"
    ELSE IF a = "" THEN b
    ELSE IF b = "" THEN a
    ELSE "insecure"

verdictToStatus(v) == IF v = "indeterminate" THEN "insecure" ELSE v

-----------------------------------------------------------------------------
(* One call.  Its frame holds its loop variables and, while a hop's call is   *)
(* under way, the hop's verdict and the records to put before its answers.    *)

Frame(n) ==
    [name |-> n, ns |-> RootServers, given |-> RootServers, zone |-> << >>, depth |-> 0,
     status |-> "", rrs |-> {}]
Message == [rcode |-> "NOERROR", aa |-> TRUE, answers |-> {}, authority |-> {}, additional |-> {}]
Result(rcode, status, answers, err) == [rcode |-> rcode, status |-> status, answers |-> answers, err |-> err]
Failure(err) == Result("SERVFAIL", "", {}, err)

Init ==
    \E q \in Questions :
        /\ frames = <<Frame(q[1])>>
        /\ qtype = q[2]
        /\ pc = "select"
        /\ ip = NoAddr
        /\ resp = Message
        /\ visited = {} /\ cnames = {} /\ stored = {}
        /\ result = Failure("")
        /\ hops = << >>
        /\ sent = 0

top == frames[Len(frames)]

\* The innermost call returns res.
Returns(res) ==
    /\ pc' = "return"
    /\ result' = res
    /\ UNCHANGED <<frames, qtype, visited, cnames>>

\* The loop goes round again with frame f.
Continues(f) ==
    /\ frames' = [frames EXCEPT ![Len(frames)] = [f EXCEPT !.depth = @ + 1]]
    /\ pc' = "select"
    /\ UNCHANGED <<qtype, visited, cnames, result>>

\* A round after a failed server is not counted.
DropServer_Uncounted(err) ==
    LET left == removeNSByIP(top.ns, ip)
    IN  IF left = {}
        THEN Returns(Failure(err))
        ELSE /\ frames' = [frames EXCEPT ![Len(frames)] = [top EXCEPT !.ns = left]]
             /\ pc' = "select"
             /\ UNCHANGED <<qtype, visited, cnames, result>>

\* The server asked has failed: go on without it, or fail if none is left.
DropServer(err) ==
    LET left == removeNSByIP(top.ns, ip)
    IN  IF left = {} THEN Returns(Failure(err)) ELSE Continues([top EXCEPT !.ns = left])

\* selectAndResolveNS: glue first, IPv4 before IPv6.  Without usable glue the
\* cache, or a resolution of the host name, gives an address of some server.
\* The round-trip times, and what is cached, may make it any of them.
Unglued == \A e \in top.ns : e.ipv4 = NoAddr /\ (PreferIPv4 \/ e.ipv6 = NoAddr)
selectAndResolveNS ==
    LET v4 == {e.ipv4 : e \in top.ns} \ {NoAddr}
        v6 == {e.ipv6 : e \in top.ns} \ {NoAddr}
    IN  IF v4 # {} THEN v4
        ELSE IF ~Unglued THEN v6
        ELSE UNION {HostAddrs[e.host] : e \in top.ns}

\* A server is chosen.  Having asked it for this name in this zone is a loop.
Select(a) ==
    LET queryKey == <<a, top.name, top.zone>>
    IN  /\ pc = "select" /\ top.depth < MaxDepth
        /\ a \in selectAndResolveNS
        /\ ip' = a
        /\ IF queryKey \in visited
           THEN Returns(Failure("loop detected"))
           ELSE /\ visited' = visited \cup {queryKey}
                /\ pc' = "ask"
                /\ UNCHANGED <<frames, qtype, cnames, result>>
        /\ UNCHANGED <<resp, stored, hops, sent>>

SelectFails ==
    /\ pc = "select" /\ top.depth < MaxDepth
    /\ Unglued
    /\ Returns(Failure("no reachable nameserver"))
    /\ UNCHANGED <<ip, resp, stored, hops, sent>>

Exhausted ==
    /\ pc = "select" /\ top.depth >= MaxDepth
    /\ Returns(Failure("depth"))
    /\ UNCHANGED <<ip, resp, stored, hops, sent>>

\* The question of an iteration's first query.
Query == IF QMinEnabled THEN minimizeQName(top.name, qtype, top.zone) ELSE <<top.name, qtype>>

\* The first query is answered with m.  Unless that is a referral, a minimised
\* query is followed by the full one.
Ask(m) ==
    LET r == SanitizeBailiwick(m, top.zone)
        rtype == classifyResponse(r, Query[1], Query[2])
    IN  /\ pc = "ask"
        /\ sent' = sent + 1
        /\ IF Query # <<top.name, qtype>> /\ rtype # "referral"
           THEN pc' = "askFull" /\ UNCHANGED resp
           ELSE pc' = rtype /\ resp' = r
        /\ UNCHANGED <<frames, qtype, ip, visited, cnames, result, stored, hops>>

AskFull(m) ==
    LET r == SanitizeBailiwick(m, top.zone)
    IN  /\ pc = "askFull"
        /\ sent' = sent + 1
        /\ resp' = r
        /\ pc' = classifyResponse(r, top.name, qtype)
        /\ UNCHANGED <<frames, qtype, ip, visited, cnames, result, stored, hops>>

\* queryUpstreamECS has given up on the server.
AskFails ==
    /\ pc \in {"ask", "askFull"}
    /\ sent' = sent + 1
    /\ DropServer("upstream")
    /\ UNCHANGED <<ip, resp, stored, hops>>

-----------------------------------------------------------------------------
(* What is done with a response, by its class.                                *)

\* ValidateResponse, or no verdict without a validator.
ValidateResponse == IF Validating THEN {"secure", "insecure", "bogus", "indeterminate"} ELSE {""}
Validated(v) == v \in ValidateResponse /\ hops' = Append(hops, [name |-> top.name, verdict |-> v])
Bogus == Result("SERVFAIL", "bogus", {}, "")

\* What a response of the current zone's server put into the cache.
Entry(n, t, v) == [name |-> n, type |-> t, verdict |-> v, zone |-> top.zone]

Answer(v) ==
    /\ pc = "answer"
    /\ Validated(v)
    /\ Returns(IF v = "bogus" THEN Bogus ELSE Result("NOERROR", verdictToStatus(v), resp.answers, ""))
    /\ UNCHANGED <<ip, resp, stored, sent>>

\* A call for target starts from the root servers, unless the chain is too long.
Descend(target, v, rrs) ==
    /\ cnames' = cnames \cup {target}
    /\ IF Len(frames) > MaxCNAMEDepth
       THEN pc' = "return" /\ result' = Result("ERROR", "", {}, "CNAME chain too long") /\ UNCHANGED frames
       ELSE /\ frames' = Append([frames EXCEPT ![Len(frames)].status = IF v = "" THEN "insecure" ELSE verdictToStatus(v),
                                               ![Len(frames)].rrs = rrs],
                                Frame(target))
            /\ pc' = "select"
            /\ UNCHANGED result
    /\ UNCHANGED <<qtype, visited>>

CNAME(target, v) ==
    /\ pc = "cname" /\ target \in extractCNAMETarget(resp, top.name)
    /\ target \notin cnames
    /\ Validated(v)
    /\ IF v = "bogus"
       THEN /\ pc' = "return" /\ result' = Bogus
            /\ cnames' = cnames \cup {target}
            /\ UNCHANGED <<frames, qtype, visited, stored>>
       ELSE /\ stored' = stored \cup {Entry(top.name, "CNAME", v)}
            /\ Descend(target, v, extractCNAMERecords(resp, top.name))
    /\ UNCHANGED <<ip, resp, sent>>

DNAME(target, v) ==
    /\ pc = "dname" /\ target \in extractDNAMETarget(resp, top.name)
    /\ target \notin cnames
    /\ Validated(v)
    /\ IF v = "bogus"
       THEN /\ pc' = "return" /\ result' = Bogus
            /\ cnames' = cnames \cup {target}
            /\ UNCHANGED <<frames, qtype, visited>>
       ELSE Descend(target, v, OfType(resp.answers, "DNAME") \cup OfType(resp.answers, "CNAME"))
    /\ UNCHANGED <<ip, resp, stored, sent>>

Targets == IF pc = "cname" THEN extractCNAMETarget(resp, top.name) ELSE extractDNAMETarget(resp, top.name)

\* The target is missing, or was followed before.
NoTarget ==
    /\ pc \in {"cname", "dname"}
    /\ Targets = {} \/ Targets \cap cnames # {}
    /\ Returns(Failure(""))
    /\ UNCHANGED <<ip, resp, stored, hops, sent>>

\* The name servers of the zone delegated take over; they and their glue are cached.
Referral(zone) ==
    LET new == extractDelegation(resp)
    IN  /\ pc = "referral" /\ zone \in DelegatedZones(resp)
        /\ Continues([top EXCEPT !.ns = new, !.given = new, !.zone = zone])
        /\ stored' = stored \cup {Entry(zone, "NS", "")}
                            \cup {Entry(e.host, "A", "") : e \in {f \in new : f.ipv4 # NoAddr}}
                            \cup {Entry(e.host, "AAAA", "") : e \in {f \in new : f.ipv6 # NoAddr}}
        /\ UNCHANGED <<ip, resp, hops, sent>>

\* NXDOMAIN and NODATA.
Denial(v) ==
    /\ pc \in {"nxdomain", "nodata"}
    /\ Validated(v)
    /\ IF v = "bogus"
       THEN Returns(Bogus) /\ UNCHANGED stored
       ELSE /\ Returns(Result(IF pc = "nxdomain" THEN "NXDOMAIN" ELSE "NOERROR", verdictToStatus(v), {}, ""))
            /\ stored' = stored \cup {Entry(top.name, pc, v)}
    /\ UNCHANGED <<ip, resp, sent>>

ServFail ==
    /\ pc = "servfail"
    /\ DropServer("servfail")
    /\ UNCHANGED <<ip, resp, stored, hops, sent>>

\* The hop's own records are not put before the answers.
Return_NoPrepend ==
    /\ pc = "return"
    /\ IF Len(frames) = 1
       THEN pc' = "done" /\ UNCHANGED <<frames, result>>
       ELSE LET caller == frames[Len(frames) - 1]
            IN  /\ frames' = SubSeq(frames, 1, Len(frames) - 1)
                /\ result' = IF result.rcode = "ERROR" THEN result
                             ELSE [result EXCEPT !.status = combineDNSSECStatus(caller.status, @)]
                /\ UNCHANGED pc
    /\ UNCHANGED <<qtype, ip, resp, visited, cnames, stored, hops, sent>>

\* A hop's call has returned: its result becomes its caller's.
Return ==
    /\ pc = "return"
    /\ IF Len(frames) = 1
       THEN pc' = "done" /\ UNCHANGED <<frames, result>>
       ELSE LET caller == frames[Len(frames) - 1]
            IN  /\ frames' = SubSeq(frames, 1, Len(frames) - 1)
                /\ result' = IF result.rcode = "ERROR" THEN result
                             ELSE [result EXCEPT !.answers = @ \cup caller.rrs,
                                                 !.status = combineDNSSECStatus(caller.status, @)]
                /\ UNCHANGED pc
    /\ UNCHANGED <<qtype, ip, resp, visited, cnames, stored, hops, sent>>

Done == pc = "done" /\ UNCHANGED vars

AllAddresses == UNION {HostAddrs[h] : h \in DOMAIN HostAddrs}
AllVerdicts == {"secure", "insecure", "bogus", "indeterminate", ""}

Next ==
    \/ \E a \in AllAddresses : Select(a)
    \/ SelectFails
    \/ Exhausted
    \/ \E m \in Messages : Ask(m)
    \/ \E m \in Messages : AskFull(m)
    \/ AskFails
    \/ \E v \in AllVerdicts : Answer(v)
    \/ \E v \in AllVerdicts, target \in Targets : CNAME(target, v)
    \/ \E v \in AllVerdicts, target \in Targets : DNAME(target, v)
    \/ NoTarget
    \/ \E zone \in DelegatedZones(resp) : Referral(zone)
    \/ \E v \in AllVerdicts : Denial(v)
    \/ ServFail
    \/ Return
    \/ Done

Spec == Init /\ [][Next]_vars

-----------------------------------------------------------------------------
(* Properties.                                                                *)

\* resolveIterativeFromInner asks at most twice a round, MaxDepth rounds
\* a call, and MaxCNAMEDepth + 1 calls, whatever the servers answer.
QueryBound == sent <= 2 * MaxDepth * (MaxCNAMEDepth + 1)

\* Over the whole resolution a server is asked for a name in a zone once, or
\* twice when the name is minimised (the visited set spans the CNAME hops).
AskedOnce == sent <= (IF QMinEnabled THEN 2 ELSE 1) * Cardinality(visited)

\* A call that ends because its last name server failed has asked every name
\* server of the delegation at one of its addresses (removeNSByIP).
AllServersAsked ==
    [][pc # "return" /\ pc' = "return" /\ result'.err \in {"upstream", "servfail"}
         => \A e \in top.given : \E a \in {e.ipv4, e.ipv6} : <<a, top.name, top.zone>> \in visited]_vars

\* No record is cached on the word of a server of a zone it is not in, and none
\* that the validator called bogus: the delegations, glue and CNAMEs Store gets
\* have passed SanitizeBailiwick and their own hop's validation.
StoredIsSound ==
    \A s \in stored : /\ s.type \in {"NS", "A", "AAAA", "CNAME"} => InZone(s.name, s.zone)
                      /\ s.verdict # "bogus"

\* The answers lead from the question to the name the response was found for,
\* each step by a CNAME record, or by a DNAME above the name.
AnswerFollowsChain ==
    pc = "done" /\ result.rcode \in {"NOERROR", "NXDOMAIN"} =>
        \A i \in 1..(Len(hops) - 1) :
            hops[i + 1].name \in extractCNAMETarget(result, hops[i].name) \cup extractDNAMETarget(result, hops[i].name)

\* A positive or negative answer reported secure was secure at every hop.
SecureChain ==
    pc = "done" /\ result.rcode \in {"NOERROR", "NXDOMAIN"} /\ result.status = "secure" =>
        \A i \in 1..Len(hops) : hops[i].verdict = "secure"

\* One bogus hop and the client gets SERVFAIL, reported as bogus.
BogusFails ==
    pc = "done" /\ (\E i \in 1..Len(hops) : hops[i].verdict = "bogus") =>
        result.rcode = "SERVFAIL" /\ result.status = "bogus"

\* Both: what is reported of a chain is never better than its worst hop
\* (combineDNSSECStatus).
VerdictOfChain == SecureChain /\ BogusFails
=============================================================================
