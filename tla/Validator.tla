------------------------------ MODULE Validator ------------------------------
(* DNSSEC validation (dnssec/validator.go): goroutines validate responses     *)
(* while the zones roll their keys.                                           *)
(*                                                                            *)
(* A zone publishes, phase after phase, the keys and DS records of            *)
(* Published[zone]; what a fetch returns is the phase it saw, or Failed.      *)
(* Names are sequences of labels, the root is << >>.  A response is a record  *)
(*   [qname, qtype, rcode, sigs, proof, honest]                               *)
(* and a signature of it                                                      *)
(*   [signer, key, alg, time, over, intact].                                  *)
EXTENDS Denial

CONSTANTS
    Goroutines,
    Published,      \* [zone -> sequence of [keys : set of keys, ds : set of DS]]
    KSKs,           \* the keys with the SEP flag
    WeakDS,         \* the DS records with a digest type that is refused
    KeyOf,          \* [DS -> the key it is the digest of]
    TrustAnchors,   \* the root's DS records the program starts with
    Answers,        \* the positive responses several goroutines validate
    Alone,          \* those one goroutine validates by itself
    Denied,         \* the kinds of denial validated, see Denials
    Contents,       \* the zones denials are about: [name -> types]
    Home,           \* the one of them on which several goroutines work
    Universe,       \* every name below the apex of these zones
    NSHost,         \* [zone -> the response for its name server's address]
    None

Zones == DOMAIN Published
buildZoneChain(zone) == [i \in 1 .. Len(zone) + 1 |-> SubSeq(zone, Len(zone) - i + 2, Len(zone))]
isInBailiwick(n, zone) == Ancestor(zone, n)
IsDenial(m) == m.rcode = "NXDOMAIN" \/ m.proof # {}
Positive == Answers \cup Alone \cup {NSHost[z] : z \in DOMAIN NSHost}
Apex == CHOOSE n \in DOMAIN Home : \A m \in DOMAIN Home : Ancestor(n, m)

\* A zone has an ancestor for every label, down to the root.
ASSUME ZoneAssumption ==
    /\ \A z \in Zones : z \in Seq(Nat) /\ Len(Published[z]) \in Nat \ {0}
    /\ \A z \in Zones : \A i \in 1 .. Len(z) + 1 : buildZoneChain(z)[i] \in Zones
    /\ {<< >>, Apex} \cup DOMAIN NSHost \subseteq Zones

\* Positive responses deny nothing; an authority signs what it sends, now.
ASSUME ResponseAssumption ==
    \A m \in Positive :
        /\ ~IsDenial(m)
        /\ \A s \in m.sigs : s.signer \in Zones
        /\ m.honest => \A s \in m.sigs : /\ s.covers /\ s.intact /\ s.time = "now"
                                         /\ isInBailiwick(m.qname, s.signer)

ASSUME NameAssumption ==
    /\ \A n \in Universe : n \in Seq(Nat) /\ Hash[n] \in Nat
    /\ \A c \in Contents : DOMAIN c \subseteq Universe

ASSUME NoneAssumption == None \notin Nat /\ None \notin Goroutines

VARIABLES
    phase,          \* the phase every zone is in
    content,        \* the zone denials are about, fixed
    keyCache,       \* v.keyCache: the phase seen, None where there is no entry within its TTL
    inflight,       \* v.inflightDNSKEY and v.inflightDS: who fetches
    stack           \* per goroutine, the validations under way, innermost last

vars == <<phase, content, keyCache, inflight, stack>>

Kinds == {"DNSKEY", "DS"}
Failed == 0

\* A phase with no records at all: a zone without keys, or without DS.
Records(kind, z, at) == IF kind = "DNSKEY" THEN Published[z][at].keys ELSE Published[z][at].ds

-----------------------------------------------------------------------------
(* The running validation of a goroutine.                                     *)

Top(g) == stack[g][Len(stack[g])]
At(g, pc) == stack[g] # << >> /\ Top(g).pc = pc
With(g, f) == [stack EXCEPT ![g][Len(stack[g])] = f]

\* "sig": the loop over the signatures; i: the link of the trust chain that is
\* walked, 0 before the walk.
Frame(m) ==
    [pc |-> "sig", msg |-> m, todo |-> m.sigs, usable |-> FALSE, bogus |-> FALSE, indeterminate |-> FALSE,
     authentic |-> {}, sig |-> None, i |-> 0, kind |-> "DNSKEY", zone |-> << >>, leader |-> None,
     result |-> Failed, keys |-> Failed, asked |-> FALSE, failed |-> FALSE, verdict |-> None]

Done(f, verdict) == [Frame(f.msg) EXCEPT !.pc = "done", !.todo = {}, !.failed = f.failed, !.verdict = verdict]
Fetch(f, kind, z) ==
    [f EXCEPT !.pc = IF kind = "DNSKEY" THEN "cache" ELSE "slot", !.kind = kind, !.zone = z,
              !.leader = None, !.result = Failed, !.asked = FALSE]
Fetched(f) == [f EXCEPT !.pc = "sig", !.zone = << >>, !.leader = None, !.result = Failed, !.asked = FALSE, !.sig = None]

-----------------------------------------------------------------------------
(* fetchDNSKEYs and fetchDS.                                                  *)

CacheHit(z) == keyCache[z] # None
WithResult(f, pc, result) == [f EXCEPT !.pc = pc, !.result = result, !.failed = @ \/ result = Failed]

\* The lookup in the key cache.
CheckCache(g) ==
    /\ At(g, "cache")
    /\ LET f == Top(g)
       IN  stack' = With(g, IF CacheHit(f.zone) THEN [f EXCEPT !.pc = "got", !.result = keyCache[f.zone]]
                            ELSE [f EXCEPT !.pc = "slot"])
    /\ UNCHANGED <<phase, content, keyCache, inflight>>

\* Under inflightMu: follow the fetch under way, or lead one.
TakeSlot(g) ==
    /\ At(g, "slot")
    /\ LET f == Top(g)
           leader == inflight[f.kind][f.zone]
       IN  IF leader # None
           THEN /\ stack' = With(g, [f EXCEPT !.pc = "wait", !.leader = leader])
                /\ UNCHANGED inflight
           ELSE /\ stack' = With(g, [f EXCEPT !.pc = IF f.kind = "DNSKEY" THEN "recheck" ELSE "query", !.leader = g])
                /\ inflight' = [inflight EXCEPT ![f.kind][f.zone] = g]
    /\ UNCHANGED <<phase, content, keyCache>>

\* The second look at the key cache, with the slot held.
Recheck(g) ==
    /\ At(g, "recheck")
    /\ LET f == Top(g)
       IN  stack' = With(g, IF CacheHit(f.zone) THEN [f EXCEPT !.pc = "release", !.result = keyCache[f.zone]]
                            ELSE [f EXCEPT !.pc = "query"])
    /\ UNCHANGED <<phase, content, keyCache, inflight>>

\* QueryDNSSEC meets a delegation without addresses: the name server's own
\* address is resolved, and validated, before the query can be sent.
AskHost(g) ==
    /\ At(g, "query")
    /\ Top(g).zone \in DOMAIN NSHost /\ ~Top(g).asked
    /\ stack' = [stack EXCEPT ![g] = Append([@ EXCEPT ![Len(@)] = [Top(g) EXCEPT !.asked = TRUE]],
                                            Frame(NSHost[Top(g).zone]))]
    /\ UNCHANGED <<phase, content, keyCache, inflight>>

\* The answer, a failure (an error, SERVFAIL, REFUSED) or what the zone now
\* publishes; only the latter is kept, and only keys are.
Query(g) ==
    /\ At(g, "query")
    /\ LET f == Top(g)
       IN  /\ f.zone \in DOMAIN NSHost => f.asked
           /\ \E answer \in {Failed, phase[f.zone]} :
                /\ stack' = With(g, WithResult(f, "release", answer))
                /\ keyCache' = IF f.kind = "DNSKEY" /\ answer # Failed
                               THEN [keyCache EXCEPT ![f.zone] = answer] ELSE keyCache
    /\ UNCHANGED <<phase, content, inflight>>

\* The slot is not cleared.
ReleaseSlot_Kept(g) ==
    /\ At(g, "release")
    /\ stack' = With(g, [Top(g) EXCEPT !.pc = "close"])
    /\ UNCHANGED <<phase, content, keyCache, inflight>>

\* The deferred function: the slot is cleared, then the channel is closed and
\* every follower has the leader's result.
ReleaseSlot(g) ==
    /\ At(g, "release")
    /\ stack' = With(g, [Top(g) EXCEPT !.pc = "close"])
    /\ inflight' = [inflight EXCEPT ![Top(g).kind][Top(g).zone] = None]
    /\ UNCHANGED <<phase, content, keyCache>>

Follows(f, l) == f.pc = "wait" /\ f.leader = l /\ f.kind = Top(l).kind /\ f.zone = Top(l).zone

CloseDone(g) ==
    /\ At(g, "close")
    /\ stack' = [h \in Goroutines |->
                    IF h = g THEN [stack[g] EXCEPT ![Len(stack[g])].pc = "got"]
                    ELSE IF stack[h] # << >> /\ Follows(Top(h), g)
                    THEN [stack[h] EXCEPT ![Len(stack[h])] = WithResult(@, "got", Top(g).result)]
                    ELSE stack[h]]
    /\ UNCHANGED <<phase, content, keyCache, inflight>>

-----------------------------------------------------------------------------
(* validateResponseImpl and validateDenialResponse.                           *)

\* A signature that is out of date is used all the same.
Consider_AnyTime(f, s) ==
    LET g == [f EXCEPT !.todo = @ \ {s}]
        u == [g EXCEPT !.usable = TRUE]
    IN  IF s.alg # "good" THEN g
        ELSE IF ~s.covers THEN u
        ELSE IF ~isInBailiwick(f.msg.qname, s.signer) THEN [u EXCEPT !.bogus = TRUE]
        ELSE Fetch([u EXCEPT !.sig = s], "DNSKEY", s.signer)

\* One signature of the loop, up to the fetch of its signer's keys: an algorithm
\* that is weak or has no verifier is skipped, a signature over nothing is
\* skipped but counts, one out of date or out of bailiwick is a bogus one.
Consider(f, s) ==
    LET g == [f EXCEPT !.todo = @ \ {s}]
        u == [g EXCEPT !.usable = TRUE]
    IN  IF s.alg # "good" THEN g
        ELSE IF ~s.covers THEN u
        ELSE IF s.time # "now" \/ ~isInBailiwick(f.msg.qname, s.signer) THEN [u EXCEPT !.bogus = TRUE]
        ELSE Fetch([u EXCEPT !.sig = s], "DNSKEY", s.signer)

\* The verdict on a denial, from the records with a verified signature.
DenialVerdict(f) ==
    LET nsec3 == {r \in f.authentic \ {None} : "iterations" \in DOMAIN r}
        nsec == (f.authentic \ {None}) \ nsec3
        denied3 == IF nsec3 = {} THEN "no" ELSE VerifyNSEC3DenialFull(f.msg.qname, nsec3)
    IN  IF ~f.usable THEN "Insecure"
        ELSE IF f.authentic = {} THEN IF f.bogus \/ ~f.indeterminate THEN "Bogus" ELSE "Indeterminate"
        ELSE IF denied3 = "error" THEN "Indeterminate"
        ELSE IF \/ denied3 = "denied"
                \/ nsec # {} /\ VerifyNSECDenial(f.msg.qname, f.msg.qtype, f.msg.rcode, nsec)
             THEN "Secure" ELSE "Bogus"

\* No signature of the answer was good.
AnswerVerdict(f) ==
    IF ~f.usable THEN "Insecure" ELSE IF f.bogus THEN "Bogus" ELSE "Indeterminate"

\* The next signature, or the verdict once there is none.
NextSignature(g) ==
    /\ At(g, "sig")
    /\ LET f == Top(g)
       IN  \/ \E s \in f.todo : stack' = With(g, Consider(f, s))
           \/ /\ f.todo = {}
              /\ stack' = With(g, Done(f, IF IsDenial(f.msg) THEN DenialVerdict(f) ELSE AnswerVerdict(f)))
    /\ UNCHANGED <<phase, content, keyCache, inflight>>

\* The signer's keys are there.  A signature that verifies settles an answer by
\* its trust chain, and makes a record of a denial one that counts.
CheckSignature(g) ==
    /\ At(g, "got") /\ Top(g).i = 0
    /\ LET f == Fetched(Top(g))
           s == Top(g).sig
           at == Top(g).result
       IN  stack' = With(g,
               IF at = Failed \/ s.key \notin Records("DNSKEY", s.signer, at) THEN [f EXCEPT !.indeterminate = TRUE]
               ELSE IF ~s.intact THEN [f EXCEPT !.bogus = TRUE]
               ELSE IF IsDenial(f.msg) THEN [f EXCEPT !.authentic = @ \cup {s.over}]
               ELSE Fetch([Top(g) EXCEPT !.i = 1, !.todo = {}], "DNSKEY", << >>))
    /\ UNCHANGED <<phase, content, keyCache, inflight>>

Chain(f) == buildZoneChain(f.sig.signer)
NextLink(f) ==
    IF f.i = Len(Chain(f)) THEN Done(f, "Secure") ELSE Fetch([f EXCEPT !.i = @ + 1], "DNSKEY", Chain(f)[f.i + 1])

\* verifyAgainstTrustAnchors and verifyDNSKEYWithDS: some key with the SEP flag
\* has a digest of an accepted type.
VerifyDS(keys, ds) == \E d \in ds \ WeakDS : KeyOf[d] \in keys \cap KSKs

\* validateTrustChain: the keys of a link, the root's against the anchors.
CheckKeys(g) ==
    /\ At(g, "got") /\ Top(g).i > 0 /\ Top(g).kind = "DNSKEY"
    /\ LET f == Top(g)
       IN  stack' = With(g,
               IF f.result = Failed THEN Done(f, "Indeterminate")
               ELSE IF f.i > 1 THEN Fetch([f EXCEPT !.keys = f.result], "DS", f.zone)
               ELSE IF VerifyDS(Records("DNSKEY", << >>, f.result), TrustAnchors) THEN NextLink(f)
               ELSE Done(f, "Bogus"))
    /\ UNCHANGED <<phase, content, keyCache, inflight>>

\* A failed fetch of the DS records counts as none.
CheckDS_FailedIsNone(g) ==
    /\ At(g, "got") /\ Top(g).kind = "DS"
    /\ LET f == Top(g)
           ds == IF f.result = Failed THEN {} ELSE Records("DS", f.zone, f.result)
       IN  stack' = With(g,
               IF ds \subseteq WeakDS THEN Done(f, "Insecure")
               ELSE IF VerifyDS(Records("DNSKEY", f.zone, f.keys), ds) THEN NextLink(f)
               ELSE Done(f, "Bogus"))
    /\ UNCHANGED <<phase, content, keyCache, inflight>>

\* ... and its DS records: none, or none of an accepted type, is insecure.
CheckDS(g) ==
    /\ At(g, "got") /\ Top(g).kind = "DS"
    /\ LET f == Top(g)
           ds == Records("DS", f.zone, f.result)
       IN  stack' = With(g,
               IF f.result = Failed THEN Done(f, "Indeterminate")
               ELSE IF ds \subseteq WeakDS THEN Done(f, "Insecure")
               ELSE IF VerifyDS(Records("DNSKEY", f.zone, f.keys), ds) THEN NextLink(f)
               ELSE Done(f, "Bogus"))
    /\ UNCHANGED <<phase, content, keyCache, inflight>>

-----------------------------------------------------------------------------
(* The responses, and the zones.                                              *)

Types == {"A", "TXT"}

Plain(n) == n \in DOMAIN content /\ "CNAME" \notin content[n] /\ ~AtCut([types |-> content[n]])
Absent(n) == ~ExistsIn(content, n) /\ <<Star>> \o Encloser(content, n) \notin DOMAIN content

\* The responses an authority for content gives when a name or a type is absent;
\* "other" are responses whose records prove something else.
Denials ==
    LET Deny(q, rcode, proof, honest) ==
            [qname |-> q[1], qtype |-> q[2], rcode |-> rcode, proof |-> proof, honest |-> honest]
        Asked(form) == IF form \in Denied THEN Universe \X Types ELSE {}
        NoType(form) == {q \in Asked(form) : Plain(q[1]) /\ q[2] \notin content[q[1]]}
        NoName(form) == {q \in Asked(form) : Absent(q[1])}
        Online(n) == {[owner |-> n, next |-> <<Star>> \o n, types |-> {}]}
    IN  {Deny(q, "NOERROR", Proof(content, q[1]), TRUE) : q \in NoType("type")}
        \cup {Deny(q, "NXDOMAIN", Proof(content, q[1]), TRUE) : q \in NoName("name")}
        \cup {Deny(q, "NXDOMAIN", Online(q[1]), TRUE) : q \in NoName("online")}
        \cup {Deny(q, "NOERROR", Proof3(content, q[1], Universe), TRUE) : q \in NoType("type3")}
        \cup {Deny(q, "NXDOMAIN", Proof3(content, q[1], Universe), TRUE) :
                 q \in {p \in NoName("child3") : Len(p[1]) = Len(Encloser(content, p[1])) + 1}}
        \cup {Deny(q, "NOERROR", {r}, FALSE) :
                 q \in {p \in Asked("other") : p[1] \in DOMAIN content}, r \in NSECChain(content)}

\* One signature per record and one for the SOA, by a key the zone publishes.
Signed(d, k) ==
    [qname |-> d.qname, qtype |-> d.qtype, rcode |-> d.rcode, proof |-> d.proof, honest |-> d.honest,
     sigs |-> {[signer |-> Apex, key |-> k, alg |-> "good", time |-> "now", over |-> r, covers |-> TRUE,
                intact |-> TRUE] : r \in d.proof \cup {None}}]

\* One of the signatures was damaged.
Damaged(m) ==
    {[m EXCEPT !.sigs = (@ \ {s}) \cup {[s EXCEPT !.intact = FALSE]}, !.honest = FALSE] : s \in m.sigs}

\* An honest response carries signatures by keys that are published.
Possible(m) == m.honest => \A s \in m.sigs : s.key \in Records("DNSKEY", s.signer, phase[s.signer])
Responses ==
    LET key == CHOOSE k \in Records("DNSKEY", Apex, phase[Apex]) : TRUE
        signed == {Signed(d, key) : d \in Denials}
    IN  {m \in IF content = Home THEN Answers ELSE Alone \cup signed \cup UNION {Damaged(d) : d \in {m \in signed : m.honest}} :
            Possible(m)}

\* A resolution asks for a verdict.  On a content other than Home there is one
\* resolution, and the zones' keys rest.
Begin(g) ==
    /\ stack[g] = << >> \/ (Len(stack[g]) = 1 /\ At(g, "done"))
    /\ content # Home => \A h \in Goroutines : stack[h] = << >>
    /\ \E m \in Responses : stack' = [stack EXCEPT ![g] = <<Frame(m)>>]
    /\ UNCHANGED <<phase, content, keyCache, inflight>>

\* The name server's address is validated; the query goes on.
Return(g) ==
    /\ Len(stack[g]) > 1 /\ At(g, "done")
    /\ stack' = [stack EXCEPT ![g] = SubSeq(@, 1, Len(@) - 1)]
    /\ UNCHANGED <<phase, content, keyCache, inflight>>

\* What a goroutine or the cache has seen of z.
Frames(g) == {stack[g][n] : n \in 1 .. Len(stack[g])}
SeenBy(f, z) ==
    (IF f.zone = z THEN {f.result, f.keys} ELSE {}) \ {Failed}
Current(z) ==
    /\ keyCache[z] # None => keyCache[z] = phase[z]
    /\ \A g \in Goroutines : \A f \in Frames(g) : f.pc # "done" => SeenBy(f, z) \subseteq {phase[z]}

\* A key cached for its TTL.
Expire(z) ==
    /\ content = Home
    /\ keyCache[z] # None
    /\ keyCache' = [keyCache EXCEPT ![z] = None]
    /\ UNCHANGED <<phase, content, inflight, stack>>

\* A zone goes to its next phase once what was published before has timed out.
Roll(z) ==
    /\ content = Home
    /\ phase[z] < Len(Published[z]) /\ Current(z)
    /\ phase' = [phase EXCEPT ![z] = @ + 1]
    /\ UNCHANGED <<content, keyCache, inflight, stack>>

Init ==
    /\ phase = [z \in Zones |-> 1]
    /\ content \in Contents
    /\ keyCache = [z \in Zones |-> None]
    /\ inflight = [k \in Kinds |-> [z \in Zones |-> None]]
    /\ stack = [g \in Goroutines |-> << >>]

Step(g) ==
    \/ CheckCache(g) \/ TakeSlot(g) \/ Recheck(g) \/ AskHost(g) \/ Query(g) \/ ReleaseSlot(g) \/ CloseDone(g)
    \/ NextSignature(g) \/ CheckSignature(g) \/ CheckKeys(g) \/ CheckDS(g) \/ Return(g)

Next ==
    \/ \E g \in Goroutines : Begin(g) \/ Step(g)
    \/ \E z \in Zones : Expire(z) \/ Roll(z)

Spec == Init /\ [][Next]_vars

-----------------------------------------------------------------------------
(* What the zones owe each other.                                             *)

\* RFC 6781: in every phase the keys go with the DS records of that phase and of
\* the ones next to it, and the root's with the anchors.
RollsByTheBook ==
    /\ \A p \in 1 .. Len(Published[<< >>]) : VerifyDS(Records("DNSKEY", << >>, p), TrustAnchors)
    /\ \A z \in Zones : \A p, q \in 1 .. Len(Published[z]) :
         q \in p - 1 .. p + 1 =>
             Records("DS", z, q) \subseteq WeakDS \/ VerifyDS(Records("DNSKEY", z, p), Records("DS", z, q))

\* The zones can be ordered so that a name server's address is signed in zones
\* that come before the one it serves.
HostsFirst(rank) ==
    \A z \in DOMAIN NSHost : \A s \in NSHost[z].sigs :
        \A i \in 1 .. Len(s.signer) + 1 : rank[buildZoneChain(s.signer)[i]] < rank[z]
NoHostCycle == \E rank \in [Zones -> 0 .. Cardinality(Zones)] : HostsFirst(rank)

-----------------------------------------------------------------------------
(* Properties.                                                                *)

Verdicts == UNION {{f \in Frames(g) : f.pc = "done"} : g \in Goroutines}

WaitsFor(g) == IF At(g, "wait") THEN {Top(g).leader} ELSE {}

\* Concurrent misses share one fetch (fetchDNSKEYs, fetchDS): a zone's keys, and
\* its DS records, are asked for by one goroutine at a time; whoever waits for it
\* waits for another goroutine that is at it or has just cleared the slot, and no
\* two wait for each other: the channel of every inflightFetch gets closed.
SingleFlight ==
    /\ \A g, h \in Goroutines : \A f \in Frames(g), e \in Frames(h) :
         {f.pc, e.pc} \subseteq {"recheck", "query", "release"} /\ f.kind = e.kind /\ f.zone = e.zone => g = h
    /\ \A g \in Goroutines : At(g, "wait") =>
         LET l == Top(g).leader
         IN  /\ l # g /\ g \notin WaitsFor(l)
             /\ \E f \in Frames(l) : /\ f.kind = Top(g).kind /\ f.zone = Top(g).zone
                                     /\ f.pc \in {"recheck", "query", "release", "close"}

\* Secure is only said of an answer with an intact, timely signature in
\* bailiwick, by a key its signer published, where every zone down to the signer
\* has had a DS record of an accepted type (validateResponseImpl,
\* validateTrustChain).
SecureAnswerIsProved ==
    \A f \in Verdicts : f.verdict = "Secure" /\ ~IsDenial(f.msg) =>
        \E s \in f.msg.sigs :
            /\ s.intact /\ s.covers /\ s.time = "now" /\ isInBailiwick(f.msg.qname, s.signer)
            /\ \E p \in 1 .. phase[s.signer] : s.key \in Records("DNSKEY", s.signer, p)
            /\ \A i \in 2 .. Len(s.signer) + 1 :
                 LET z == buildZoneChain(s.signer)[i]
                 IN  \E p \in 1 .. phase[z] : Records("DS", z, p) \ WeakDS # {}

\* A failed fetch decides nothing else.  Insecure is only said of an answer
\* without a usable signature, or below a delegation its parent really published
\* no usable DS record for (the comment of fetchDS); and where every fetch of the
\* validation went well, an authority's response is Indeterminate only when its
\* signatures are by keys newer, or older, than the ones cached.
FailuresStayFailures ==
    \A f \in Verdicts :
        /\ f.verdict = "Insecure" =>
             \/ \A s \in f.msg.sigs : s.alg # "good"
             \/ \E s \in f.msg.sigs : \E i \in 2 .. Len(s.signer) + 1 :
                  LET z == buildZoneChain(s.signer)[i]
                  IN  \E p \in 1 .. phase[z] : Records("DS", z, p) \subseteq WeakDS
        /\ f.msg.honest /\ f.verdict = "Indeterminate" =>
             \/ f.failed
             \/ \E s \in f.msg.sigs : \E p \in 1 .. phase[s.signer] : s.key \notin Records("DNSKEY", s.signer, p)

\* No authority's own response is Bogus: not while it rolls its keys, whatever
\* mix of old and new keys, DS records and signatures a validation meets (the
\* loop over every signature), and not when it denies a name or a type.  A denial
\* may be, when some of its signatures could not be checked for want of keys.
HonestIsNeverBogus ==
    \A f \in Verdicts : f.msg.honest /\ (IsDenial(f.msg) => ~f.failed) => f.verdict # "Bogus"

\* A denial of a type that is Secure is true of the zone, whatever records of
\* the zone it carries: neither the type nor a CNAME is there (VerifyNSECDenial).
SecureDenialIsTrue ==
    \A f \in Verdicts : f.verdict = "Secure" /\ f.msg.rcode = "NOERROR" /\ IsDenial(f.msg) =>
        content[f.msg.qname] \cap {f.msg.qtype, "CNAME"} = {}
=============================================================================
