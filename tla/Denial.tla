------------------------------- MODULE Denial -------------------------------
(* The denial proofs of package dnssec (nsec.go, nsec3.go), and, to measure   *)
(* them against, what an authority with a given zone really has to say.       *)
(*                                                                            *)
(* Names are sequences of labels below the zone's apex, the leftmost first;   *)
(* labels are numbers in canonical order and 0 is "*".  A record set [owner,  *)
(* next, types] is an NSEC; with hashes for names it is an NSEC3.             *)
EXTENDS Integers, Sequences, FiniteSets

CONSTANT Hash       \* ComputeNSEC3Hash: name -> number, one to one

Star == 0

-----------------------------------------------------------------------------
(* Canonical order.                                                           *)

\* How many labels agree, from the right, before one differs or a name ends.
commonAncestorLen(a, b) ==
    CHOOSE n \in 0 .. Len(a) :
        /\ n <= Len(b) /\ \A i \in 0 .. n - 1 : a[Len(a) - i] = b[Len(b) - i]
        /\ n = Len(a) \/ n = Len(b) \/ a[Len(a) - n] # b[Len(b) - n]

\* The longest suffix a and b share.
commonAncestor(a, b) == SubSeq(a, Len(a) - commonAncestorLen(a, b) + 1, Len(a))

\* Labels are compared from the right; a name sorts before those below it.
canonicalCompareName(a, b) ==
    LET n == commonAncestorLen(a, b)
    IN  IF Len(a) = n /\ Len(b) = n THEN 0
        ELSE IF Len(a) = n \/ (Len(b) > n /\ a[Len(a) - n] < b[Len(b) - n]) THEN -1 ELSE 1

\* The last record of the zone covers nothing.
nsecCoversName_NoWrap(owner, next, n) ==
    canonicalCompareName(n, owner) > 0 /\ canonicalCompareName(n, next) < 0

nsecCoversName(owner, next, n) ==
    IF canonicalCompareName(owner, next) < 0
    THEN canonicalCompareName(n, owner) > 0 /\ canonicalCompareName(n, next) < 0
    ELSE canonicalCompareName(n, owner) > 0 \/ canonicalCompareName(n, next) < 0

closestEncloser(n, owner, next) ==
    LET a == commonAncestor(n, owner)
        b == commonAncestor(n, next)
    IN  IF Len(a) >= Len(b) THEN a ELSE b

-----------------------------------------------------------------------------
(* The proofs.                                                                *)

\* A record of the parent's side of a delegation.
AtCut(r) == "NS" \in r.types /\ "SOA" \notin r.types

\* A CNAME at the name does not matter.
NoData_CNAME(n, t, records) ==
    \E r \in records : r.owner = n /\ t \notin r.types /\ ~AtCut(r)

\* Form 1: a record at the name without the type.
NoData(n, t, records) ==
    \E r \in records : r.owner = n /\ r.types \cap {t, "CNAME"} = {} /\ ~AtCut(r)

\* Form 2: an online signer's record at the name.
CompactDenial(n, records) ==
    \E r \in records : r.owner = n /\ r.types \cap {"CNAME", "DNAME"} = {} /\ ~AtCut(r)

\* Form 3: a record that covers the name (of one chain there is only one), and
\* one for the wildcard at the closest encloser the first one shows.
NameError(n, t, records) ==
    \E c \in records :
        /\ nsecCoversName(c.owner, c.next, n)
        /\ LET wildcard == <<Star>> \o closestEncloser(n, c.owner, c.next)
           IN  \E r \in records : \/ nsecCoversName(r.owner, r.next, wildcard)
                                  \/ r.owner = wildcard /\ r.types \cap {t, "CNAME"} = {}

VerifyNSECDenial(n, t, rcode, records) ==
    \/ NoData(n, t, records)
    \/ rcode = "NXDOMAIN" /\ (CompactDenial(n, records) \/ NameError(n, t, records))

coversHashFull(owner, next, h) == IF owner < next THEN owner < h /\ h < next ELSE owner < h \/ h < next

MaxNSEC3Iterations == 100

\* The parameters are those of some record, the first; "error" is an error.
VerifyNSEC3DenialFull(n, records) ==
    IF \E r \in records : r.iterations > MaxNSEC3Iterations THEN "error"
    ELSE IF \E r \in records : coversHashFull(r.owner, r.next, Hash[n]) THEN "denied" ELSE "no"

-----------------------------------------------------------------------------
(* What an authority has to say: a zone is a function from the names with     *)
(* records to their types.                                                    *)

Ancestor(a, n) == Len(a) <= Len(n) /\ commonAncestorLen(a, n) = Len(a)
ExistsIn(zone, n) == \E m \in DOMAIN zone : Ancestor(n, m)

\* The next of the numbers or names in S after x, the first one after the last.
NextIn(S, x, before) ==
    LET after == {y \in S : <<x, y>> \in before}
        from == IF after = {} THEN S ELSE after
    IN  CHOOSE y \in from : \A z \in from : z = y \/ <<y, z>> \in before

\* The two orders, of names and of hashes, as relations on a set.
CanonicalOrder(S) == {p \in S \X S : canonicalCompareName(p[1], p[2]) < 0}
HashOrder(S) == {p \in S \X S : p[1] < p[2]}

NSECChain(zone) ==
    LET before == CanonicalOrder(DOMAIN zone)
    IN  {[owner |-> n, next |-> NextIn(DOMAIN zone, n, before), types |-> zone[n]] : n \in DOMAIN zone}

\* Empty non-terminals have a hash of their own.
Names3(zone, all) == {n \in all : ExistsIn(zone, n)}
NSEC3Chain(zone, all) ==
    LET hashes == {Hash[n] : n \in Names3(zone, all)}
    IN  {[owner |-> h, next |-> NextIn(hashes, h, HashOrder(hashes)), iterations |-> 0] : h \in hashes}

\* The longest existing ancestor of a name that does not exist.
Encloser(zone, n) ==
    CHOOSE a \in {SubSeq(n, i, Len(n)) : i \in 2 .. Len(n) + 1} :
        ExistsIn(zone, a) /\ \A b \in {SubSeq(n, i, Len(n)) : i \in 2 .. Len(n) + 1} :
                                ExistsIn(zone, b) => Len(b) <= Len(a)

\* The record of a chain in whose gap x lies.
Gap(chain, x, before) ==
    LET below == {r \in chain : <<r.owner, x>> \in before}
        from == IF below = {} THEN chain ELSE below
    IN  {r \in from : \A s \in from : s = r \/ <<s.owner, r.owner>> \in before}

\* RFC 4035 5.4 and RFC 5155 7.2: the records that prove a name, or a type at a
\* name, is absent.
Proof(zone, n) ==
    LET chain == NSECChain(zone)
        wildcard == <<Star>> \o Encloser(zone, n)
        before == CanonicalOrder(DOMAIN zone \cup {n, wildcard})
    IN  IF n \in DOMAIN zone THEN {r \in chain : r.owner = n}
        ELSE Gap(chain, n, before) \cup Gap(chain, wildcard, before)
Proof3(zone, n, all) ==
    LET chain == NSEC3Chain(zone, all)
        e == Encloser(zone, n)
        nextCloser == SubSeq(n, Len(n) - Len(e), Len(n))
        before == HashOrder({Hash[m] : m \in all \cup {nextCloser, <<Star>> \o e}})
    IN  IF ExistsIn(zone, n) THEN {r \in chain : r.owner = Hash[n]}
        ELSE {r \in chain : r.owner = Hash[e]} \cup Gap(chain, Hash[nextCloser], before)
             \cup Gap(chain, Hash[<<Star>> \o e], before)
=============================================================================
