---------------------------- MODULE FrameProofs ----------------------------
(* What one validation does, whatever the zones publish and the upstreams     *)
(* answer: the invariant of a frame of Validator's stacks, the steps that      *)
(* keep it, and the responses it starts from.  And what a step of one          *)
(* goroutine's innermost frame leaves alone of all the stacks and slots.       *)
EXTENDS Validator, TLAPS


\* Time for the provers on a machine that is busy.
USE SMTT(30), ZenonT(30)

-----------------------------------------------------------------------------
(* The invariant of one validation.                                           *)

Fields == {"pc", "msg", "todo", "usable", "bogus", "indeterminate", "authentic", "sig", "i", "kind", "zone",
           "leader", "result", "keys", "asked", "failed", "verdict"}
IsFrame(f) == f = [x \in Fields |-> f[x]]

Fetching == {"cache", "slot", "wait", "recheck", "query", "release", "close", "got"}

\* What the zones have published so far, in the phases up to ph.
KnownKey(s, ph) == \E p \in 1 .. ph[s.signer] : s.key \in Records("DNSKEY", s.signer, p)
MissingKey(s, ph) == \E p \in 1 .. ph[s.signer] : s.key \notin Records("DNSKEY", s.signer, p)
Delegated(z, ph) == \E p \in 1 .. ph[z] : Records("DS", z, p) \ WeakDS # {}
Undelegated(z, ph) == \E p \in 1 .. ph[z] : Records("DS", z, p) \subseteq WeakDS
Recent(p, z, ph) == p \in {ph[z], ph[z] - 1}

\* A record of a denial by an authority for c.
RecordOK(m, r, c) ==
    /\ "iterations" \in DOMAIN r => r.iterations = 0
    /\ m.rcode = "NOERROR" =>
         IF "iterations" \in DOMAIN r THEN Hash[m.qname] \in Nat /\ r.owner = Hash[m.qname]
         ELSE r.types = c[r.owner]

MsgOK(m, c) ==
    /\ \A s \in m.sigs : s.signer \in Zones
    /\ m.honest => \A s \in m.sigs : s.covers
    /\ m.honest /\ ~IsDenial(m) =>
         \A s \in m.sigs : s.intact /\ s.time = "now" /\ isInBailiwick(m.qname, s.signer)
    /\ IsDenial(m) => \A s \in m.sigs : s.over = None \/ RecordOK(m, s.over, c)

\* A signature the loop has let through.
Candidate(m, s) == s \in m.sigs /\ s.covers /\ s.time = "now" /\ isInBailiwick(m.qname, s.signer)

\* An authority's response may remain undecided.
Excused(f, ph) == f.failed \/ \E s \in f.msg.sigs : MissingKey(s, ph)

LoopOK(f, ph) ==
    /\ f.todo \subseteq f.msg.sigs
    /\ \A r \in f.authentic : \E s \in f.msg.sigs : r = s.over
    /\ ~f.usable => \A s \in f.msg.sigs \ f.todo : s.alg # "good"
    /\ f.indeterminate => Excused(f, ph)
    /\ f.msg.honest /\ ~IsDenial(f.msg) => ~f.bogus

\* The fetch of a signer's keys, or of a link of the trust chain.
FetchOK(f, ph) ==
    /\ f.usable
    /\ Candidate(f.msg, f.sig)
    /\ f.zone \in Zones
    /\ f.result \in 0 .. ph[f.zone]
    /\ f.result # Failed => Recent(f.result, f.zone, ph)
    /\ f.pc \in {"release", "close", "got"} /\ f.result = Failed => f.failed
    /\ f.kind = "DS" => f.i > 1 /\ f.keys \in 1 .. ph[f.zone] /\ Recent(f.keys, f.zone, ph)
    /\ f.i = 0 => f.zone = f.sig.signer
    /\ f.i > 0 => /\ ~IsDenial(f.msg) /\ f.sig.intact /\ KnownKey(f.sig, ph)
                  /\ f.i \in 1 .. Len(f.sig.signer) + 1 /\ f.zone = Chain(f)[f.i]
                  /\ \A j \in 2 .. f.i - 1 : Delegated(Chain(f)[j], ph)

\* A verdict is right.
DoneOK(f, ph, c) ==
    /\ f.verdict = "Secure" /\ ~IsDenial(f.msg) =>
         \E s \in f.msg.sigs :
            /\ Candidate(f.msg, s) /\ s.intact /\ KnownKey(s, ph)
            /\ \A i \in 2 .. Len(s.signer) + 1 : Delegated(buildZoneChain(s.signer)[i], ph)
    /\ f.verdict = "Secure" /\ f.msg.rcode = "NOERROR" /\ IsDenial(f.msg) =>
         c[f.msg.qname] \cap {f.msg.qtype, "CNAME"} = {}
    /\ f.verdict = "Insecure" =>
         \/ \A s \in f.msg.sigs : s.alg # "good"
         \/ \E s \in f.msg.sigs : \E i \in 2 .. Len(s.signer) + 1 : Undelegated(buildZoneChain(s.signer)[i], ph)
    /\ f.msg.honest /\ f.verdict = "Indeterminate" => Excused(f, ph)
    /\ RollsByTheBook /\ f.msg.honest /\ ~IsDenial(f.msg) => f.verdict # "Bogus"

FrameType(f) ==
    /\ IsFrame(f)
    /\ f.pc \in {"sig", "done"} \cup Fetching /\ f.kind \in Kinds /\ f.i \in Nat

\* An authority's signature that was looked at and settled nothing had no key.
BetweenOK(f) == f.i = 0 /\ (f.msg.honest /\ f.usable /\ ~IsDenial(f.msg) => f.indeterminate)

FrameOK(f, ph, c) ==
    /\ FrameType(f) /\ MsgOK(f.msg, c)
    /\ f.pc # "done" => LoopOK(f, ph)
    /\ f.pc = "sig" => BetweenOK(f)
    /\ f.pc \in Fetching => FetchOK(f, ph)
    /\ f.pc = "done" => DoneOK(f, ph, c)

-----------------------------------------------------------------------------
(* The invariant of all of them.                                              *)

TypeOK ==
    /\ phase = [z \in Zones |-> phase[z]] /\ \A z \in Zones : phase[z] \in 1 .. Len(Published[z])
    /\ content \in Contents
    /\ keyCache = [z \in Zones |-> keyCache[z]]
    /\ \A z \in Zones : keyCache[z] # None => keyCache[z] \in 1 .. phase[z] /\ Recent(keyCache[z], z, phase)
    /\ inflight \in [Kinds -> [Zones -> Goroutines \cup {None}]]

Stacks == stack = [g \in Goroutines |-> stack[g]] /\ \E S : \A g \in Goroutines : stack[g] \in Seq(S)

FramesOK == \A g \in Goroutines : \A n \in 1 .. Len(stack[g]) : FrameOK(stack[g][n], phase, content)

Leading == {"recheck", "query", "release"}
Leads(f, k, z) == f.pc \in Leading /\ f.kind = k /\ f.zone = z

\* The slots are held by the frames that lead.
SlotsOK ==
    /\ \A g \in Goroutines : \A n \in 1 .. Len(stack[g]) :
         stack[g][n].pc \in Leading => inflight[stack[g][n].kind][stack[g][n].zone] = g
    /\ \A g \in Goroutines : \A m, n \in 1 .. Len(stack[g]) :
         stack[g][m].pc \in Leading /\ Leads(stack[g][n], stack[g][m].kind, stack[g][m].zone) => m = n
    /\ \A k \in Kinds : \A z \in Zones : inflight[k][z] # None =>
         \E n \in 1 .. Len(stack[inflight[k][z]]) : Leads(stack[inflight[k][z]][n], k, z)

\* Below the innermost validation are queries for its name server.
NestedOK ==
    \A g \in Goroutines : \A n \in 1 .. Len(stack[g]) - 1 :
        /\ stack[g][n].pc = "query" /\ stack[g][n].asked
        /\ stack[g][n].zone \in DOMAIN NSHost /\ stack[g][n + 1].msg = NSHost[stack[g][n].zone]

\* Somebody is at the fetch that is waited for.
Attending(f, k, z) == f.pc \in Leading \cup {"close"} /\ f.kind = k /\ f.zone = z
Attended(l, k, z) == l \in Goroutines /\ \E m \in 1 .. Len(stack[l]) : Attending(stack[l][m], k, z)
WaitsOK ==
    \A g \in Goroutines : \A n \in 1 .. Len(stack[g]) : stack[g][n].pc = "wait" =>
        Attended(stack[g][n].leader, stack[g][n].kind, stack[g][n].zone)

Rank == CHOOSE rank \in [Zones -> 0 .. Cardinality(Zones)] : HostsFirst(rank)
RanksOK ==
    NoHostCycle =>
        \A g \in Goroutines : \A n \in 1 .. Len(stack[g]) : stack[g][n].pc \in Fetching =>
            \A m \in 1 .. n - 1 : Rank[stack[g][n].zone] < Rank[stack[g][m].zone]

IInv == TypeOK /\ Stacks /\ FramesOK /\ SlotsOK /\ NestedOK /\ WaitsOK /\ RanksOK

-----------------------------------------------------------------------------
(* The fields of the records.                                                 *)

StartOf(h, m) ==
    /\ IsFrame(h)
    /\ h.pc = "sig" /\ h.msg = m /\ h.todo = m.sigs /\ h.usable = FALSE /\ h.bogus = FALSE
    /\ h.indeterminate = FALSE /\ h.authentic = {} /\ h.i = 0 /\ h.kind = "DNSKEY" /\ h.asked = FALSE
    /\ h.failed = FALSE
LEMMA StartFields == ASSUME NEW m PROVE StartOf(Frame(m), m)
BY Zenon DEF Frame, StartOf, IsFrame, Fields

EndOf(h, f, v) ==
    /\ IsFrame(h)
    /\ h.pc = "done" /\ h.msg = f.msg /\ h.i = 0 /\ h.kind = "DNSKEY" /\ h.failed = f.failed /\ h.verdict = v
LEMMA EndFields == ASSUME NEW f, NEW v PROVE EndOf(Done(f, v), f, v)
<1> DEFINE b == Frame(f.msg)
<1>1. Done(f, v) = [b EXCEPT !.pc = "done", !.todo = {}, !.failed = f.failed, !.verdict = v]
  BY DEF Done
<1>2. StartOf(b, f.msg)
  BY StartFields
<1> HIDE DEF b
<1> QED  BY Zenon, <1>1, <1>2 DEF StartOf, EndOf, IsFrame, Fields

FetchOf(h, f, kind, z) ==
    /\ IsFrame(h)
    /\ h.pc = (IF kind = "DNSKEY" THEN "cache" ELSE "slot")
    /\ h.kind = kind /\ h.zone = z /\ h.result = Failed /\ h.asked = FALSE
    /\ h.msg = f.msg /\ h.todo = f.todo /\ h.usable = f.usable /\ h.bogus = f.bogus
    /\ h.indeterminate = f.indeterminate /\ h.authentic = f.authentic /\ h.sig = f.sig
    /\ h.i = f.i /\ h.keys = f.keys /\ h.failed = f.failed
LEMMA FetchFields == ASSUME NEW f, IsFrame(f), NEW kind, NEW z PROVE FetchOf(Fetch(f, kind, z), f, kind, z)
BY Zenon DEF Fetch, FetchOf, IsFrame, Fields

BackInLoop(h, f) ==
    /\ IsFrame(h)
    /\ h.pc = "sig" /\ h.kind = f.kind /\ h.asked = FALSE
    /\ h.msg = f.msg /\ h.todo = f.todo /\ h.usable = f.usable /\ h.bogus = f.bogus
    /\ h.indeterminate = f.indeterminate /\ h.authentic = f.authentic
    /\ h.i = f.i /\ h.failed = f.failed
LEMMA FetchedFields == ASSUME NEW f, IsFrame(f) PROVE BackInLoop(Fetched(f), f)
BY Zenon DEF Fetched, BackInLoop, IsFrame, Fields

-----------------------------------------------------------------------------
(* Each step of a validation keeps its invariant.                             *)

Phases(ph) == \A z \in Zones : Len(Published[z]) \in Nat /\ ph[z] \in 1 .. Len(Published[z])

\* A validation starts.
LEMMA FrameStarts ==
    ASSUME NEW ph, NEW c, NEW m, MsgOK(m, c)
    PROVE  FrameOK(Frame(m), ph, c)
<1> DEFINE h == Frame(m)
<1>0. StartOf(h, m)
  BY StartFields
<1> HIDE DEF h
<1>1. /\ IsFrame(h)
      /\ h.pc = "sig" /\ h.msg = m /\ h.todo = m.sigs /\ h.usable = FALSE /\ h.bogus = FALSE
      /\ h.indeterminate = FALSE /\ h.authentic = {} /\ h.i = 0 /\ h.kind = "DNSKEY"
  BY <1>0 DEF StartOf
<1>2. LoopOK(h, ph)
  BY <1>1 DEF LoopOK
<1>3. FrameType(h) /\ BetweenOK(h) /\ h.pc \notin Fetching
  BY <1>1 DEF FrameType, BetweenOK, Fetching, Kinds
<1>4. FrameOK(h, ph, c)
  BY <1>1, <1>2, <1>3 DEF FrameOK
<1> QED  BY <1>4 DEF h

\* The chain of a signer starts at the root and stays within the zones.
LEMMA ChainLinks ==
    ASSUME NEW z \in Zones
    PROVE  /\ Len(z) \in Nat /\ Len(buildZoneChain(z)) = Len(z) + 1
           /\ \A i \in 1 .. Len(z) + 1 : buildZoneChain(z)[i] \in Zones
           /\ buildZoneChain(z)[1] = << >>
<1>1. z \in Seq(Nat) /\ Len(z) \in Nat /\ \A i \in 1 .. Len(z) + 1 : buildZoneChain(z)[i] \in Zones
  BY ZoneAssumption
<1>2. Len(buildZoneChain(z)) = Len(z) + 1
  BY <1>1 DEF buildZoneChain
<1>3. buildZoneChain(z)[1] = SubSeq(z, Len(z) + 1, Len(z))
  BY <1>1 DEF buildZoneChain
<1>4. SubSeq(z, Len(z) + 1, Len(z)) = << >>
  BY <1>1
<1> QED  BY <1>1, <1>2, <1>3, <1>4

\* One signature of the loop.
LEMMA ConsiderOK ==
    ASSUME NEW ph, NEW c, Phases(ph), NEW f, FrameOK(f, ph, c), f.pc = "sig", NEW s \in f.todo
    PROVE  FrameOK(Consider(f, s), ph, c)
<1> DEFINE g == [f EXCEPT !.todo = @ \ {s}]
           u == [g EXCEPT !.usable = TRUE]
           b == [u EXCEPT !.bogus = TRUE]
           w == [u EXCEPT !.sig = s]
           h == Fetch(w, "DNSKEY", s.signer)
<1>1. /\ IsFrame(f) /\ s \in f.msg.sigs /\ MsgOK(f.msg, c) /\ LoopOK(f, ph)
      /\ FrameType(f) /\ BetweenOK(f) /\ f.i = 0
  BY DEF FrameOK, LoopOK, FrameType, BetweenOK
<1>2. /\ IsFrame(g) /\ g.todo = f.todo \ {s} /\ g.usable = f.usable /\ g.bogus = f.bogus
      /\ g.pc = f.pc /\ g.msg = f.msg /\ g.indeterminate = f.indeterminate /\ g.authentic = f.authentic
      /\ g.i = f.i /\ g.kind = f.kind /\ g.asked = f.asked /\ g.failed = f.failed
  BY Zenon, <1>1 DEF IsFrame, Fields
<1>3. /\ IsFrame(u) /\ u.todo = f.todo \ {s} /\ u.usable = TRUE /\ u.bogus = f.bogus
      /\ u.pc = f.pc /\ u.msg = f.msg /\ u.indeterminate = f.indeterminate /\ u.authentic = f.authentic
      /\ u.i = f.i /\ u.kind = f.kind /\ u.asked = f.asked /\ u.failed = f.failed
  BY Zenon, <1>1 DEF IsFrame, Fields
<1>4. /\ IsFrame(b) /\ b.todo = f.todo \ {s} /\ b.usable = TRUE /\ b.bogus = TRUE
      /\ b.pc = f.pc /\ b.msg = f.msg /\ b.indeterminate = f.indeterminate /\ b.authentic = f.authentic
      /\ b.i = f.i /\ b.kind = f.kind /\ b.asked = f.asked /\ b.failed = f.failed
  BY Zenon, <1>1 DEF IsFrame, Fields
<1>5. /\ IsFrame(w) /\ w.todo = f.todo \ {s} /\ w.usable = TRUE /\ w.bogus = f.bogus /\ w.sig = s
      /\ w.pc = f.pc /\ w.msg = f.msg /\ w.indeterminate = f.indeterminate /\ w.authentic = f.authentic
      /\ w.i = f.i /\ w.kind = f.kind /\ w.asked = f.asked /\ w.failed = f.failed
  BY Zenon, <1>1 DEF IsFrame, Fields
<1>6. Consider(f, s) = IF s.alg # "good" THEN g
                       ELSE IF ~s.covers THEN u
                       ELSE IF s.time # "now" \/ ~isInBailiwick(f.msg.qname, s.signer) THEN b ELSE h
  BY DEF Consider
<1> HIDE DEF g, u, b, w
<1>7. CASE s.alg # "good"
  <2>1. LoopOK(g, ph)
    BY <1>1, <1>2, <1>7 DEF LoopOK, Excused
  <2>2. FrameType(g) /\ BetweenOK(g) /\ g.pc = "sig" /\ g.pc \notin Fetching
    BY <1>1, <1>2 DEF FrameType, BetweenOK, Fetching
  <2> QED  BY <1>1, <1>2, <1>6, <1>7, <2>1, <2>2 DEF FrameOK
<1>8. CASE s.alg = "good" /\ ~s.covers
  <2>1. LoopOK(u, ph)
    BY <1>1, <1>3 DEF LoopOK, Excused
  <2>2. ~f.msg.honest
    BY <1>1, <1>8 DEF MsgOK
  <2>3. FrameType(u) /\ BetweenOK(u) /\ u.pc = "sig" /\ u.pc \notin Fetching
    BY Zenon, <1>1, <1>3, <2>2 DEF FrameType, BetweenOK, Fetching
  <2> QED  BY Zenon, <1>1, <1>3, <1>6, <1>8, <2>1, <2>3 DEF FrameOK
<1>9. CASE s.alg = "good" /\ s.covers /\ (s.time # "now" \/ ~isInBailiwick(f.msg.qname, s.signer))
  <2>1. ~(f.msg.honest /\ ~IsDenial(f.msg))
    BY <1>1, <1>9 DEF MsgOK
  <2>2. LoopOK(b, ph)
    BY <1>1, <1>4, <2>1 DEF LoopOK, Excused
  <2>3. FrameType(b) /\ BetweenOK(b) /\ b.pc = "sig" /\ b.pc \notin Fetching
    BY <1>1, <1>4, <2>1 DEF FrameType, BetweenOK, Fetching
  <2> QED  BY Zenon, <1>1, <1>4, <1>6, <1>9, <2>2, <2>3 DEF FrameOK
<1>10. CASE s.alg = "good" /\ s.covers /\ s.time = "now" /\ isInBailiwick(f.msg.qname, s.signer)
  <2>0. FetchOf(h, w, "DNSKEY", s.signer)
    BY <1>5, FetchFields
  <2> HIDE DEF h
  <2>1. /\ IsFrame(h) /\ h.pc = "cache" /\ h.kind = "DNSKEY" /\ h.zone = s.signer /\ h.result = Failed
        /\ h.msg = f.msg /\ h.todo = f.todo \ {s} /\ h.usable = TRUE /\ h.bogus = f.bogus
        /\ h.indeterminate = f.indeterminate /\ h.authentic = f.authentic /\ h.sig = s
        /\ h.i = f.i /\ h.failed = f.failed
    BY <1>5, <2>0 DEF FetchOf
  <2>2. LoopOK(h, ph)
    BY <1>1, <2>1 DEF LoopOK, Excused
  <2>3. s.signer \in Zones /\ ph[s.signer] \in Nat
    BY <1>1 DEF MsgOK, Phases
  <2>4. FetchOK(h, ph)
    BY <1>1, <1>10, <2>1, <2>3 DEF FetchOK, Candidate, Failed
  <2>5. FrameType(h) /\ h.pc \in Fetching /\ h.pc # "sig" /\ h.pc # "done"
    BY Zenon, <1>1, <2>1 DEF FrameType, Fetching, Kinds
  <2>6. FrameOK(h, ph, c)
    BY <1>1, <2>1, <2>2, <2>4, <2>5 DEF FrameOK
  <2> QED  BY <1>6, <1>10, <2>6
<1> QED  BY <1>7, <1>8, <1>9, <1>10

\* A verdict that is right ends the validation.
LEMMA EndOK ==
    ASSUME NEW ph, NEW c, NEW f, MsgOK(f.msg, c), NEW v, NEW h, EndOf(h, f, v), DoneOK(h, ph, c)
    PROVE  FrameOK(h, ph, c)
<1>1. FrameType(h) /\ h.pc = "done" /\ h.pc \notin Fetching
  BY DEF EndOf, FrameType, Fetching, Kinds
<1>2. MsgOK(h.msg, c)
  BY DEF EndOf
<1> QED  BY <1>1, <1>2 DEF FrameOK

\* The verdict on an answer none of whose signatures was good.
LEMMA AnswerOK ==
    ASSUME NEW ph, NEW c, NEW f, FrameOK(f, ph, c), f.pc = "sig", f.todo = {}, ~IsDenial(f.msg)
    PROVE  FrameOK(Done(f, AnswerVerdict(f)), ph, c)
<1> DEFINE v == AnswerVerdict(f)
           h == Done(f, v)
<1>1. MsgOK(f.msg, c) /\ LoopOK(f, ph) /\ BetweenOK(f)
  BY DEF FrameOK
<1>2. v = IF ~f.usable THEN "Insecure" ELSE IF f.bogus THEN "Bogus" ELSE "Indeterminate"
  BY DEF AnswerVerdict
<1>3. EndOf(h, f, v)
  BY EndFields
<1> HIDE DEF h, v
<1>4. v = "Insecure" => \A s \in f.msg.sigs : s.alg # "good"
  BY <1>1, <1>2 DEF LoopOK
<1>5. f.msg.honest /\ v = "Indeterminate" => Excused(f, ph)
  BY <1>1, <1>2 DEF LoopOK, BetweenOK
<1>6. f.msg.honest => v # "Bogus"
  BY <1>1, <1>2 DEF LoopOK
<1>7. h.verdict = v /\ h.msg = f.msg /\ h.failed = f.failed /\ v # "Secure"
  BY Zenon, <1>2, <1>3 DEF EndOf
<1>8. DoneOK(h, ph, c)
  BY Zenon, <1>4, <1>5, <1>6, <1>7 DEF DoneOK, Excused
<1>9. FrameOK(h, ph, c)
  BY <1>1, <1>3, <1>8, EndOK
<1> QED  BY <1>9 DEF h, v

\* An NSEC3 record does not cover its own hash.
LEMMA OwnHash == ASSUME NEW a \in Nat, NEW b PROVE ~coversHashFull(a, b, a)
BY DEF coversHashFull

\* The verdict on a denial.
LEMMA DenialOK ==
    ASSUME NEW ph, NEW c, NEW f, FrameOK(f, ph, c), f.pc = "sig", f.todo = {}, IsDenial(f.msg)
    PROVE  FrameOK(Done(f, DenialVerdict(f)), ph, c)
<1> DEFINE v == DenialVerdict(f)
           h == Done(f, v)
           nsec3 == {r \in f.authentic \ {None} : "iterations" \in DOMAIN r}
           nsec == (f.authentic \ {None}) \ nsec3
           denied3 == IF nsec3 = {} THEN "no" ELSE VerifyNSEC3DenialFull(f.msg.qname, nsec3)
<1>1. MsgOK(f.msg, c) /\ LoopOK(f, ph)
  BY DEF FrameOK
<1>2. \A r \in f.authentic \ {None} : RecordOK(f.msg, r, c)
  BY Zenon, <1>1 DEF LoopOK, MsgOK
<1>3. v = IF ~f.usable THEN "Insecure"
          ELSE IF f.authentic = {} THEN IF f.bogus \/ ~f.indeterminate THEN "Bogus" ELSE "Indeterminate"
          ELSE IF denied3 = "error" THEN "Indeterminate"
          ELSE IF \/ denied3 = "denied"
                  \/ nsec # {} /\ VerifyNSECDenial(f.msg.qname, f.msg.qtype, f.msg.rcode, nsec)
               THEN "Secure" ELSE "Bogus"
  BY DEF DenialVerdict
<1>4. EndOf(h, f, v)
  BY EndFields
<1>5. \A r \in nsec3 : r.iterations = 0 /\ (f.msg.rcode = "NOERROR" => Hash[f.msg.qname] \in Nat /\ r.owner = Hash[f.msg.qname])
  BY <1>2 DEF RecordOK
<1>6. \A r \in nsec : f.msg.rcode = "NOERROR" => r.types = c[r.owner]
  BY <1>2 DEF RecordOK
<1> HIDE DEF h, v, nsec3, nsec
<1>7. denied3 # "error"
  BY <1>5 DEF VerifyNSEC3DenialFull, MaxNSEC3Iterations
<1>8. f.msg.rcode = "NOERROR" => denied3 # "denied"
  BY <1>5, OwnHash DEF VerifyNSEC3DenialFull
<1> HIDE DEF denied3
<1>9. v = "Insecure" => \A s \in f.msg.sigs : s.alg # "good"
  BY <1>1, <1>3 DEF LoopOK
<1>10. v = "Indeterminate" => Excused(f, ph)
  BY <1>1, <1>3, <1>7 DEF LoopOK
<1>11. v = "Secure" /\ f.msg.rcode = "NOERROR" => c[f.msg.qname] \cap {f.msg.qtype, "CNAME"} = {}
  <2>1. SUFFICES ASSUME v = "Secure", f.msg.rcode = "NOERROR" PROVE c[f.msg.qname] \cap {f.msg.qtype, "CNAME"} = {}
    OBVIOUS
  <2>2. VerifyNSECDenial(f.msg.qname, f.msg.qtype, f.msg.rcode, nsec)
    BY <1>3, <1>8, <2>1
  <2>3. NoData(f.msg.qname, f.msg.qtype, nsec)
    BY <2>1, <2>2 DEF VerifyNSECDenial
  <2> QED  BY <1>6, <2>1, <2>3 DEF NoData
<1>12. h.verdict = v /\ h.msg = f.msg /\ h.failed = f.failed
  BY Zenon, <1>4 DEF EndOf
<1>13. DoneOK(h, ph, c)
  BY Zenon, <1>9, <1>10, <1>11, <1>12 DEF DoneOK, Excused
<1>14. FrameOK(h, ph, c)
  BY Zenon, <1>1, <1>4, <1>13, EndOK
<1> QED  BY <1>14 DEF h, v

\* A fetch goes on: what changes is where it is, its result and the failures.
Moves(h, f) ==
    /\ IsFrame(h)
    /\ h.msg = f.msg /\ h.todo = f.todo /\ h.usable = f.usable /\ h.bogus = f.bogus
    /\ h.indeterminate = f.indeterminate /\ h.authentic = f.authentic /\ h.sig = f.sig
    /\ h.i = f.i /\ h.kind = f.kind /\ h.zone = f.zone /\ h.keys = f.keys
    /\ f.failed => h.failed

LEMMA MoveOK ==
    ASSUME NEW ph, NEW c, NEW f, FrameOK(f, ph, c), f.pc \in Fetching,
           NEW h, Moves(h, f), h.pc \in Fetching,
           h.result \in 0 .. ph[f.zone], h.result # Failed => Recent(h.result, f.zone, ph),
           h.pc \in {"release", "close", "got"} /\ h.result = Failed => h.failed
    PROVE  FrameOK(h, ph, c)
<1>1. FrameType(f) /\ MsgOK(f.msg, c) /\ LoopOK(f, ph) /\ FetchOK(f, ph)
  BY Zenon DEF FrameOK, Fetching
<1>2. FrameType(h) /\ h.pc # "sig" /\ h.pc # "done"
  BY Zenon, <1>1 DEF FrameType, Moves, Fetching
<1>3. LoopOK(h, ph)
  BY <1>1 DEF LoopOK, Moves, Excused
<1>4. FetchOK(h, ph)
  BY Zenon, <1>1 DEF FetchOK, Moves, Chain
<1>5. MsgOK(h.msg, c)
  BY Zenon, <1>1 DEF Moves
<1> QED  BY Zenon, <1>2, <1>3, <1>4, <1>5 DEF FrameOK

\* A fetch starts, for the link it belongs to.
LEMMA FetchStartsOK ==
    ASSUME NEW ph, Phases(ph), NEW c, NEW f, FrameType(f), MsgOK(f.msg, c), LoopOK(f, ph),
           f.usable, Candidate(f.msg, f.sig), NEW kind \in Kinds, NEW z \in Zones,
           kind = "DS" => f.i > 1 /\ f.keys \in 1 .. ph[z] /\ Recent(f.keys, z, ph),
           f.i > 0, ~IsDenial(f.msg), f.sig.intact, KnownKey(f.sig, ph),
           f.i \in 1 .. Len(f.sig.signer) + 1, z = Chain(f)[f.i],
           \A j \in 2 .. f.i - 1 : Delegated(Chain(f)[j], ph)
    PROVE  FrameOK(Fetch(f, kind, z), ph, c)
<1> DEFINE h == Fetch(f, kind, z)
<1>1. FetchOf(h, f, kind, z)
  BY Zenon, FetchFields DEF FrameType
<1> HIDE DEF h
<1>2. /\ FrameType(h) /\ h.pc \in Fetching /\ h.pc \notin {"sig", "done", "release", "close", "got"}
      /\ Chain(h) = Chain(f)
  BY Zenon, <1>1 DEF FetchOf, FrameType, Fetching, Chain
<1>3. LoopOK(h, ph)
  BY <1>1 DEF LoopOK, FetchOf, Excused
<1>4. ph[z] \in Nat
  BY DEF Phases
<1>5. FetchOK(h, ph)
  BY <1>1, <1>2, <1>4 DEF FetchOK, FetchOf, Failed
<1>6. FrameOK(h, ph, c)
  BY <1>1, <1>2, <1>3, <1>5 DEF FrameOK, FetchOf
<1> QED  BY Zenon, <1>6 DEF h

\* The signer's keys are there.
LEMMA SignatureOK ==
    ASSUME NEW ph, Phases(ph), NEW c, NEW f, FrameOK(f, ph, c), f.pc = "got", f.i = 0
    PROVE  LET b == Fetched(f)
               s == f.sig
           IN  FrameOK(IF f.result = Failed \/ s.key \notin Records("DNSKEY", s.signer, f.result)
                       THEN [b EXCEPT !.indeterminate = TRUE]
                       ELSE IF ~s.intact THEN [b EXCEPT !.bogus = TRUE]
                       ELSE IF IsDenial(b.msg) THEN [b EXCEPT !.authentic = @ \cup {s.over}]
                       ELSE Fetch([f EXCEPT !.i = 1, !.todo = {}], "DNSKEY", << >>), ph, c)
<1> DEFINE b == Fetched(f)
           s == f.sig
           n == [b EXCEPT !.indeterminate = TRUE]
           d == [b EXCEPT !.bogus = TRUE]
           a == [b EXCEPT !.authentic = @ \cup {s.over}]
           w == [f EXCEPT !.i = 1, !.todo = {}]
<1>1. FrameType(f) /\ MsgOK(f.msg, c) /\ LoopOK(f, ph) /\ FetchOK(f, ph) /\ IsFrame(f)
  BY DEF FrameOK, FrameType, Fetching
<1>2. BackInLoop(b, f)
  BY Zenon, <1>1, FetchedFields
<1>3. Candidate(f.msg, s) /\ s.signer \in Zones /\ ph[s.signer] \in Nat \ {0} /\ f.zone = s.signer /\ f.usable
  BY <1>1 DEF FetchOK, Candidate, MsgOK, Phases
<1> HIDE DEF b
<1>4. /\ IsFrame(n) /\ n.indeterminate = TRUE /\ n.bogus = b.bogus /\ n.authentic = b.authentic
      /\ n.pc = b.pc /\ n.kind = b.kind /\ n.msg = b.msg /\ n.todo = b.todo /\ n.usable = b.usable
      /\ n.i = b.i /\ n.failed = b.failed
  BY Zenon, <1>2 DEF BackInLoop, IsFrame, Fields
<1>5. /\ IsFrame(d) /\ d.indeterminate = b.indeterminate /\ d.bogus = TRUE /\ d.authentic = b.authentic
      /\ d.pc = b.pc /\ d.kind = b.kind /\ d.msg = b.msg /\ d.todo = b.todo /\ d.usable = b.usable
      /\ d.i = b.i /\ d.failed = b.failed
  BY Zenon, <1>2 DEF BackInLoop, IsFrame, Fields
<1>6. /\ IsFrame(a) /\ a.indeterminate = b.indeterminate /\ a.bogus = b.bogus
      /\ a.authentic = b.authentic \cup {s.over}
      /\ a.pc = b.pc /\ a.kind = b.kind /\ a.msg = b.msg /\ a.todo = b.todo /\ a.usable = b.usable
      /\ a.i = b.i /\ a.failed = b.failed
  BY Zenon, <1>2 DEF BackInLoop, IsFrame, Fields
<1>7. /\ IsFrame(w) /\ w.indeterminate = f.indeterminate /\ w.bogus = f.bogus /\ w.authentic = f.authentic
      /\ w.pc = f.pc /\ w.kind = f.kind /\ w.msg = f.msg /\ w.todo = {} /\ w.usable = f.usable
      /\ w.i = 1 /\ w.failed = f.failed /\ w.sig = f.sig
  BY Zenon, <1>1 DEF IsFrame, Fields
<1> HIDE DEF n, d, a, w
<1>8. CASE f.result = Failed \/ s.key \notin Records("DNSKEY", s.signer, f.result)
  <2>1. Excused(f, ph)
    <3>1. f.result = Failed => f.failed
      BY Zenon, <1>1 DEF FetchOK
    <3>2. f.result # Failed => f.result \in 1 .. ph[s.signer]
      BY <1>1, <1>3 DEF FetchOK, Failed
    <3>3. f.result # Failed => MissingKey(s, ph)
      BY Zenon, <1>8, <3>2 DEF MissingKey
    <3> QED  BY Zenon, <1>3, <3>1, <3>3 DEF Excused, Candidate
  <2>2. LoopOK(n, ph)
    BY <1>1, <1>2, <1>4, <2>1 DEF LoopOK, Excused, BackInLoop
  <2>3. FrameType(n) /\ n.pc = "sig" /\ n.pc \notin Fetching /\ BetweenOK(n)
    BY Zenon, <1>1, <1>2, <1>4 DEF FrameType, BetweenOK, BackInLoop, Fetching
  <2>4. FrameOK(n, ph, c)
    BY Zenon, <1>1, <1>2, <1>4, <2>2, <2>3 DEF FrameOK, BackInLoop
  <2> QED  BY <1>8, <2>4 DEF n, b
<1>9. CASE f.result # Failed /\ s.key \in Records("DNSKEY", s.signer, f.result) /\ ~s.intact
  <2>1. ~(f.msg.honest /\ ~IsDenial(f.msg))
    BY Zenon, <1>1, <1>3, <1>9 DEF MsgOK, Candidate
  <2>2. LoopOK(d, ph)
    BY <1>1, <1>2, <1>5, <2>1 DEF LoopOK, Excused, BackInLoop
  <2>3. FrameType(d) /\ d.pc = "sig" /\ d.pc \notin Fetching /\ BetweenOK(d)
    BY Zenon, <1>1, <1>2, <1>5, <2>1 DEF FrameType, BetweenOK, BackInLoop, Fetching
  <2>4. FrameOK(d, ph, c)
    BY <1>1, <1>2, <1>5, <2>2, <2>3 DEF FrameOK, BackInLoop
  <2> QED  BY Zenon, <1>9, <2>4 DEF d, b
<1>10. CASE f.result # Failed /\ s.key \in Records("DNSKEY", s.signer, f.result) /\ s.intact /\ IsDenial(f.msg)
  <2>1. LoopOK(a, ph)
    BY <1>1, <1>2, <1>3, <1>6 DEF LoopOK, Excused, BackInLoop, Candidate
  <2>2. FrameType(a) /\ a.pc = "sig" /\ a.pc \notin Fetching /\ BetweenOK(a)
    BY Zenon, <1>1, <1>2, <1>6, <1>10 DEF FrameType, BetweenOK, BackInLoop, Fetching
  <2>3. FrameOK(a, ph, c)
    BY Zenon, <1>1, <1>2, <1>6, <2>1, <2>2 DEF FrameOK, BackInLoop
  <2>4. IsDenial(b.msg)
    BY <1>2, <1>10 DEF BackInLoop
  <2> QED  BY Zenon, <1>10, <2>3, <2>4 DEF a, b
<1>11. CASE f.result # Failed /\ s.key \in Records("DNSKEY", s.signer, f.result) /\ s.intact /\ ~IsDenial(f.msg)
  <2>1. KnownKey(s, ph)
    BY <1>1, <1>3, <1>11 DEF FetchOK, Failed, KnownKey
  <2>2. FrameType(w) /\ LoopOK(w, ph)
    BY <1>1, <1>3, <1>7 DEF FrameType, LoopOK, Excused
  <2>3. << >> \in Zones /\ 1 \in 1 .. Len(s.signer) + 1 /\ << >> = Chain(w)[1]
    BY <1>3, <1>7, ChainLinks, ZoneAssumption DEF Chain
  <2>4. FrameOK(Fetch(w, "DNSKEY", << >>), ph, c)
    <3>1. w.i > 0 /\ w.i \in 1 .. Len(w.sig.signer) + 1 /\ << >> = Chain(w)[w.i]
      BY <1>7, <2>3
    <3>2. \A j \in 2 .. w.i - 1 : Delegated(Chain(w)[j], ph)
      BY <1>7
    <3>3. /\ MsgOK(w.msg, c) /\ w.usable /\ Candidate(w.msg, w.sig) /\ ~IsDenial(w.msg) /\ w.sig.intact
          /\ KnownKey(w.sig, ph)
      BY <1>1, <1>3, <1>7, <1>11, <2>1
    <3>4. "DNSKEY" \in Kinds
      BY Zenon DEF Kinds
    <3> QED  BY Zenon, <2>2, <2>3, <3>1, <3>2, <3>3, <3>4, FetchStartsOK
  <2>5. ~IsDenial(b.msg)
    BY <1>2, <1>11 DEF BackInLoop
  <2> QED  BY Zenon, <1>11, <2>4, <2>5 DEF w, b
<1> QED  BY <1>8, <1>9, <1>10, <1>11

\* The next link of a chain whose links down to this one are delegated.
LEMMA NextLinkOK ==
    ASSUME NEW ph, Phases(ph), NEW c, NEW f, FrameOK(f, ph, c), f.pc = "got", f.i > 0,
           f.i > 1 => Delegated(f.zone, ph)
    PROVE  FrameOK(NextLink(f), ph, c)
<1> DEFINE w == [f EXCEPT !.i = @ + 1]
           h == Done(f, "Secure")
<1>1. FrameType(f) /\ MsgOK(f.msg, c) /\ LoopOK(f, ph) /\ FetchOK(f, ph) /\ IsFrame(f)
  BY DEF FrameOK, FrameType, Fetching
<1>2. /\ Candidate(f.msg, f.sig) /\ f.sig.signer \in Zones /\ f.usable /\ ~IsDenial(f.msg) /\ f.sig.intact
      /\ KnownKey(f.sig, ph) /\ f.i \in 1 .. Len(f.sig.signer) + 1 /\ f.zone = Chain(f)[f.i]
      /\ \A j \in 2 .. f.i - 1 : Delegated(Chain(f)[j], ph)
  BY Zenon, <1>1 DEF FetchOK, Candidate, MsgOK
<1>3. /\ Len(f.sig.signer) \in Nat /\ Len(Chain(f)) = Len(f.sig.signer) + 1
      /\ \A j \in 1 .. Len(f.sig.signer) + 1 : Chain(f)[j] \in Zones
  BY Zenon, <1>2, ChainLinks DEF Chain
<1>4. \A j \in 2 .. f.i : Delegated(Chain(f)[j], ph)
  BY <1>2, <1>3
<1>5. CASE f.i = Len(Chain(f))
  <2>1. EndOf(h, f, "Secure")
    BY EndFields
  <2> HIDE DEF h
  <2>2. h.verdict = "Secure" /\ h.msg = f.msg
    BY <2>1 DEF EndOf
  <2>3. \A j \in 2 .. Len(f.sig.signer) + 1 : Delegated(buildZoneChain(f.sig.signer)[j], ph)
    BY Zenon, <1>3, <1>4, <1>5 DEF Chain
  <2>4. DoneOK(h, ph, c)
    BY <1>2, <2>2, <2>3 DEF DoneOK, Candidate
  <2>5. FrameOK(h, ph, c)
    BY Zenon, <1>1, <2>1, <2>4, EndOK
  <2> QED  BY <1>5, <2>5 DEF h, NextLink
<1>6. CASE f.i # Len(Chain(f))
  <2>1. /\ IsFrame(w) /\ w.indeterminate = f.indeterminate /\ w.bogus = f.bogus /\ w.authentic = f.authentic
        /\ w.pc = f.pc /\ w.kind = f.kind /\ w.msg = f.msg /\ w.todo = f.todo /\ w.usable = f.usable
        /\ w.i = f.i + 1 /\ w.failed = f.failed /\ w.sig = f.sig
    BY Zenon, <1>1 DEF IsFrame, Fields
  <2> HIDE DEF w
  <2>2. FrameType(w) /\ LoopOK(w, ph)
    BY <1>1, <2>1 DEF FrameType, LoopOK, Excused
  <2>3. /\ w.i > 0 /\ w.i \in 1 .. Len(w.sig.signer) + 1 /\ Chain(w) = Chain(f) /\ Chain(f)[f.i + 1] = Chain(w)[w.i]
        /\ Chain(f)[f.i + 1] \in Zones
    BY <1>2, <1>3, <1>6, <2>1 DEF Chain
  <2>4. \A j \in 2 .. w.i - 1 : Delegated(Chain(w)[j], ph)
    BY <1>2, <1>3, <1>4, <2>1, <2>3
  <2>5. /\ MsgOK(w.msg, c) /\ w.usable /\ Candidate(w.msg, w.sig) /\ ~IsDenial(w.msg) /\ w.sig.intact
        /\ KnownKey(w.sig, ph)
    BY Zenon, <1>1, <1>2, <2>1
  <2>6. "DNSKEY" \in Kinds
    BY DEF Kinds
  <2>7. FrameOK(Fetch(w, "DNSKEY", Chain(f)[f.i + 1]), ph, c)
    BY Zenon, <2>2, <2>3, <2>4, <2>5, <2>6, FetchStartsOK
  <2> QED  BY <1>6, <2>7 DEF w, NextLink
<1> QED  BY <1>5, <1>6

\* A failed fetch leaves a chain undecided.
LEMMA UndecidedOK ==
    ASSUME NEW ph, NEW c, NEW f, MsgOK(f.msg, c), f.failed
    PROVE  FrameOK(Done(f, "Indeterminate"), ph, c)
<1> DEFINE h == Done(f, "Indeterminate")
<1>1. EndOf(h, f, "Indeterminate")
  BY EndFields
<1> HIDE DEF h
<1>2. h.verdict = "Indeterminate" /\ h.msg = f.msg /\ h.failed
  BY Zenon, <1>1 DEF EndOf
<1>3. DoneOK(h, ph, c)
  BY <1>2 DEF DoneOK, Excused
<1>4. FrameOK(h, ph, c)
  BY <1>1, <1>3, EndOK
<1> QED  BY <1>4 DEF h

\* What does not fit is bogus; with zones that roll by the book everything does.
LEMMA BogusOK ==
    ASSUME NEW ph, NEW c, NEW f, MsgOK(f.msg, c), ~RollsByTheBook
    PROVE  FrameOK(Done(f, "Bogus"), ph, c)
<1> DEFINE h == Done(f, "Bogus")
<1>1. EndOf(h, f, "Bogus")
  BY EndFields
<1> HIDE DEF h
<1>2. h.verdict = "Bogus" /\ h.msg = f.msg
  BY Zenon, <1>1 DEF EndOf
<1>3. DoneOK(h, ph, c)
  BY <1>2 DEF DoneOK
<1>4. FrameOK(h, ph, c)
  BY <1>1, <1>3, EndOK
<1> QED  BY <1>4 DEF h

\* The keys of a link.
LEMMA KeysOK ==
    ASSUME NEW ph, Phases(ph), NEW c, NEW f, FrameOK(f, ph, c), f.pc = "got", f.i > 0, f.kind = "DNSKEY"
    PROVE  FrameOK(IF f.result = Failed THEN Done(f, "Indeterminate")
                   ELSE IF f.i > 1 THEN Fetch([f EXCEPT !.keys = f.result], "DS", f.zone)
                   ELSE IF VerifyDS(Records("DNSKEY", << >>, f.result), TrustAnchors) THEN NextLink(f)
                   ELSE Done(f, "Bogus"), ph, c)
<1> DEFINE w == [f EXCEPT !.keys = f.result]
<1>1. FrameType(f) /\ MsgOK(f.msg, c) /\ LoopOK(f, ph) /\ FetchOK(f, ph) /\ IsFrame(f) /\ f.i \in Nat
  BY DEF FrameOK, FrameType, Fetching
<1>2. /\ Candidate(f.msg, f.sig) /\ f.sig.signer \in Zones /\ f.usable /\ ~IsDenial(f.msg) /\ f.sig.intact
      /\ KnownKey(f.sig, ph) /\ f.i \in 1 .. Len(f.sig.signer) + 1 /\ f.zone = Chain(f)[f.i] /\ f.zone \in Zones
      /\ \A j \in 2 .. f.i - 1 : Delegated(Chain(f)[j], ph)
  BY Zenon, <1>1 DEF FetchOK, Candidate, MsgOK
<1>3. Len(Published[f.zone]) \in Nat /\ ph[f.zone] \in 1 .. Len(Published[f.zone])
  BY <1>2 DEF Phases
<1>4. CASE f.result = Failed
  <2>1. f.failed
    BY <1>1, <1>4 DEF FetchOK
  <2> QED  BY Zenon, <1>1, <1>4, <2>1, UndecidedOK
<1>5. CASE f.result # Failed /\ f.i > 1
  <2>1. /\ IsFrame(w) /\ w.indeterminate = f.indeterminate /\ w.bogus = f.bogus /\ w.authentic = f.authentic
        /\ w.pc = f.pc /\ w.kind = f.kind /\ w.msg = f.msg /\ w.todo = f.todo /\ w.usable = f.usable
        /\ w.i = f.i /\ w.failed = f.failed /\ w.sig = f.sig /\ w.keys = f.result
    BY Zenon, <1>1 DEF IsFrame, Fields
  <2> HIDE DEF w
  <2>2. FrameType(w) /\ LoopOK(w, ph)
    BY <1>1, <2>1 DEF FrameType, LoopOK, Excused
  <2>3. w.i > 1 /\ w.keys \in 1 .. ph[f.zone] /\ Recent(w.keys, f.zone, ph)
    BY <1>1, <1>3, <1>5, <2>1 DEF FetchOK, Failed
  <2>4. /\ w.i > 0 /\ w.i \in 1 .. Len(w.sig.signer) + 1 /\ f.zone = Chain(w)[w.i]
        /\ \A j \in 2 .. w.i - 1 : Delegated(Chain(w)[j], ph)
    BY Zenon, <1>1, <1>2, <1>5, <2>1 DEF Chain
  <2>5. /\ MsgOK(w.msg, c) /\ w.usable /\ Candidate(w.msg, w.sig) /\ ~IsDenial(w.msg) /\ w.sig.intact
        /\ KnownKey(w.sig, ph)
    BY <1>1, <1>2, <2>1
  <2>6. "DS" \in Kinds
    BY DEF Kinds
  <2>7. FrameOK(Fetch(w, "DS", f.zone), ph, c)
    BY Zenon, <1>2, <2>2, <2>3, <2>4, <2>5, <2>6, FetchStartsOK
  <2> QED  BY <1>5, <2>7 DEF w
<1>6. CASE f.result # Failed /\ ~(f.i > 1)
  <2>1. f.i = 1 /\ f.zone = << >>
    BY <1>1, <1>2, <1>6, ChainLinks DEF Chain
  <2>2. CASE VerifyDS(Records("DNSKEY", << >>, f.result), TrustAnchors)
    BY <1>6, <2>1, <2>2, NextLinkOK
  <2>3. CASE ~VerifyDS(Records("DNSKEY", << >>, f.result), TrustAnchors)
    <3>1. f.result \in 1 .. Len(Published[<< >>])
      BY <1>1, <1>3, <1>6, <2>1 DEF FetchOK, Failed
    <3>2. ~RollsByTheBook
      BY Zenon, <2>3, <3>1 DEF RollsByTheBook
    <3> QED  BY Zenon, <1>1, <1>6, <2>3, <3>2, BogusOK
  <2> QED  BY Zenon, <2>2, <2>3
<1> QED  BY Zenon, <1>4, <1>5, <1>6

\* The DS records of a link.
LEMMA DSOK ==
    ASSUME NEW ph, Phases(ph), NEW c, NEW f, FrameOK(f, ph, c), f.pc = "got", f.kind = "DS"
    PROVE  LET ds == Records("DS", f.zone, f.result)
           IN  FrameOK(IF f.result = Failed THEN Done(f, "Indeterminate")
                       ELSE IF ds \subseteq WeakDS THEN Done(f, "Insecure")
                       ELSE IF VerifyDS(Records("DNSKEY", f.zone, f.keys), ds) THEN NextLink(f)
                       ELSE Done(f, "Bogus"), ph, c)
<1> DEFINE ds == Records("DS", f.zone, f.result)
           h == Done(f, "Insecure")
<1>1. MsgOK(f.msg, c) /\ FetchOK(f, ph) /\ f.i \in Nat
  BY Zenon DEF FrameOK, FrameType, Fetching
<1>2. /\ f.sig \in f.msg.sigs /\ f.i > 1 /\ f.i \in 2 .. Len(f.sig.signer) + 1
      /\ f.zone = buildZoneChain(f.sig.signer)[f.i] /\ f.zone \in Zones
      /\ f.keys \in 1 .. ph[f.zone] /\ Recent(f.keys, f.zone, ph)
  BY <1>1 DEF FetchOK, Candidate, Chain
<1>3. Len(Published[f.zone]) \in Nat /\ ph[f.zone] \in 1 .. Len(Published[f.zone])
  BY Zenon, <1>2 DEF Phases
<1>4. f.result # Failed => f.result \in 1 .. ph[f.zone] /\ Recent(f.result, f.zone, ph)
  BY <1>1, <1>3 DEF FetchOK, Failed
<1> HIDE DEF ds
<1>5. CASE f.result = Failed
  <2>1. f.failed
    BY Zenon, <1>1, <1>5 DEF FetchOK
  <2> QED  BY Zenon, <1>1, <1>5, <2>1, UndecidedOK
<1>6. CASE f.result # Failed /\ ds \subseteq WeakDS
  <2>1. EndOf(h, f, "Insecure")
    BY EndFields
  <2> HIDE DEF h
  <2>2. h.verdict = "Insecure" /\ h.msg = f.msg
    BY <2>1 DEF EndOf
  <2>3. Undelegated(f.zone, ph)
    BY Zenon, <1>4, <1>6 DEF Undelegated, ds
  <2>4. DoneOK(h, ph, c)
    BY <1>2, <2>2, <2>3 DEF DoneOK
  <2>5. FrameOK(h, ph, c)
    BY Zenon, <1>1, <2>1, <2>4, EndOK
  <2> QED  BY <1>6, <2>5 DEF h, ds
<1>7. CASE f.result # Failed /\ ~(ds \subseteq WeakDS) /\ VerifyDS(Records("DNSKEY", f.zone, f.keys), ds)
  <2>1. Delegated(f.zone, ph)
    BY Zenon, <1>4, <1>7 DEF Delegated, ds
  <2>2. FrameOK(NextLink(f), ph, c)
    BY <1>2, <2>1, NextLinkOK
  <2> QED  BY Zenon, <1>7, <2>2 DEF ds
<1>8. CASE f.result # Failed /\ ~(ds \subseteq WeakDS) /\ ~VerifyDS(Records("DNSKEY", f.zone, f.keys), ds)
  <2>1. /\ f.keys \in 1 .. Len(Published[f.zone]) /\ f.result \in 1 .. Len(Published[f.zone])
        /\ f.result \in f.keys - 1 .. f.keys + 1
    <3>1. \A L \in Nat : \A now \in 1 .. L : \A k, r \in 1 .. now :
            k \in {now, now - 1} /\ r \in {now, now - 1} =>
                k \in 1 .. L /\ r \in 1 .. L /\ r \in k - 1 .. k + 1
      OBVIOUS
    <3>2. f.result \in 1 .. ph[f.zone] /\ f.result \in {ph[f.zone], ph[f.zone] - 1}
      BY Zenon, <1>4, <1>8 DEF Recent
    <3>3. f.keys \in 1 .. ph[f.zone] /\ f.keys \in {ph[f.zone], ph[f.zone] - 1}
      BY Zenon, <1>2 DEF Recent
    <3> QED  BY <1>3, <3>1, <3>2, <3>3
  <2>2. ~RollsByTheBook
    BY Zenon, <1>2, <1>8, <2>1 DEF RollsByTheBook, ds
  <2>3. FrameOK(Done(f, "Bogus"), ph, c)
    BY <1>1, <2>2, BogusOK
  <2> QED  BY Zenon, <1>8, <2>3 DEF ds
<1> QED  BY <1>5, <1>6, <1>7, <1>8

-----------------------------------------------------------------------------
(* The responses are what the invariant says of them.                         *)

LEMMA PositiveOK == ASSUME NEW m \in Positive, NEW c PROVE MsgOK(m, c)
BY ResponseAssumption DEF MsgOK

\* A name that has records exists.
LEMMA OwnersExist ==
    ASSUME NEW zone, NEW n \in DOMAIN zone, n \in Seq(Nat)
    PROVE  ExistsIn(zone, n)
<1>1. Len(n) \in Nat
  OBVIOUS
<1> DEFINE P(k) == /\ k <= Len(n)
                   /\ \A i \in 0 .. k - 1 : n[Len(n) - i] = n[Len(n) - i]
                   /\ k = Len(n) \/ k = Len(n) \/ n[Len(n) - k] # n[Len(n) - k]
<1>2. Len(n) \in 0 .. Len(n) /\ P(Len(n)) /\ \A k \in 0 .. Len(n) : P(k) => k = Len(n)
  BY <1>1
<1>3. (CHOOSE k \in 0 .. Len(n) : P(k)) = Len(n)
  BY <1>2, Zenon
<1>4. commonAncestorLen(n, n) = Len(n) /\ Len(n) <= Len(n)
  BY <1>1, <1>3 DEF commonAncestorLen
<1> QED  BY <1>4 DEF ExistsIn, Ancestor

\* The records of the two chains.
LEMMA ChainRecords ==
    ASSUME NEW zone, NEW r \in NSECChain(zone)
    PROVE  "iterations" \notin DOMAIN r /\ r.types = zone[r.owner]
<1>1. PICK n, x : r = [owner |-> n, next |-> x, types |-> zone[n]]
  BY DEF NSECChain
<1>2. DOMAIN r = {"owner", "next", "types"}
  BY Zenon, <1>1
<1> QED  BY Zenon, <1>1, <1>2

LEMMA ChainRecords3 ==
    ASSUME NEW zone, NEW r \in NSEC3Chain(zone, Universe)
    PROVE  "iterations" \in DOMAIN r /\ r.iterations = 0
<1>1. PICK h, x : r = [owner |-> h, next |-> x, iterations |-> 0]
  BY Zenon DEF NSEC3Chain
<1>2. DOMAIN r = {"owner", "next", "iterations"}
  BY <1>1
<1> QED  BY <1>1, <1>2

LEMMA ProofRecords == ASSUME NEW zone, NEW n PROVE Proof(zone, n) \subseteq NSECChain(zone)
BY Zenon DEF Proof, Gap

LEMMA ProofRecords3 ==
    ASSUME NEW zone, NEW n
    PROVE  /\ Proof3(zone, n, Universe) \subseteq NSEC3Chain(zone, Universe)
           /\ ExistsIn(zone, n) => \A r \in Proof3(zone, n, Universe) : r.owner = Hash[n]
BY Zenon DEF Proof3, Gap

\* There is a proof where a name has records.
LEMMA ProofExists ==
    ASSUME NEW zone, NEW n \in DOMAIN zone, n \in Universe
    PROVE  Proof(zone, n) # {} /\ Proof3(zone, n, Universe) # {}
<1>1. Proof(zone, n) # {}
  <2> DEFINE r == [owner |-> n, next |-> NextIn(DOMAIN zone, n, CanonicalOrder(DOMAIN zone)), types |-> zone[n]]
  <2>1. r \in NSECChain(zone)
    BY DEF NSECChain
  <2> QED  BY <2>1 DEF Proof
<1>2. ExistsIn(zone, n)
  BY Zenon, OwnersExist, NameAssumption
<1>3. Proof3(zone, n, Universe) # {}
  <2>1. n \in Names3(zone, Universe)
    BY Zenon, <1>2 DEF Names3
  <2> DEFINE hashes == {Hash[m] : m \in Names3(zone, Universe)}
             r == [owner |-> Hash[n], next |-> NextIn(hashes, Hash[n], HashOrder(hashes)), iterations |-> 0]
  <2>2. r \in NSEC3Chain(zone, Universe)
    BY Zenon, <2>1 DEF NSEC3Chain
  <2> QED  BY <1>2, <2>2 DEF Proof3
<1> QED  BY <1>1, <1>3

\* What an authority for content denies.
LEMMA DenialsOK ==
    ASSUME content \in Contents, NEW d \in Denials
    PROVE  /\ \A r \in d.proof : RecordOK(d, r, content)
           /\ d.honest => IsDenial(d)
<1> DEFINE Is(q, rcode, proof, honest) ==
               d = [qname |-> q[1], qtype |-> q[2], rcode |-> rcode, proof |-> proof, honest |-> honest]
           Online(n) == {[owner |-> n, next |-> <<Star>> \o n, types |-> {}]}
<1>1. \/ \E q \in Universe \X Types : Plain(q[1]) /\ Is(q, "NOERROR", Proof(content, q[1]), TRUE)
      \/ \E q \in Universe \X Types : Is(q, "NXDOMAIN", Proof(content, q[1]), TRUE)
      \/ \E q \in Universe \X Types : Is(q, "NXDOMAIN", Online(q[1]), TRUE)
      \/ \E q \in Universe \X Types : Plain(q[1]) /\ Is(q, "NOERROR", Proof3(content, q[1], Universe), TRUE)
      \/ \E q \in Universe \X Types : Is(q, "NXDOMAIN", Proof3(content, q[1], Universe), TRUE)
      \/ \E q \in Universe \X Types : \E r \in NSECChain(content) : Is(q, "NOERROR", {r}, FALSE)
  BY DEF Denials
<1>2. ASSUME NEW q \in Universe \X Types, Plain(q[1]), Is(q, "NOERROR", Proof(content, q[1]), TRUE)
      PROVE  (\A r \in d.proof : RecordOK(d, r, content)) /\ IsDenial(d)
  <2>1. q[1] \in DOMAIN content /\ q[1] \in Universe
    BY <1>2 DEF Plain
  <2>2. d.proof = Proof(content, q[1]) /\ d.rcode = "NOERROR"
    BY Zenon, <1>2
  <2> QED  BY <2>1, <2>2, ProofRecords, ProofExists, ChainRecords DEF RecordOK, IsDenial
<1>3. ASSUME NEW q \in Universe \X Types, Is(q, "NXDOMAIN", Proof(content, q[1]), TRUE)
      PROVE  (\A r \in d.proof : RecordOK(d, r, content)) /\ IsDenial(d)
  <2>1. d.proof = Proof(content, q[1]) /\ d.rcode = "NXDOMAIN"
    BY Zenon, <1>3
  <2> QED  BY <2>1, ProofRecords, ChainRecords DEF RecordOK, IsDenial
<1>4. ASSUME NEW q \in Universe \X Types, Is(q, "NXDOMAIN", Online(q[1]), TRUE)
      PROVE  (\A r \in d.proof : RecordOK(d, r, content)) /\ IsDenial(d)
  <2>1. d.proof = Online(q[1]) /\ d.rcode = "NXDOMAIN"
    BY <1>4
  <2>2. ASSUME NEW r \in d.proof PROVE "iterations" \notin DOMAIN r
    <3>1. PICK n, x : r = [owner |-> n, next |-> x, types |-> {}]
      BY Zenon, <2>1
    <3>2. DOMAIN r = {"owner", "next", "types"}
      BY Zenon, <3>1
    <3> QED  BY <3>2
  <2> QED  BY Zenon, <2>1, <2>2 DEF RecordOK, IsDenial
<1>5. ASSUME NEW q \in Universe \X Types, Plain(q[1]), Is(q, "NOERROR", Proof3(content, q[1], Universe), TRUE)
      PROVE  (\A r \in d.proof : RecordOK(d, r, content)) /\ IsDenial(d)
  <2>1. q[1] \in DOMAIN content /\ q[1] \in Universe
    BY <1>5 DEF Plain
  <2>2. d.proof = Proof3(content, q[1], Universe) /\ d.rcode = "NOERROR" /\ d.qname = q[1]
    BY <1>5
  <2>3. ExistsIn(content, q[1]) /\ Hash[q[1]] \in Nat
    BY <2>1, OwnersExist, NameAssumption
  <2>4. d.proof # {}
    BY Zenon, <2>1, <2>2, ProofExists
  <2>5. ASSUME NEW r \in d.proof PROVE "iterations" \in DOMAIN r /\ r.iterations = 0 /\ r.owner = Hash[d.qname]
    BY <2>2, <2>3, ProofRecords3, ChainRecords3
  <2> QED  BY Zenon, <2>2, <2>3, <2>4, <2>5 DEF RecordOK, IsDenial
<1>6. ASSUME NEW q \in Universe \X Types, Is(q, "NXDOMAIN", Proof3(content, q[1], Universe), TRUE)
      PROVE  (\A r \in d.proof : RecordOK(d, r, content)) /\ IsDenial(d)
  <2>1. d.proof = Proof3(content, q[1], Universe) /\ d.rcode = "NXDOMAIN"
    BY Zenon, <1>6
  <2>2. ASSUME NEW r \in d.proof PROVE r.iterations = 0
    BY <2>1, ProofRecords3, ChainRecords3
  <2> QED  BY Zenon, <2>1, <2>2 DEF RecordOK, IsDenial
<1>7. ASSUME NEW q \in Universe \X Types, NEW r \in NSECChain(content), Is(q, "NOERROR", {r}, FALSE)
      PROVE  (\A x \in d.proof : RecordOK(d, x, content)) /\ ~d.honest
  <2>1. d.proof = {r} /\ d.honest = FALSE
    BY <1>7
  <2> QED  BY <2>1, ChainRecords DEF RecordOK
<1> HIDE DEF Is
<1> QED  BY ZenonT(40), <1>1, <1>2, <1>3, <1>4, <1>5, <1>6, <1>7

\* ... and signs.
LEMMA SignedOK ==
    ASSUME content \in Contents, NEW d \in Denials, NEW k
    PROVE  MsgOK(Signed(d, k), content)
<1> DEFINE m == Signed(d, k)
<1>1. /\ m.qname = d.qname /\ m.rcode = d.rcode /\ m.proof = d.proof /\ m.honest = d.honest
      /\ m.sigs = {[signer |-> Apex, key |-> k, alg |-> "good", time |-> "now", over |-> r, covers |-> TRUE,
                    intact |-> TRUE] : r \in d.proof \cup {None}}
  BY Zenon DEF Signed
<1> HIDE DEF m
<1>2. ASSUME NEW s \in m.sigs
      PROVE  s.signer \in Zones /\ s.covers /\ (s.over = None \/ s.over \in d.proof)
  <2>1. PICK r \in d.proof \cup {None} :
            s = [signer |-> Apex, key |-> k, alg |-> "good", time |-> "now", over |-> r, covers |-> TRUE,
                 intact |-> TRUE]
    BY Zenon, <1>1
  <2>2. s.signer = Apex /\ s.covers = TRUE /\ s.over = r
    BY Zenon, <2>1
  <2> QED  BY Zenon, <2>2, ZoneAssumption
<1>3. IsDenial(m) <=> IsDenial(d)
  BY Zenon, <1>1 DEF IsDenial
<1>4. \A r : RecordOK(d, r, content) => RecordOK(m, r, content)
  BY Zenon, <1>1 DEF RecordOK
<1>5. MsgOK(m, content)
  BY <1>1, <1>2, <1>3, <1>4, DenialsOK DEF MsgOK
<1> QED  BY <1>5 DEF m

\* A damaged signature claims no less.
LEMMA DamagedOK ==
    ASSUME content \in Contents, NEW d \in Denials, NEW k, NEW m \in Damaged(Signed(d, k))
    PROVE  MsgOK(m, content)
<1> DEFINE o == Signed(d, k)
           Sig(r) == [signer |-> Apex, key |-> k, alg |-> "good", time |-> "now", over |-> r, covers |-> TRUE,
                      intact |-> TRUE]
<1>1. o = [qname |-> d.qname, qtype |-> d.qtype, rcode |-> d.rcode, proof |-> d.proof, honest |-> d.honest,
           sigs |-> {Sig(r) : r \in d.proof \cup {None}}]
  BY Zenon DEF Signed
<1>2. PICK s \in o.sigs :
          m = [o EXCEPT !.sigs = (@ \ {s}) \cup {[s EXCEPT !.intact = FALSE]}, !.honest = FALSE]
  BY Zenon DEF Damaged
<1> DEFINE b == [s EXCEPT !.intact = FALSE]
<1>3. /\ m.qname = o.qname /\ m.rcode = o.rcode /\ m.proof = o.proof /\ m.honest = FALSE
      /\ m.sigs = (o.sigs \ {s}) \cup {b}
  BY Zenon, <1>1, <1>2
<1>4. b.signer = s.signer /\ b.over = s.over
  <2>1. PICK r \in d.proof \cup {None} : s = Sig(r)
    BY <1>1
  <2> QED  BY Zenon, <2>1
<1>5. MsgOK(o, content)
  BY Zenon, SignedOK
<1> HIDE DEF o, b, Sig
<1>6. IsDenial(m) <=> IsDenial(o)
  BY Zenon, <1>3 DEF IsDenial
<1>7. \A r : RecordOK(o, r, content) => RecordOK(m, r, content)
  BY Zenon, <1>3 DEF RecordOK
<1> QED  BY Zenon, <1>3, <1>4, <1>5, <1>6, <1>7 DEF MsgOK

LEMMA ResponsesOK == ASSUME content \in Contents, NEW m \in Responses PROVE MsgOK(m, content)
<1> DEFINE key == CHOOSE k \in Records("DNSKEY", Apex, phase[Apex]) : TRUE
<1>1. m \in Answers \cup Alone \/ (\E d \in Denials : m = Signed(d, key) \/ m \in Damaged(Signed(d, key)))
  BY DEF Responses
<1> HIDE DEF key
<1> QED  BY Zenon, <1>1, PositiveOK, SignedOK, DamagedOK DEF Positive

-----------------------------------------------------------------------------
(* The stacks.                                                                *)

\* The innermost validation of g becomes f, and nothing else changes.
Replaced(g, f) ==
    /\ Len(stack[g]) \in Nat \ {0} /\ Len(stack'[g]) = Len(stack[g])
    /\ stack'[g][Len(stack[g])] = f
    /\ \A n \in 1 .. Len(stack[g]) - 1 : stack'[g][n] = stack[g][n]
    /\ \A h \in Goroutines \ {g} : stack'[h] = stack[h]

LEMMA SomeFrame ==
    ASSUME Stacks, NEW g \in Goroutines
    PROVE  Len(stack[g]) \in Nat /\ (stack[g] # << >> <=> Len(stack[g]) > 0)
BY DEF Stacks

\* A frame of a sequence is replaced.
LEMMA SequenceChanges ==
    ASSUME NEW S, NEW q \in Seq(S), NEW n \in 1 .. Len(q), NEW e
    PROVE  /\ [q EXCEPT ![n] = e] \in Seq(S \cup {e}) /\ Len([q EXCEPT ![n] = e]) = Len(q)
           /\ [q EXCEPT ![n] = e][n] = e
           /\ \A m \in 1 .. Len(q) : m # n => [q EXCEPT ![n] = e][m] = q[m]
<1>1. q \in Seq(S \cup {e}) /\ e \in S \cup {e}
  OBVIOUS
<1> QED  BY <1>1

LEMMA WithReplaces ==
    ASSUME Stacks, NEW g \in Goroutines, stack[g] # << >>, NEW f, stack' = With(g, f)
    PROVE  Stacks' /\ Replaced(g, f)
<1> DEFINE L == Len(stack[g])
           q == [stack[g] EXCEPT ![L] = f]
<1>1. PICK S : \A h \in Goroutines : stack[h] \in Seq(S)
  BY DEF Stacks
<1>2. stack = [h \in Goroutines |-> stack[h]] /\ L \in Nat \ {0} /\ L \in 1 .. L
  BY SomeFrame DEF Stacks
<1>3. stack' = [h \in Goroutines |-> IF h = g THEN q ELSE stack[h]]
  BY Zenon, <1>2 DEF With
<1>4. /\ q \in Seq(S \cup {f}) /\ Len(q) = L /\ q[L] = f
      /\ \A m \in 1 .. L : m # L => q[m] = stack[g][m]
  BY <1>1, <1>2, SequenceChanges
<1> HIDE DEF q
<1>5. stack'[g] = q /\ \A h \in Goroutines \ {g} : stack'[h] = stack[h]
  BY Zenon, <1>3
<1>6. Replaced(g, f)
  BY <1>2, <1>4, <1>5 DEF Replaced
<1>7. \A h \in Goroutines : stack'[h] \in Seq(S \cup {f})
  BY <1>1, <1>4, <1>5
<1>8. Stacks'
  BY Zenon, <1>3, <1>7 DEF Stacks
<1> QED  BY Zenon, <1>6, <1>8

LEMMA FramesKept ==
    ASSUME FramesOK, NEW g \in Goroutines, NEW f, Replaced(g, f), FrameOK(f, phase, content),
           UNCHANGED <<phase, content>>
    PROVE  FramesOK'
<1>1. SUFFICES ASSUME NEW h \in Goroutines, NEW n \in 1 .. Len(stack'[h]) PROVE FrameOK(stack'[h][n], phase, content)
  BY Zenon DEF FramesOK
<1>2. CASE h # g
  BY Zenon, <1>1, <1>2 DEF FramesOK, Replaced
<1>3. CASE h = g /\ n = Len(stack[g])
  BY Zenon, <1>3 DEF Replaced
<1>4. CASE h = g /\ n # Len(stack[g])
  <2>1. n \in 1 .. Len(stack[g]) - 1 /\ n \in 1 .. Len(stack[g])
    BY <1>1, <1>4 DEF Replaced
  <2> QED  BY Zenon, <1>4, <2>1 DEF FramesOK, Replaced
<1> QED  BY Zenon, <1>2, <1>3, <1>4

\* A validation of a name server's address fetches from zones ranked lower.
LEMMA HostsRankLower ==
    ASSUME NoHostCycle, NEW ph, NEW c, NEW f, FrameOK(f, ph, c), f.pc \in Fetching,
           NEW z \in DOMAIN NSHost, f.msg = NSHost[z]
    PROVE  Rank[f.zone] < Rank[z]
<1>1. HostsFirst(Rank)
  BY Zenon DEF NoHostCycle, Rank
<1>2. FetchOK(f, ph) /\ f.sig \in f.msg.sigs /\ f.sig.signer \in Zones /\ f.i \in Nat
  BY Zenon DEF FrameOK, FetchOK, Candidate, MsgOK, FrameType
<1>3. Len(f.sig.signer) \in Nat /\ buildZoneChain(f.sig.signer)[Len(f.sig.signer) + 1] = f.sig.signer
  <2>1. f.sig.signer \in Seq(Nat)
    BY Zenon, <1>2, ZoneAssumption
  <2>2. Len(f.sig.signer) \in Nat
    BY <2>1
  <2>3. buildZoneChain(f.sig.signer)[Len(f.sig.signer) + 1] = SubSeq(f.sig.signer, 1, Len(f.sig.signer))
    <3>1. Len(f.sig.signer) + 1 \in 1 .. Len(f.sig.signer) + 1 /\ Len(f.sig.signer) - (Len(f.sig.signer) + 1) + 2 = 1
      BY <2>2
    <3> QED  BY Zenon, <3>1 DEF buildZoneChain
  <2> QED  BY <2>1, <2>2, <2>3
<1>4. \E i \in 1 .. Len(f.sig.signer) + 1 : f.zone = buildZoneChain(f.sig.signer)[i]
  BY <1>2, <1>3 DEF FetchOK, Chain
<1> QED  BY Zenon, <1>1, <1>2, <1>4 DEF HostsFirst

LEMMA RankType == NoHostCycle => \A z \in Zones : Rank[z] \in Int
<1>1. SUFFICES ASSUME NoHostCycle PROVE \A z \in Zones : Rank[z] \in Int
  OBVIOUS
<1>2. Rank \in [Zones -> 0 .. Cardinality(Zones)]
  BY <1>1 DEF NoHostCycle, Rank
<1> QED  BY <1>2

\* The ranks follow from the messages below the innermost validation.
LEMMA RanksKept ==
    ASSUME IInv, NEW g \in Goroutines, NEW f, Replaced(g, f), FramesOK', NestedOK'
    PROVE  RanksOK'
<1> SUFFICES ASSUME NoHostCycle, NEW h \in Goroutines, NEW n \in 1 .. Len(stack'[h]),
                    stack'[h][n].pc \in Fetching, NEW m \in 1 .. n - 1
             PROVE  Rank[stack'[h][n].zone] < Rank[stack'[h][m].zone]
  BY Zenon DEF RanksOK
<1>1. CASE h # g
  BY Zenon, <1>1 DEF IInv, RanksOK, Replaced
<1>2. CASE h = g /\ n # Len(stack[g])
  <2>1. n \in 1 .. Len(stack[g]) - 1 /\ m \in 1 .. Len(stack[g]) - 1 /\ n \in 1 .. Len(stack[g])
    BY <1>2 DEF Replaced
  <2> QED  BY Zenon, <1>2, <2>1 DEF IInv, RanksOK, Replaced
<1>3. CASE h = g /\ n = Len(stack[g])
  <2> DEFINE e == stack'[g][n - 1]
  <2>1. n - 1 \in 1 .. Len(stack[g]) - 1 /\ n - 1 \in 1 .. Len(stack[g]) /\ m \in 1 .. Len(stack[g]) - 1
    BY <1>3 DEF Replaced
  <2>2. e = stack[g][n - 1] /\ stack'[g][m] = stack[g][m]
    BY Zenon, <2>1 DEF Replaced
  <2>3. e.pc = "query" /\ e.zone \in DOMAIN NSHost /\ stack'[g][n].msg = NSHost[e.zone]
    <3>1. n - 1 \in 1 .. Len(stack'[g]) - 1 /\ n - 1 + 1 = n
      BY <1>3, <2>1 DEF Replaced
    <3> QED  BY <3>1 DEF NestedOK
  <2>4. FrameOK(stack'[g][n], phase', content')
    BY Zenon, <1>3 DEF FramesOK
  <2>5. Rank[stack'[g][n].zone] < Rank[e.zone]
    BY Zenon, <1>3, <2>3, <2>4, HostsRankLower
  <2>6. CASE m = n - 1
    BY Zenon, <1>3, <2>5, <2>6
  <2>7. CASE m # n - 1
    <3>1. m \in 1 .. n - 1 - 1
      BY <2>1, <2>7 DEF Replaced
    <3>2. Rank[stack[g][n - 1].zone] < Rank[stack[g][m].zone]
      BY Zenon, <2>1, <2>2, <2>3, <3>1 DEF IInv, RanksOK, Fetching
    <3>3. stack'[g][n].zone \in Zones /\ e.zone \in Zones /\ stack[g][m].zone \in Zones
      <4>1. stack[g][m].pc = "query"
        BY Zenon, <2>1 DEF IInv, NestedOK
      <4>2. FrameOK(stack[g][m], phase, content)
        BY <2>1 DEF IInv, FramesOK
      <4>3. stack[g][m].zone \in Zones
        BY Zenon, <4>1, <4>2 DEF FrameOK, FetchOK, Fetching
      <4>4. stack'[g][n].zone \in Zones
        BY Zenon, <1>3, <2>4 DEF FrameOK, FetchOK
      <4> QED  BY Zenon, <2>3, <4>3, <4>4, ZoneAssumption
    <3> QED  BY <1>3, <2>2, <2>5, <3>2, <3>3, RankType
  <2> QED  BY Zenon, <2>6, <2>7
<1> QED  BY Zenon, <1>1, <1>2, <1>3

-----------------------------------------------------------------------------
(* The slots, and who waits.                                                  *)

\* Nobody starts or ceases to lead.
LeadersKept ==
    \A h \in Goroutines :
        /\ \A n \in 1 .. Len(stack[h]) : stack[h][n].pc \in Leading =>
             n \in 1 .. Len(stack'[h]) /\ Leads(stack'[h][n], stack[h][n].kind, stack[h][n].zone)
        /\ \A n \in 1 .. Len(stack'[h]) : stack'[h][n].pc \in Leading =>
             n \in 1 .. Len(stack[h]) /\ Leads(stack[h][n], stack'[h][n].kind, stack'[h][n].zone)

LEMMA SlotsKept ==
    ASSUME TypeOK, SlotsOK, LeadersKept, UNCHANGED inflight
    PROVE  SlotsOK'
<1>1. ASSUME NEW g \in Goroutines, NEW n \in 1 .. Len(stack'[g]), stack'[g][n].pc \in Leading
      PROVE  inflight'[stack'[g][n].kind][stack'[g][n].zone] = g
  BY <1>1 DEF SlotsOK, LeadersKept, Leads
<1>2. ASSUME NEW g \in Goroutines, NEW m \in 1 .. Len(stack'[g]), NEW n \in 1 .. Len(stack'[g]),
             stack'[g][m].pc \in Leading, Leads(stack'[g][n], stack'[g][m].kind, stack'[g][m].zone)
      PROVE  m = n
  <2>1. m \in 1 .. Len(stack[g]) /\ Leads(stack[g][m], stack'[g][m].kind, stack'[g][m].zone)
    BY Zenon, <1>2 DEF LeadersKept
  <2>2. n \in 1 .. Len(stack[g]) /\ Leads(stack[g][n], stack'[g][n].kind, stack'[g][n].zone)
    BY Zenon, <1>2 DEF LeadersKept, Leads
  <2> QED  BY <1>2, <2>1, <2>2 DEF SlotsOK, Leads
<1>3. ASSUME NEW k \in Kinds, NEW z \in Zones, inflight'[k][z] # None
      PROVE  \E n \in 1 .. Len(stack'[inflight'[k][z]]) : Leads(stack'[inflight'[k][z]][n], k, z)
  <2> DEFINE l == inflight[k][z]
  <2>1. l \in Goroutines
    BY Zenon, <1>3 DEF TypeOK
  <2>2. PICK n \in 1 .. Len(stack[l]) : Leads(stack[l][n], k, z)
    BY Zenon, <1>3 DEF SlotsOK
  <2>3. n \in 1 .. Len(stack'[l]) /\ Leads(stack'[l][n], k, z)
    BY Zenon, <2>1, <2>2 DEF LeadersKept, Leads
  <2> QED  BY Zenon, <2>3
<1> QED  BY Zenon, <1>1, <1>2, <1>3 DEF SlotsOK

\* Nobody leaves a fetch others wait for, and who starts to wait, waits for one.
AttendantsKept ==
    \A h \in Goroutines : \A n \in 1 .. Len(stack[h]) : stack[h][n].pc \in Leading \cup {"close"} =>
        n \in 1 .. Len(stack'[h]) /\ Attending(stack'[h][n], stack[h][n].kind, stack[h][n].zone)
WaitersAttended ==
    \A h \in Goroutines : \A n \in 1 .. Len(stack'[h]) : stack'[h][n].pc = "wait" =>
        Attended(stack'[h][n].leader, stack'[h][n].kind, stack'[h][n].zone)

LEMMA AttendedKept ==
    ASSUME AttendantsKept, NEW l, NEW k, NEW z, Attended(l, k, z)
    PROVE  Attended(l, k, z)'
<1>1. l \in Goroutines
  BY DEF Attended
<1>2. PICK m \in 1 .. Len(stack[l]) : Attending(stack[l][m], k, z)
  BY Zenon DEF Attended
<1>3. m \in 1 .. Len(stack'[l]) /\ Attending(stack'[l][m], k, z)
  BY Zenon, <1>1, <1>2 DEF AttendantsKept, Attending
<1> QED  BY Zenon, <1>1, <1>3 DEF Attended

LEMMA WaitsKept == ASSUME AttendantsKept, WaitersAttended PROVE WaitsOK'
<1>1. ASSUME NEW g \in Goroutines, NEW n \in 1 .. Len(stack'[g]), stack'[g][n].pc = "wait",
             NEW l, l = stack'[g][n].leader, NEW k, k = stack'[g][n].kind, NEW z, z = stack'[g][n].zone
      PROVE  l \in Goroutines /\ \E m \in 1 .. Len(stack'[l]) : Attending(stack'[l][m], k, z)
  <2>1. Attended(l, k, z)
    BY <1>1 DEF WaitersAttended
  <2>2. Attended(l, k, z)'
    BY <2>1, AttendedKept
  <2> QED  BY <2>2 DEF Attended
<1> QED  BY Zenon, <1>1 DEF WaitsOK, Attended

-----------------------------------------------------------------------------
(* A step of the innermost validation.                                        *)

LEMMA TopFrame ==
    ASSUME IInv, NEW g \in Goroutines, stack[g] # << >>
    PROVE  Len(stack[g]) \in Nat \ {0} /\ Len(stack[g]) \in 1 .. Len(stack[g]) /\ FrameOK(Top(g), phase, content)
BY SomeFrame DEF IInv, FramesOK, Top

LEMMA NestedKept ==
    ASSUME NestedOK, NEW g \in Goroutines, NEW f, Replaced(g, f), f.msg = Top(g).msg
    PROVE  NestedOK'
<1>1. SUFFICES ASSUME NEW h \in Goroutines, NEW n \in 1 .. Len(stack'[h]) - 1
               PROVE  /\ stack'[h][n].pc = "query" /\ stack'[h][n].asked
                      /\ stack'[h][n].zone \in DOMAIN NSHost /\ stack'[h][n + 1].msg = NSHost[stack'[h][n].zone]
  BY DEF NestedOK
<1>2. CASE h # g
  BY <1>1, <1>2 DEF NestedOK, Replaced
<1>3. CASE h = g
  <2>1. n \in 1 .. Len(stack[g]) - 1 /\ stack'[g][n] = stack[g][n]
    BY Zenon, <1>1, <1>3 DEF Replaced
  <2>2. stack'[g][n + 1].msg = stack[g][n + 1].msg
    <3>1. CASE n + 1 = Len(stack[g])
      BY Zenon, <3>1 DEF Replaced, Top
    <3>2. CASE n + 1 # Len(stack[g])
      BY <2>1, <3>2 DEF Replaced
    <3> QED  BY Zenon, <3>1, <3>2
  <2> QED  BY Zenon, <1>3, <2>1, <2>2 DEF NestedOK
<1> QED  BY <1>2, <1>3

LEMMA ReplacedFrames ==
    ASSUME NEW g \in Goroutines, NEW f, Replaced(g, f), NEW h \in Goroutines
    PROVE  /\ Len(stack'[h]) = Len(stack[h])
           /\ \A n \in 1 .. Len(stack[h]) :
                \/ stack'[h][n] = stack[h][n]
                \/ h = g /\ n = Len(stack[g]) /\ stack'[h][n] = f /\ stack[h][n] = Top(g)
<1>1. CASE h # g
  BY Zenon, <1>1 DEF Replaced
<1>2. CASE h = g
  <2>1. ASSUME NEW n \in 1 .. Len(stack[g]) PROVE n = Len(stack[g]) \/ n \in 1 .. Len(stack[g]) - 1
    BY DEF Replaced
  <2> QED  BY Zenon, <1>2, <2>1 DEF Replaced, Top
<1> QED  BY Zenon, <1>1, <1>2

LEMMA LeadersStay ==
    ASSUME NEW g \in Goroutines, NEW f, Replaced(g, f), f.pc \in Leading <=> Top(g).pc \in Leading,
           f.pc \in Leading => f.kind = Top(g).kind /\ f.zone = Top(g).zone
    PROVE  LeadersKept
BY ReplacedFrames DEF LeadersKept, Leads

LEMMA AttendantsStay ==
    ASSUME NEW g \in Goroutines, NEW f, Replaced(g, f),
           Top(g).pc \in Leading \cup {"close"} => Attending(f, Top(g).kind, Top(g).zone)
    PROVE  AttendantsKept
BY ReplacedFrames DEF AttendantsKept, Attending

LEMMA WaitersStay ==
    ASSUME WaitsOK, NEW g \in Goroutines, NEW f, Replaced(g, f),
           f.pc = "wait" => Attended(f.leader, f.kind, f.zone)
    PROVE  WaitersAttended
BY ReplacedFrames DEF WaitersAttended, WaitsOK

LEMMA SteadyStep ==
    ASSUME IInv, NEW g \in Goroutines, stack[g] # << >>, NEW f, stack' = With(g, f),
           FrameOK(f, phase, content), UNCHANGED <<phase, content, inflight>>, TypeOK',
           f.msg = Top(g).msg, f.pc # "wait", Top(g).pc # "close",
           f.pc \in Leading <=> Top(g).pc \in Leading,
           f.pc \in Leading => f.kind = Top(g).kind /\ f.zone = Top(g).zone
    PROVE  IInv'
<1>1. Stacks' /\ Replaced(g, f)
  BY Zenon, WithReplaces DEF IInv
<1>2. FramesOK'
  BY Zenon, <1>1, FramesKept DEF IInv
<1>3. NestedOK'
  BY Zenon, <1>1, NestedKept DEF IInv
<1>4. SlotsOK'
  BY Zenon, <1>1, LeadersStay, SlotsKept DEF IInv
<1>5. AttendantsKept
  BY Zenon, <1>1, AttendantsStay DEF Attending
<1>6. WaitersAttended
  BY Zenon, <1>1, WaitersStay DEF IInv
<1>7. WaitsOK'
  BY Zenon, <1>5, <1>6, WaitsKept
<1>8. RanksOK'
  BY Zenon, <1>1, <1>2, <1>3, RanksKept
<1> QED  BY Zenon, <1>1, <1>2, <1>3, <1>4, <1>7, <1>8 DEF IInv

-----------------------------------------------------------------------------
(* The loop over the signatures, and the walk of the chain.                   *)

\* Back in the loop, at a verdict, or at the start of a fetch.
Onward(h, f) == h.msg = f.msg /\ h.pc \in {"sig", "done", "cache", "slot"}

LEMMA DoneGoesOnward == ASSUME NEW f, NEW v PROVE Onward(Done(f, v), f)
BY EndFields DEF EndOf, Onward

LEMMA FetchGoesOnward ==
    ASSUME NEW f, NEW e, IsFrame(e), e.msg = f.msg, NEW kind, NEW z
    PROVE  Onward(Fetch(e, kind, z), f)
<1> DEFINE h == Fetch(e, kind, z)
<1>1. FetchOf(h, e, kind, z)
  BY Zenon, FetchFields
<1> HIDE DEF h
<1>2. h.pc \in {"cache", "slot"} /\ h.msg = f.msg
  BY Zenon, <1>1 DEF FetchOf
<1>3. Onward(h, f)
  BY <1>2 DEF Onward
<1> QED  BY Zenon, <1>3 DEF h

LEMMA NextLinkGoesOnward == ASSUME NEW f, IsFrame(f) PROVE Onward(NextLink(f), f)
<1> DEFINE w == [f EXCEPT !.i = @ + 1]
<1>1. IsFrame(w) /\ w.msg = f.msg
  BY Zenon DEF IsFrame, Fields
<1> HIDE DEF w
<1>2. Onward(Fetch(w, "DNSKEY", Chain(f)[f.i + 1]), f)
  BY Zenon, <1>1, FetchGoesOnward
<1> QED  BY <1>2, DoneGoesOnward DEF NextLink, w

LEMMA ConsiderGoesOnward ==
    ASSUME NEW f, IsFrame(f), f.pc = "sig", NEW s
    PROVE  Onward(Consider(f, s), f)
<1> DEFINE g == [f EXCEPT !.todo = @ \ {s}]
           u == [g EXCEPT !.usable = TRUE]
           b == [u EXCEPT !.bogus = TRUE]
           w == [u EXCEPT !.sig = s]
<1>1. g.msg = f.msg /\ g.pc = "sig" /\ u.msg = f.msg /\ u.pc = "sig"
  BY Zenon DEF IsFrame, Fields
<1>2. b.msg = f.msg /\ b.pc = "sig"
  BY Zenon DEF IsFrame, Fields
<1>3. IsFrame(w) /\ w.msg = f.msg
  BY Zenon DEF IsFrame, Fields
<1>4. \/ Consider(f, s) = g \/ Consider(f, s) = u \/ Consider(f, s) = b
      \/ Consider(f, s) = Fetch(w, "DNSKEY", s.signer)
  BY Zenon DEF Consider
<1> HIDE DEF g, u, b, w
<1>5. Onward(Fetch(w, "DNSKEY", s.signer), f)
  BY Zenon, <1>3, FetchGoesOnward
<1> QED  BY <1>1, <1>2, <1>4, <1>5 DEF Onward

LEMMA PhasesOK == TypeOK => Phases(phase)
BY Zenon, ZoneAssumption DEF TypeOK, Phases

LEMMA TypeKept ==
    ASSUME TypeOK, UNCHANGED <<phase, content, keyCache, inflight>>
    PROVE  TypeOK'
BY Zenon DEF TypeOK, Recent

LEMMA OnwardStep ==
    ASSUME IInv, NEW g \in Goroutines, stack[g] # << >>, NEW f, stack' = With(g, f),
           FrameOK(f, phase, content), UNCHANGED <<phase, content, keyCache, inflight>>,
           Onward(f, Top(g)), Top(g).pc \in {"sig", "got"}
    PROVE  IInv'
<1>1. TypeOK'
  BY Zenon, TypeKept DEF IInv
<1>2. /\ f.msg = Top(g).msg /\ f.pc # "wait" /\ Top(g).pc # "close"
      /\ f.pc \notin Leading /\ Top(g).pc \notin Leading
  BY Zenon DEF Onward, Leading
<1> QED  BY Zenon, <1>1, <1>2, SteadyStep

-----------------------------------------------------------------------------
(* A zone that goes on.                                                       *)

Rolled(ph, qh, z) ==
    /\ Phases(ph) /\ Phases(qh) /\ z \in Zones
    /\ qh[z] = ph[z] + 1 /\ \A y \in Zones : y # z => qh[y] = ph[y]

LEMMA RollsKnow ==
    ASSUME NEW ph, NEW qh, NEW z, Rolled(ph, qh, z), NEW y \in Zones
    PROVE  ph[y] \in Nat /\ qh[y] \in Nat /\ (\A p \in 1 .. ph[y] : p \in 1 .. qh[y])
           /\ \A p \in 0 .. ph[y] : p \in 0 .. qh[y]
<1>1. ph[y] \in Nat /\ qh[y] \in Nat /\ ph[y] <= qh[y]
  BY DEF Rolled, Phases
<1> QED  BY <1>1

\* A zone goes on once nobody remembers more of it than its last phase.
LEMMA RollOK ==
    ASSUME NEW ph, NEW qh, NEW z, Rolled(ph, qh, z), NEW c, NEW f, FrameOK(f, ph, c),
           f.pc # "done" => SeenBy(f, z) \subseteq {ph[z]}
    PROVE  FrameOK(f, qh, c)
<1>0. ph[z] = qh[z] - 1
  <2>1. z \in Zones /\ qh[z] = ph[z] + 1
    BY Zenon DEF Rolled
  <2>2. ph[z] \in Nat /\ qh[z] \in Nat
    BY Zenon, <2>1, RollsKnow
  <2> QED  BY <2>1, <2>2
<1>1. MsgOK(f.msg, c) /\ \A s \in f.msg.sigs : s.signer \in Zones
  BY Zenon DEF FrameOK, MsgOK
<1>2. \A s \in f.msg.sigs : (KnownKey(s, ph) => KnownKey(s, qh)) /\ (MissingKey(s, ph) => MissingKey(s, qh))
  BY Zenon, <1>1, RollsKnow DEF KnownKey, MissingKey
<1>3. \A y \in Zones : (Delegated(y, ph) => Delegated(y, qh)) /\ (Undelegated(y, ph) => Undelegated(y, qh))
  BY Zenon, RollsKnow DEF Delegated, Undelegated
<1>4. Excused(f, ph) => Excused(f, qh)
  BY Zenon, <1>2 DEF Excused
<1>5. f.pc # "done" => LoopOK(f, qh)
  BY Zenon, <1>4 DEF FrameOK, LoopOK
<1>6. ASSUME NEW s \in f.msg.sigs
      PROVE  Len(s.signer) \in Nat /\ \A i \in 1 .. Len(s.signer) + 1 : buildZoneChain(s.signer)[i] \in Zones
  BY Zenon, <1>1, ChainLinks
<1>7. ASSUME f.pc \in Fetching PROVE FetchOK(f, qh)
  <2>1. FetchOK(f, ph) /\ f.pc # "done" /\ f.sig \in f.msg.sigs /\ f.zone \in Zones
    BY Zenon, <1>7 DEF FrameOK, FetchOK, Candidate, Fetching
  <2>2. f.result \in 0 .. qh[f.zone]
    BY Zenon, <2>1, RollsKnow DEF FetchOK
  <2>3. f.zone = z => (f.result # Failed => f.result = ph[z]) /\ (f.keys # Failed => f.keys = ph[z])
    BY Zenon, <2>1 DEF SeenBy
  <2>4. f.result # Failed => Recent(f.result, f.zone, qh)
    <3>1. CASE f.zone = z
      BY Zenon, <1>0, <2>3, <3>1 DEF Recent
    <3>2. CASE f.zone # z
      BY Zenon, <2>1, <3>2 DEF FetchOK, Recent, Rolled
    <3> QED  BY Zenon, <3>1, <3>2
  <2>5. f.kind = "DS" => f.i > 1 /\ f.keys \in 1 .. qh[f.zone] /\ Recent(f.keys, f.zone, qh)
    <3>1. SUFFICES ASSUME f.kind = "DS" PROVE f.i > 1 /\ f.keys \in 1 .. qh[f.zone] /\ Recent(f.keys, f.zone, qh)
      BY Zenon
    <3>2. f.i > 1 /\ f.keys \in 1 .. ph[f.zone] /\ Recent(f.keys, f.zone, ph)
      BY Zenon, <2>1, <3>1 DEF FetchOK
    <3>3. f.keys \in 1 .. qh[f.zone]
      BY Zenon, <2>1, <3>2, RollsKnow
    <3>4. f.keys # Failed
      BY <2>1, <3>2, RollsKnow DEF Failed
    <3>5. CASE f.zone = z
      <4>1. f.keys = ph[z] /\ qh[z] - 1 = ph[z]
        BY Zenon, <1>0, <2>3, <3>4, <3>5
      <4> QED  BY Zenon, <3>2, <3>3, <3>5, <4>1 DEF Recent
    <3>6. CASE f.zone # z
      BY Zenon, <2>1, <3>2, <3>3, <3>6 DEF Recent, Rolled
    <3> QED  BY Zenon, <3>5, <3>6
  <2>6. f.i > 0 => /\ ~IsDenial(f.msg) /\ f.sig.intact /\ KnownKey(f.sig, qh)
                   /\ f.i \in 1 .. Len(f.sig.signer) + 1 /\ f.zone = Chain(f)[f.i]
                   /\ \A j \in 2 .. f.i - 1 : Delegated(Chain(f)[j], qh)
    <3>1. SUFFICES ASSUME f.i > 0
                   PROVE  /\ ~IsDenial(f.msg) /\ f.sig.intact /\ KnownKey(f.sig, qh)
                          /\ f.i \in 1 .. Len(f.sig.signer) + 1 /\ f.zone = Chain(f)[f.i]
                          /\ \A j \in 2 .. f.i - 1 : Delegated(Chain(f)[j], qh)
      BY Zenon
    <3>2. /\ ~IsDenial(f.msg) /\ f.sig.intact /\ KnownKey(f.sig, ph)
          /\ f.i \in 1 .. Len(f.sig.signer) + 1 /\ f.zone = Chain(f)[f.i]
          /\ \A j \in 2 .. f.i - 1 : Delegated(Chain(f)[j], ph)
      BY Zenon, <2>1, <3>1 DEF FetchOK
    <3>3. Len(f.sig.signer) \in Nat /\ \A i \in 1 .. Len(f.sig.signer) + 1 : Chain(f)[i] \in Zones
      BY Zenon, <1>6, <2>1 DEF Chain
    <3>4. \A j \in 2 .. f.i - 1 : Chain(f)[j] \in Zones
      BY <3>2, <3>3
    <3> QED  BY Zenon, <1>2, <1>3, <2>1, <3>2, <3>4
  <2> QED  BY Zenon, <2>1, <2>2, <2>4, <2>5, <2>6 DEF FetchOK
<1>8. ASSUME f.pc = "done" PROVE DoneOK(f, qh, c)
  <2>1. DoneOK(f, ph, c)
    BY Zenon, <1>8 DEF FrameOK
  <2>2. ASSUME NEW s \in f.msg.sigs, NEW i \in 2 .. Len(s.signer) + 1
        PROVE  /\ Delegated(buildZoneChain(s.signer)[i], ph) => Delegated(buildZoneChain(s.signer)[i], qh)
               /\ Undelegated(buildZoneChain(s.signer)[i], ph) => Undelegated(buildZoneChain(s.signer)[i], qh)
    <3>1. buildZoneChain(s.signer)[i] \in Zones
      BY <1>6
    <3> QED  BY Zenon, <1>3, <3>1
  <2>3. f.verdict = "Secure" /\ ~IsDenial(f.msg) =>
          \E s \in f.msg.sigs :
            /\ Candidate(f.msg, s) /\ s.intact /\ KnownKey(s, qh)
            /\ \A i \in 2 .. Len(s.signer) + 1 : Delegated(buildZoneChain(s.signer)[i], qh)
    BY Zenon, <1>2, <2>1, <2>2 DEF DoneOK
  <2>4. f.verdict = "Insecure" =>
          \/ \A s \in f.msg.sigs : s.alg # "good"
          \/ \E s \in f.msg.sigs : \E i \in 2 .. Len(s.signer) + 1 : Undelegated(buildZoneChain(s.signer)[i], qh)
    BY Zenon, <2>1, <2>2 DEF DoneOK
  <2> QED  BY Zenon, <1>4, <2>1, <2>3, <2>4 DEF DoneOK
<1> QED  BY Zenon, <1>1, <1>5, <1>7, <1>8 DEF FrameOK
=============================================================================
