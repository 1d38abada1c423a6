--------------------------- MODULE ValidatorProofs ---------------------------
(* Proofs about Validator, for any zones, phases, responses and number of     *)
(* goroutines, however deep their validations nest: one lemma per action, the  *)
(* inductive invariant, and the theorems.                                      *)
EXTENDS FrameProofs

\* Time for the provers on a machine that is busy.
USE SMTT(30), ZenonT(30)

-----------------------------------------------------------------------------
(* The steps of the loop over the signatures.                                 *)

LEMMA NextSignatureStep == ASSUME IInv, NEW g \in Goroutines, NextSignature(g) PROVE IInv'
<1> DEFINE f == Top(g)
<1>1. /\ stack[g] # << >> /\ f.pc = "sig" /\ UNCHANGED <<phase, content, keyCache, inflight>>
      /\ \/ \E s \in f.todo : stack' = With(g, Consider(f, s))
         \/ f.todo = {} /\ stack' = With(g, Done(f, IF IsDenial(f.msg) THEN DenialVerdict(f) ELSE AnswerVerdict(f)))
  BY DEF NextSignature, At
<1>2. FrameOK(f, phase, content) /\ IsFrame(f) /\ Phases(phase)
  BY <1>1, TopFrame, PhasesOK DEF IInv, FrameOK, FrameType
<1> HIDE DEF f
<1>3. CASE \E s \in f.todo : stack' = With(g, Consider(f, s))
  <2>1. PICK s \in f.todo : stack' = With(g, Consider(f, s))
    BY <1>3
  <2>2. FrameOK(Consider(f, s), phase, content) /\ Onward(Consider(f, s), f)
    BY Zenon, <1>1, <1>2, ConsiderOK, ConsiderGoesOnward
  <2> QED  BY Zenon, <1>1, <2>1, <2>2, OnwardStep DEF f
<1>4. CASE f.todo = {} /\ stack' = With(g, Done(f, IF IsDenial(f.msg) THEN DenialVerdict(f) ELSE AnswerVerdict(f)))
  <2>1. CASE IsDenial(f.msg)
    <3>1. FrameOK(Done(f, DenialVerdict(f)), phase, content) /\ Onward(Done(f, DenialVerdict(f)), f)
      BY Zenon, <1>1, <1>2, <1>4, <2>1, DenialOK, DoneGoesOnward
    <3> QED  BY <1>1, <1>4, <2>1, <3>1, OnwardStep DEF f
  <2>2. CASE ~IsDenial(f.msg)
    <3>1. FrameOK(Done(f, AnswerVerdict(f)), phase, content) /\ Onward(Done(f, AnswerVerdict(f)), f)
      BY Zenon, <1>1, <1>2, <1>4, <2>2, AnswerOK, DoneGoesOnward
    <3> QED  BY <1>1, <1>4, <2>2, <3>1, OnwardStep DEF f
  <2> QED  BY <2>1, <2>2
<1> QED  BY <1>1, <1>3, <1>4

LEMMA CheckSignatureStep == ASSUME IInv, NEW g \in Goroutines, CheckSignature(g) PROVE IInv'
<1> DEFINE f == Top(g)
           b == Fetched(f)
           s == f.sig
           n == [b EXCEPT !.indeterminate = TRUE]
           d == [b EXCEPT !.bogus = TRUE]
           a == [b EXCEPT !.authentic = @ \cup {s.over}]
           w == [f EXCEPT !.i = 1, !.todo = {}]
           h == IF f.result = Failed \/ s.key \notin Records("DNSKEY", s.signer, f.result) THEN n
                ELSE IF ~s.intact THEN d ELSE IF IsDenial(b.msg) THEN a ELSE Fetch(w, "DNSKEY", << >>)
<1>1. /\ stack[g] # << >> /\ f.pc = "got" /\ f.i = 0 /\ UNCHANGED <<phase, content, keyCache, inflight>>
      /\ stack' = With(g, h)
  BY DEF CheckSignature, At
<1>2. FrameOK(f, phase, content) /\ IsFrame(f) /\ Phases(phase)
  BY <1>1, TopFrame, PhasesOK DEF IInv, FrameOK, FrameType
<1>3. FrameOK(h, phase, content)
  BY Zenon, <1>1, <1>2, SignatureOK
<1>4. BackInLoop(b, f)
  BY <1>2, FetchedFields
<1>5. IsFrame(w) /\ w.msg = f.msg
  BY Zenon, <1>2 DEF IsFrame, Fields
<1>6. IsFrame(b) /\ b.msg = f.msg /\ b.pc = "sig"
  BY <1>4 DEF BackInLoop
<1> HIDE DEF b, w, f
<1>7. Onward(n, f) /\ Onward(d, f) /\ Onward(a, f)
  <2>1. n.msg = b.msg /\ n.pc = b.pc /\ d.msg = b.msg /\ d.pc = b.pc /\ a.msg = b.msg /\ a.pc = b.pc
    BY Zenon, <1>6 DEF IsFrame, Fields
  <2> QED  BY <1>6, <2>1 DEF Onward
<1>8. Onward(Fetch(w, "DNSKEY", << >>), f)
  BY <1>5, FetchGoesOnward
<1> HIDE DEF n, d, a
<1>9. Onward(h, f)
  BY Zenon, <1>7, <1>8
<1> QED  BY Zenon, <1>1, <1>3, <1>9, OnwardStep DEF f

LEMMA CheckKeysStep == ASSUME IInv, NEW g \in Goroutines, CheckKeys(g) PROVE IInv'
<1> DEFINE f == Top(g)
           w == [f EXCEPT !.keys = f.result]
           h == IF f.result = Failed THEN Done(f, "Indeterminate")
                ELSE IF f.i > 1 THEN Fetch(w, "DS", f.zone)
                ELSE IF VerifyDS(Records("DNSKEY", << >>, f.result), TrustAnchors) THEN NextLink(f)
                ELSE Done(f, "Bogus")
<1>1. /\ stack[g] # << >> /\ f.pc = "got" /\ f.i > 0 /\ f.kind = "DNSKEY"
      /\ UNCHANGED <<phase, content, keyCache, inflight>> /\ stack' = With(g, h)
  BY DEF CheckKeys, At
<1>2. FrameOK(f, phase, content) /\ IsFrame(f) /\ Phases(phase)
  BY <1>1, TopFrame, PhasesOK DEF IInv, FrameOK, FrameType
<1>3. FrameOK(h, phase, content)
  BY <1>1, <1>2, KeysOK
<1>4. IsFrame(w) /\ w.msg = f.msg
  BY Zenon, <1>2 DEF IsFrame, Fields
<1> HIDE DEF f, w
<1>5. Onward(Fetch(w, "DS", f.zone), f) /\ Onward(NextLink(f), f)
  BY <1>2, <1>4, FetchGoesOnward, NextLinkGoesOnward
<1>6. Onward(h, f)
  BY Zenon, <1>5, DoneGoesOnward
<1> QED  BY Zenon, <1>1, <1>3, <1>6, OnwardStep DEF f

LEMMA CheckDSStep == ASSUME IInv, NEW g \in Goroutines, CheckDS(g) PROVE IInv'
<1> DEFINE f == Top(g)
           ds == Records("DS", f.zone, f.result)
           h == IF f.result = Failed THEN Done(f, "Indeterminate")
                ELSE IF ds \subseteq WeakDS THEN Done(f, "Insecure")
                ELSE IF VerifyDS(Records("DNSKEY", f.zone, f.keys), ds) THEN NextLink(f)
                ELSE Done(f, "Bogus")
<1>1. /\ stack[g] # << >> /\ f.pc = "got" /\ f.kind = "DS"
      /\ UNCHANGED <<phase, content, keyCache, inflight>> /\ stack' = With(g, h)
  BY DEF CheckDS, At
<1>2. FrameOK(f, phase, content) /\ IsFrame(f) /\ Phases(phase)
  BY <1>1, TopFrame, PhasesOK DEF IInv, FrameOK, FrameType
<1>3. FrameOK(h, phase, content)
  BY Zenon, <1>1, <1>2, DSOK
<1> HIDE DEF f
<1>4. Onward(NextLink(f), f)
  BY <1>2, NextLinkGoesOnward
<1>5. Onward(h, f)
  BY Zenon, <1>4, DoneGoesOnward
<1> QED  BY Zenon, <1>1, <1>3, <1>5, OnwardStep DEF f

-----------------------------------------------------------------------------
(* The fetches.                                                               *)

LEMMA MovesOn ==
    ASSUME NEW f, IsFrame(f), NEW p, NEW h, h = [f EXCEPT !.pc = p]
    PROVE  Moves(h, f) /\ h.pc = p /\ h.result = f.result /\ h.failed = f.failed
BY Zenon DEF Moves, IsFrame, Fields

LEMMA MovesWithResult ==
    ASSUME NEW f, IsFrame(f), NEW p, NEW r, NEW h, h = WithResult(f, p, r)
    PROVE  Moves(h, f) /\ h.pc = p /\ h.result = r /\ (r = Failed => h.failed)
<1>1. h.failed = (f.failed \/ r = Failed)
  BY Zenon DEF WithResult, IsFrame, Fields
<1>2. /\ IsFrame(h)
      /\ h.msg = f.msg /\ h.todo = f.todo /\ h.usable = f.usable /\ h.bogus = f.bogus
      /\ h.indeterminate = f.indeterminate /\ h.authentic = f.authentic /\ h.sig = f.sig
      /\ h.i = f.i /\ h.kind = f.kind /\ h.zone = f.zone /\ h.keys = f.keys /\ h.pc = p /\ h.result = r
  BY Zenon DEF WithResult, IsFrame, Fields
<1> QED  BY Zenon, <1>1, <1>2 DEF Moves

LEMMA MovesWithLeader ==
    ASSUME NEW f, IsFrame(f), NEW p, NEW l, NEW h, h = [f EXCEPT !.pc = p, !.leader = l]
    PROVE  Moves(h, f) /\ h.pc = p /\ h.leader = l /\ h.result = f.result /\ h.failed = f.failed
BY Zenon DEF Moves, IsFrame, Fields

LEMMA CacheHolds ==
    ASSUME TypeOK, NEW z \in Zones, CacheHit(z)
    PROVE  keyCache[z] \in 0 .. phase[z] /\ Recent(keyCache[z], z, phase) /\ keyCache[z] # Failed
<1>1. keyCache[z] \in 1 .. phase[z] /\ Recent(keyCache[z], z, phase) /\ phase[z] \in 1 .. Len(Published[z])
  BY DEF TypeOK, CacheHit
<1>2. Len(Published[z]) \in Nat
  BY ZoneAssumption
<1> QED  BY <1>1, <1>2 DEF Failed

\* What the innermost validation has, while it fetches.
LEMMA TopFetches ==
    ASSUME IInv, NEW g \in Goroutines, stack[g] # << >>, Top(g).pc \in Fetching
    PROVE  /\ FrameOK(Top(g), phase, content) /\ IsFrame(Top(g)) /\ FetchOK(Top(g), phase)
           /\ Top(g).zone \in Zones /\ Top(g).kind \in Kinds
           /\ phase[Top(g).zone] \in Nat \ {0}
           /\ Top(g).result \in 0 .. phase[Top(g).zone]
           /\ Top(g).result # Failed => Recent(Top(g).result, Top(g).zone, phase)
<1>1. FrameOK(Top(g), phase, content) /\ Phases(phase)
  BY TopFrame, PhasesOK DEF IInv
<1>2. FrameType(Top(g)) /\ FetchOK(Top(g), phase)
  BY <1>1 DEF FrameOK
<1>3. Top(g).zone \in Zones /\ Top(g).result \in 0 .. phase[Top(g).zone]
  BY <1>2 DEF FetchOK
<1>4. phase[Top(g).zone] \in Nat \ {0}
  BY <1>1, <1>3 DEF Phases
<1> QED  BY Zenon, <1>1, <1>2, <1>3, <1>4 DEF FetchOK, FrameType

LEMMA CheckCacheStep == ASSUME IInv, NEW g \in Goroutines, CheckCache(g) PROVE IInv'
<1> DEFINE f == Top(g)
           a == [f EXCEPT !.pc = "got", !.result = keyCache[f.zone]]
           b == [f EXCEPT !.pc = "slot"]
           h == IF CacheHit(f.zone) THEN a ELSE b
<1>1. /\ stack[g] # << >> /\ f.pc = "cache" /\ UNCHANGED <<phase, content, keyCache, inflight>>
      /\ stack' = With(g, h)
  BY DEF CheckCache, At
<1>2. /\ FrameOK(f, phase, content) /\ IsFrame(f) /\ f.pc \in Fetching /\ f.zone \in Zones
      /\ f.result \in 0 .. phase[f.zone] /\ (f.result # Failed => Recent(f.result, f.zone, phase))
  BY <1>1, TopFetches DEF Fetching
<1> HIDE DEF f
<1>3. Moves(a, f) /\ a.pc = "got" /\ a.result = keyCache[f.zone]
  BY Zenon, <1>2 DEF Moves, IsFrame, Fields
<1>4. Moves(b, f) /\ b.pc = "slot" /\ b.result = f.result
  BY <1>2, MovesOn
<1> HIDE DEF a, b, f
<1>5. CacheHit(f.zone) => FrameOK(a, phase, content)
  BY <1>2, <1>3, CacheHolds, MoveOK DEF IInv, Fetching
<1>6. FrameOK(b, phase, content)
  BY <1>2, <1>4, MoveOK DEF Fetching
<1>7. FrameOK(h, phase, content) /\ h.msg = f.msg /\ h.pc \in {"got", "slot"}
  BY <1>3, <1>4, <1>5, <1>6 DEF Moves
<1> HIDE DEF h
<1>8. TypeOK'
  BY <1>1, TypeKept DEF IInv
<1> QED  BY <1>1, <1>7, <1>8, SteadyStep DEF Leading, f

LEMMA RecheckStep == ASSUME IInv, NEW g \in Goroutines, Recheck(g) PROVE IInv'
<1> DEFINE f == Top(g)
           a == [f EXCEPT !.pc = "release", !.result = keyCache[f.zone]]
           b == [f EXCEPT !.pc = "query"]
           h == IF CacheHit(f.zone) THEN a ELSE b
<1>1. /\ stack[g] # << >> /\ f.pc = "recheck" /\ UNCHANGED <<phase, content, keyCache, inflight>>
      /\ stack' = With(g, h)
  BY DEF Recheck, At
<1>2. /\ FrameOK(f, phase, content) /\ IsFrame(f) /\ f.pc \in Fetching /\ f.zone \in Zones
      /\ f.result \in 0 .. phase[f.zone] /\ (f.result # Failed => Recent(f.result, f.zone, phase))
  BY <1>1, TopFetches DEF Fetching
<1> HIDE DEF f
<1>3. Moves(a, f) /\ a.pc = "release" /\ a.result = keyCache[f.zone]
  BY Zenon, <1>2 DEF Moves, IsFrame, Fields
<1>4. Moves(b, f) /\ b.pc = "query" /\ b.result = f.result
  BY <1>2, MovesOn
<1> HIDE DEF a, b, f
<1>5. CacheHit(f.zone) => FrameOK(a, phase, content)
  BY Zenon, <1>2, <1>3, CacheHolds, MoveOK DEF IInv, Fetching
<1>6. FrameOK(b, phase, content)
  BY Zenon, <1>2, <1>4, MoveOK DEF Fetching
<1>7. /\ FrameOK(h, phase, content) /\ h.msg = f.msg /\ h.kind = f.kind /\ h.zone = f.zone
      /\ h.pc \in {"release", "query"}
  BY <1>3, <1>4, <1>5, <1>6 DEF Moves
<1> HIDE DEF h
<1>8. TypeOK'
  BY Zenon, <1>1, TypeKept DEF IInv
<1> QED  BY Zenon, <1>1, <1>7, <1>8, SteadyStep DEF Leading, f

LEMMA QueryStep == ASSUME IInv, NEW g \in Goroutines, Query(g) PROVE IInv'
<1> DEFINE f == Top(g)
<1>1. /\ stack[g] # << >> /\ f.pc = "query" /\ UNCHANGED <<phase, content, inflight>>
      /\ \E answer \in {Failed, phase[f.zone]} :
           /\ stack' = With(g, WithResult(f, "release", answer))
           /\ keyCache' = IF f.kind = "DNSKEY" /\ answer # Failed
                          THEN [keyCache EXCEPT ![f.zone] = answer] ELSE keyCache
  BY Zenon DEF Query, At
<1>2. /\ FrameOK(f, phase, content) /\ IsFrame(f) /\ f.pc \in Fetching /\ f.zone \in Zones
      /\ phase[f.zone] \in Nat \ {0}
  BY Zenon, <1>1, TopFetches DEF Fetching
<1> HIDE DEF f
<1>3. PICK answer \in {Failed, phase[f.zone]} :
           /\ stack' = With(g, WithResult(f, "release", answer))
           /\ keyCache' = IF f.kind = "DNSKEY" /\ answer # Failed
                          THEN [keyCache EXCEPT ![f.zone] = answer] ELSE keyCache
  BY Zenon, <1>1
<1>4. PICK h : h = WithResult(f, "release", answer) /\ stack' = With(g, h)
  BY Zenon, <1>3
<1>5. Moves(h, f) /\ h.pc = "release" /\ h.result = answer /\ (answer = Failed => h.failed)
  BY <1>2, <1>4, MovesWithResult
<1>6. answer \in 0 .. phase[f.zone] /\ (answer # Failed => Recent(answer, f.zone, phase))
  BY <1>2 DEF Failed, Recent
<1>7. FrameOK(h, phase, content)
  BY <1>2, <1>5, <1>6, MoveOK DEF Fetching
<1>8. TypeOK'
  <2>1. /\ keyCache = [z \in Zones |-> keyCache[z]]
        /\ \A z \in Zones : keyCache[z] # None => keyCache[z] \in 1 .. phase[z] /\ Recent(keyCache[z], z, phase)
    BY DEF IInv, TypeOK
  <2>2. keyCache' = [z \in Zones |-> keyCache'[z]]
    BY <1>3, <2>1
  <2>3. \A z \in Zones : keyCache'[z] = keyCache[z] \/ (z = f.zone /\ keyCache'[z] = answer /\ answer # Failed)
    BY <1>3, <2>1
  <2>4. answer # Failed => answer \in 1 .. phase[f.zone] /\ Recent(answer, f.zone, phase)
    BY <1>2, <1>6 DEF Failed
  <2>5. \A z \in Zones : keyCache'[z] # None => keyCache'[z] \in 1 .. phase[z] /\ Recent(keyCache'[z], z, phase)
    BY <2>1, <2>3, <2>4
  <2> QED  BY <1>1, <2>2, <2>5 DEF IInv, TypeOK, Recent
<1>9. h.msg = f.msg /\ h.kind = f.kind /\ h.zone = f.zone
  BY <1>5 DEF Moves
<1> QED  BY Zenon, <1>1, <1>3, <1>4, <1>5, <1>7, <1>8, <1>9, SteadyStep DEF Leading, f

\* A slot is written.
LEMMA SlotWritten ==
    ASSUME TypeOK, NEW k \in Kinds, NEW z \in Zones, NEW v \in Goroutines \cup {None},
           inflight' = [inflight EXCEPT ![k][z] = v], UNCHANGED <<phase, content, keyCache>>
    PROVE  /\ TypeOK' /\ inflight'[k][z] = v
           /\ \A j \in Kinds : \A y \in Zones : <<j, y>> # <<k, z>> => inflight'[j][y] = inflight[j][y]
<1>1. inflight \in [Kinds -> [Zones -> Goroutines \cup {None}]]
  BY DEF TypeOK
<1>2. inflight' \in [Kinds -> [Zones -> Goroutines \cup {None}]]
  BY <1>1
<1>3. /\ inflight'[k][z] = v
      /\ \A j \in Kinds : \A y \in Zones : j # k \/ y # z => inflight'[j][y] = inflight[j][y]
  BY <1>1
<1>4. TypeOK'
  BY <1>2 DEF TypeOK, Recent
<1> QED  BY <1>3, <1>4

LEMMA SlotCleared ==
    ASSUME TypeOK, NEW k \in Kinds, NEW z \in Zones,
           inflight' = [inflight EXCEPT ![k][z] = None], UNCHANGED <<phase, content, keyCache>>
    PROVE  /\ TypeOK' /\ inflight'[k][z] = None
           /\ \A j \in Kinds : \A y \in Zones : <<j, y>> # <<k, z>> => inflight'[j][y] = inflight[j][y]
<1>1. inflight \in [Kinds -> [Zones -> Goroutines \cup {None}]]
  BY DEF TypeOK
<1>2. inflight' \in [Kinds -> [Zones -> Goroutines \cup {None}]]
  BY <1>1
<1>3. /\ inflight'[k][z] = None
      /\ \A j \in Kinds : \A y \in Zones : j # k \/ y # z => inflight'[j][y] = inflight[j][y]
  BY <1>1
<1>4. TypeOK'
  BY <1>2 DEF TypeOK, Recent
<1> QED  BY <1>3, <1>4

\* The frames that lead are those of zones and kinds.
LEMMA LeadsWhat ==
    ASSUME FramesOK, NEW h \in Goroutines, NEW n \in 1 .. Len(stack[h]), stack[h][n].pc \in Leading
    PROVE  stack[h][n].kind \in Kinds /\ stack[h][n].zone \in Zones
<1>1. FrameOK(stack[h][n], phase, content) /\ stack[h][n].pc \in Fetching
  BY DEF FramesOK, Leading, Fetching
<1> QED  BY Zenon, <1>1 DEF FrameOK, FrameType, FetchOK

LEMMA SlotTaken ==
    ASSUME TypeOK, FramesOK, SlotsOK, NEW g \in Goroutines, NEW f, Replaced(g, f), Top(g).pc = "slot",
           NEW k \in Kinds, NEW z \in Zones, Leads(f, k, z), inflight[k][z] = None, inflight'[k][z] = g,
           \A j \in Kinds : \A y \in Zones : <<j, y>> # <<k, z>> => inflight'[j][y] = inflight[j][y]
    PROVE  SlotsOK'
<1>0. Len(stack[g]) \in 1 .. Len(stack[g]) /\ stack'[g][Len(stack[g])] = f /\ Top(g).pc \notin Leading
  BY DEF Replaced, Leading
<1>1. ASSUME NEW h \in Goroutines, NEW n \in 1 .. Len(stack'[h]), stack'[h][n].pc \in Leading
      PROVE  \/ h = g /\ n = Len(stack[g]) /\ stack'[h][n] = f
             \/ /\ n \in 1 .. Len(stack[h]) /\ stack'[h][n] = stack[h][n]
                /\ stack[h][n].kind \in Kinds /\ stack[h][n].zone \in Zones
                /\ inflight[stack[h][n].kind][stack[h][n].zone] = h
                /\ <<stack[h][n].kind, stack[h][n].zone>> # <<k, z>>
  <2>1. n \in 1 .. Len(stack[h])
    BY Zenon, <1>1, ReplacedFrames
  <2>2. CASE stack'[h][n] = stack[h][n]
    <3>1. stack[h][n].kind \in Kinds /\ stack[h][n].zone \in Zones
      BY Zenon, <1>1, <2>1, <2>2, LeadsWhat
    <3>2. inflight[stack[h][n].kind][stack[h][n].zone] = h /\ h # None
      BY Zenon, <1>1, <2>1, <2>2, NoneAssumption DEF SlotsOK
    <3> QED  BY Zenon, <2>1, <2>2, <3>1, <3>2
  <2> QED  BY <1>1, <2>1, <2>2, ReplacedFrames
<1>2. ASSUME NEW h \in Goroutines, NEW n \in 1 .. Len(stack'[h]), stack'[h][n].pc \in Leading
      PROVE  inflight'[stack'[h][n].kind][stack'[h][n].zone] = h
  <2>1. CASE h = g /\ stack'[h][n] = f
    BY Zenon, <2>1 DEF Leads
  <2>2. CASE /\ stack'[h][n] = stack[h][n] /\ stack[h][n].kind \in Kinds /\ stack[h][n].zone \in Zones
             /\ inflight[stack[h][n].kind][stack[h][n].zone] = h
             /\ <<stack[h][n].kind, stack[h][n].zone>> # <<k, z>>
    BY Zenon, <2>2
  <2> QED  BY Zenon, <1>1, <1>2, <2>1, <2>2
<1>3. ASSUME NEW h \in Goroutines, NEW m \in 1 .. Len(stack'[h]), NEW n \in 1 .. Len(stack'[h]),
             stack'[h][m].pc \in Leading, Leads(stack'[h][n], stack'[h][m].kind, stack'[h][m].zone)
      PROVE  m = n
  <2>1. stack'[h][n].pc \in Leading /\ stack'[h][n].kind = stack'[h][m].kind /\ stack'[h][n].zone = stack'[h][m].zone
    BY Zenon, <1>3 DEF Leads
  <2>2. CASE h = g /\ m = Len(stack[g]) /\ stack'[h][m] = f
    BY <1>1, <2>1, <2>2 DEF Leads
  <2>3. CASE h = g /\ n = Len(stack[g]) /\ stack'[h][n] = f
    BY <1>1, <1>3, <2>1, <2>3 DEF Leads
  <2>4. CASE /\ m \in 1 .. Len(stack[h]) /\ stack'[h][m] = stack[h][m]
             /\ n \in 1 .. Len(stack[h]) /\ stack'[h][n] = stack[h][n]
    BY Zenon, <1>3, <2>4 DEF SlotsOK
  <2> QED  BY Zenon, <1>1, <1>3, <2>1, <2>2, <2>3, <2>4
<1>4. ASSUME NEW j \in Kinds, NEW y \in Zones, inflight'[j][y] # None
      PROVE  \E n \in 1 .. Len(stack'[inflight'[j][y]]) : Leads(stack'[inflight'[j][y]][n], j, y)
  <2>1. CASE <<j, y>> = <<k, z>>
    <3>1. Len(stack'[g]) = Len(stack[g]) /\ j = k /\ y = z
      BY Zenon, <2>1 DEF Replaced
    <3> QED  BY Zenon, <1>0, <3>1
  <2>2. CASE <<j, y>> # <<k, z>>
    <3> DEFINE l == inflight[j][y]
    <3>1. inflight'[j][y] = l /\ l \in Goroutines
      BY <1>4, <2>2 DEF TypeOK
    <3>2. PICK n \in 1 .. Len(stack[l]) : Leads(stack[l][n], j, y)
      BY Zenon, <1>4, <3>1 DEF SlotsOK
    <3>3. n \in 1 .. Len(stack'[l]) /\ stack'[l][n] = stack[l][n]
      BY <1>0, <3>1, <3>2, ReplacedFrames DEF Leads
    <3> QED  BY Zenon, <3>1, <3>2, <3>3
  <2> QED  BY <2>1, <2>2
<1> QED  BY <1>2, <1>3, <1>4 DEF SlotsOK

LEMMA SlotReleased ==
    ASSUME TypeOK, FramesOK, SlotsOK, NEW g \in Goroutines, NEW f, Replaced(g, f), f.pc \notin Leading,
           NEW k \in Kinds, NEW z \in Zones, Leads(Top(g), k, z), inflight'[k][z] = None,
           \A j \in Kinds : \A y \in Zones : <<j, y>> # <<k, z>> => inflight'[j][y] = inflight[j][y]
    PROVE  SlotsOK'
<1>0. Len(stack[g]) \in 1 .. Len(stack[g]) /\ stack'[g][Len(stack[g])] = f /\ stack[g][Len(stack[g])] = Top(g)
  BY DEF Replaced, Top
<1>1. ASSUME NEW h \in Goroutines, NEW n \in 1 .. Len(stack'[h]), stack'[h][n].pc \in Leading
      PROVE  /\ n \in 1 .. Len(stack[h]) /\ stack'[h][n] = stack[h][n]
             /\ stack[h][n].kind \in Kinds /\ stack[h][n].zone \in Zones
             /\ inflight[stack[h][n].kind][stack[h][n].zone] = h
             /\ <<stack[h][n].kind, stack[h][n].zone>> # <<k, z>>
  <2>1. n \in 1 .. Len(stack[h]) /\ stack'[h][n] = stack[h][n]
    BY <1>1, ReplacedFrames
  <2>2. stack[h][n].kind \in Kinds /\ stack[h][n].zone \in Zones
    BY Zenon, <1>1, <2>1, LeadsWhat
  <2>3. inflight[stack[h][n].kind][stack[h][n].zone] = h
    BY Zenon, <1>1, <2>1 DEF SlotsOK
  <2>4. ASSUME stack[h][n].kind = k, stack[h][n].zone = z PROVE FALSE
    <3>1. inflight[k][z] = g
      BY <1>0 DEF SlotsOK, Leads
    <3>2. h = g
      BY Zenon, <2>3, <2>4, <3>1
    <3>3. n = Len(stack[g])
      BY <1>0, <1>1, <2>1, <2>4, <3>2 DEF SlotsOK, Leads
    <3> QED  BY Zenon, <1>0, <1>1, <3>2, <3>3
  <2> QED  BY Zenon, <2>1, <2>2, <2>3, <2>4
<1>2. ASSUME NEW h \in Goroutines, NEW n \in 1 .. Len(stack'[h]), stack'[h][n].pc \in Leading
      PROVE  inflight'[stack'[h][n].kind][stack'[h][n].zone] = h
  BY <1>1, <1>2
<1>3. ASSUME NEW h \in Goroutines, NEW m \in 1 .. Len(stack'[h]), NEW n \in 1 .. Len(stack'[h]),
             stack'[h][m].pc \in Leading, Leads(stack'[h][n], stack'[h][m].kind, stack'[h][m].zone)
      PROVE  m = n
  <2>1. stack'[h][n].pc \in Leading
    BY Zenon, <1>3 DEF Leads
  <2>2. /\ m \in 1 .. Len(stack[h]) /\ stack'[h][m] = stack[h][m]
        /\ n \in 1 .. Len(stack[h]) /\ stack'[h][n] = stack[h][n]
    BY Zenon, <1>1, <1>3, <2>1
  <2> QED  BY Zenon, <1>3, <2>2 DEF SlotsOK
<1>4. ASSUME NEW j \in Kinds, NEW y \in Zones, inflight'[j][y] # None
      PROVE  \E n \in 1 .. Len(stack'[inflight'[j][y]]) : Leads(stack'[inflight'[j][y]][n], j, y)
  <2> DEFINE l == inflight[j][y]
  <2>1. <<j, y>> # <<k, z>> /\ inflight'[j][y] = l /\ l \in Goroutines
    BY <1>4 DEF TypeOK
  <2>2. PICK n \in 1 .. Len(stack[l]) : Leads(stack[l][n], j, y)
    BY Zenon, <1>4, <2>1 DEF SlotsOK
  <2>3. n \in 1 .. Len(stack'[l]) /\ stack'[l][n] = stack[l][n]
    BY <1>0, <2>1, <2>2, ReplacedFrames DEF Leads
  <2> QED  BY Zenon, <2>1, <2>2, <2>3
<1> QED  BY Zenon, <1>2, <1>3, <1>4 DEF SlotsOK

\* Everything but the slots, for a step that may start to wait.
LEMMA FetchStep ==
    ASSUME IInv, NEW g \in Goroutines, stack[g] # << >>, NEW f, stack' = With(g, f),
           FrameOK(f, phase, content), UNCHANGED <<phase, content>>, TypeOK', SlotsOK', f.msg = Top(g).msg,
           Top(g).pc \in Leading \cup {"close"} => Attending(f, Top(g).kind, Top(g).zone),
           f.pc = "wait" => Attended(f.leader, f.kind, f.zone)
    PROVE  IInv'
<1>1. Stacks' /\ Replaced(g, f)
  BY Zenon, WithReplaces DEF IInv
<1>2. FramesOK'
  BY Zenon, <1>1, FramesKept DEF IInv
<1>3. NestedOK'
  BY Zenon, <1>1, NestedKept DEF IInv
<1>4. AttendantsKept /\ WaitersAttended
  BY Zenon, <1>1, AttendantsStay, WaitersStay DEF IInv
<1>5. WaitsOK'
  BY <1>4, WaitsKept
<1>6. RanksOK'
  BY Zenon, <1>1, <1>2, <1>3, RanksKept
<1> QED  BY Zenon, <1>1, <1>2, <1>3, <1>5, <1>6 DEF IInv

LEMMA TakeSlotStep == ASSUME IInv, NEW g \in Goroutines, TakeSlot(g) PROVE IInv'
<1> DEFINE f == Top(g)
           k == f.kind
           z == f.zone
           a == [f EXCEPT !.pc = "wait", !.leader = inflight[k][z]]
           p == IF k = "DNSKEY" THEN "recheck" ELSE "query"
           b == [f EXCEPT !.pc = p, !.leader = g]
<1>1. /\ stack[g] # << >> /\ f.pc = "slot" /\ UNCHANGED <<phase, content, keyCache>>
      /\ IF inflight[k][z] # None THEN stack' = With(g, a) /\ UNCHANGED inflight
         ELSE stack' = With(g, b) /\ inflight' = [inflight EXCEPT ![k][z] = g]
  BY DEF TakeSlot, At
<1>2. /\ FrameOK(f, phase, content) /\ IsFrame(f) /\ f.pc \in Fetching /\ z \in Zones /\ k \in Kinds
      /\ f.result \in 0 .. phase[z] /\ (f.result # Failed => Recent(f.result, z, phase))
  BY <1>1, TopFetches DEF Fetching
<1> HIDE DEF f
<1>3. Moves(a, f) /\ a.pc = "wait" /\ a.leader = inflight[k][z] /\ a.result = f.result /\ a.failed = f.failed
  BY Zenon, <1>2 DEF Moves, IsFrame, Fields
<1>4. Moves(b, f) /\ b.pc = p /\ b.result = f.result /\ b.failed = f.failed
  BY Zenon, <1>2 DEF Moves, IsFrame, Fields
<1> HIDE DEF a, b
<1>5. FrameOK(a, phase, content) /\ a.kind = k /\ a.zone = z /\ a.msg = f.msg
  BY Zenon, <1>2, <1>3, MoveOK DEF Fetching, Moves
<1>6. FrameOK(b, phase, content) /\ Leads(b, k, z) /\ b.pc # "wait" /\ b.msg = f.msg
  <2>1. b.pc \in {"recheck", "query"}
    BY Zenon, <1>4
  <2> QED  BY Zenon, <1>2, <1>4, <2>1, MoveOK DEF Fetching, Moves, Leads, Leading
<1> HIDE DEF k, z, p
<1>7. CASE inflight[k][z] # None
  <2>1. TypeOK'
    BY Zenon, <1>1, <1>7, TypeKept DEF IInv
  <2>2. Replaced(g, a)
    BY Zenon, <1>1, <1>7, WithReplaces DEF IInv
  <2>3. SlotsOK'
    <3>1. a.pc \notin Leading /\ Top(g).pc \notin Leading
      BY Zenon, <1>1, <1>3 DEF f, Leading
    <3>2. LeadersKept
      BY Zenon, <2>2, <3>1, LeadersStay
    <3> QED  BY Zenon, <1>1, <1>7, <3>2, SlotsKept DEF IInv
  <2>4. Attended(a.leader, a.kind, a.zone)
    <3> DEFINE l == inflight[k][z]
    <3>1. l \in Goroutines
      BY Zenon, <1>2, <1>7 DEF IInv, TypeOK
    <3>2. \E n \in 1 .. Len(stack[l]) : Leads(stack[l][n], k, z)
      BY Zenon, <1>2, <1>7 DEF IInv, SlotsOK
    <3> QED  BY Zenon, <1>3, <1>5, <3>1, <3>2 DEF Attended, Attending, Leads
  <2>5. Top(g).pc \notin Leading \cup {"close"}
    BY Zenon, <1>1 DEF f, Leading
  <2> QED  BY Zenon, <1>1, <1>5, <1>7, <2>1, <2>3, <2>4, <2>5, FetchStep DEF f
<1>8. CASE inflight[k][z] = None
  <2>1. /\ TypeOK' /\ inflight'[k][z] = g
        /\ \A j \in Kinds : \A y \in Zones : <<j, y>> # <<k, z>> => inflight'[j][y] = inflight[j][y]
    BY Zenon, <1>1, <1>2, <1>8, SlotWritten DEF IInv
  <2>2. Replaced(g, b)
    BY Zenon, <1>1, <1>8, WithReplaces DEF IInv
  <2>3. SlotsOK'
    BY Zenon, <1>1, <1>2, <1>6, <1>8, <2>1, <2>2, SlotTaken DEF IInv, f
  <2>4. Top(g).pc \notin Leading \cup {"close"}
    BY <1>1 DEF f, Leading
  <2> QED  BY Zenon, <1>1, <1>6, <1>8, <2>1, <2>3, <2>4, FetchStep DEF f
<1> QED  BY Zenon, <1>7, <1>8

LEMMA ReleaseSlotStep == ASSUME IInv, NEW g \in Goroutines, ReleaseSlot(g) PROVE IInv'
<1> DEFINE f == Top(g)
           h == [f EXCEPT !.pc = "close"]
<1>1. /\ stack[g] # << >> /\ f.pc = "release" /\ UNCHANGED <<phase, content, keyCache>>
      /\ stack' = With(g, h) /\ inflight' = [inflight EXCEPT ![f.kind][f.zone] = None]
  BY DEF ReleaseSlot, At
<1>2. /\ FrameOK(f, phase, content) /\ IsFrame(f) /\ f.pc \in Fetching /\ f.zone \in Zones /\ f.kind \in Kinds
      /\ f.result \in 0 .. phase[f.zone] /\ (f.result # Failed => Recent(f.result, f.zone, phase))
      /\ FetchOK(f, phase)
  BY <1>1, TopFetches DEF Fetching
<1> HIDE DEF f
<1>3. Moves(h, f) /\ h.pc = "close" /\ h.result = f.result /\ h.failed = f.failed
  BY Zenon, <1>2 DEF Moves, IsFrame, Fields
<1> HIDE DEF h
<1>4. h.result = Failed => h.failed
  BY <1>1, <1>2, <1>3 DEF FetchOK
<1>5. FrameOK(h, phase, content)
  BY Zenon, <1>2, <1>3, <1>4, MoveOK DEF Fetching
<1>6. h.msg = f.msg /\ Attending(h, f.kind, f.zone) /\ h.pc \notin Leading
  BY Zenon, <1>3 DEF Moves, Attending, Leading
<1>7. /\ TypeOK' /\ inflight'[f.kind][f.zone] = None
      /\ \A j \in Kinds : \A y \in Zones : <<j, y>> # <<f.kind, f.zone>> => inflight'[j][y] = inflight[j][y]
  BY Zenon, <1>1, <1>2, SlotCleared DEF IInv
<1>8. Replaced(g, h)
  BY <1>1, WithReplaces DEF IInv
<1>9. SlotsOK'
  <2>1. Leads(Top(g), f.kind, f.zone)
    BY <1>1 DEF f, Leads, Leading
  <2> QED  BY Zenon, <1>2, <1>6, <1>7, <1>8, <2>1, SlotReleased DEF IInv
<1> QED  BY Zenon, <1>1, <1>3, <1>5, <1>6, <1>7, <1>9, FetchStep DEF f

-----------------------------------------------------------------------------
(* The channel is closed.                                                     *)

\* What it does to the innermost validation of h.
Hears(h, g) == h = g \/ (stack[h] # << >> /\ Follows(Top(h), g))
Heard(f, e, r) ==
    /\ Moves(f, e) /\ f.pc = "got" /\ f.result = r /\ (r = Failed => f.failed)

LEMMA LastReplaced ==
    ASSUME NEW S, NEW q \in Seq(S), q # << >>, NEW e, NEW p, p = [q EXCEPT ![Len(q)] = e]
    PROVE  /\ p \in Seq(S \cup {e}) /\ Len(p) = Len(q) /\ Len(q) \in Nat \ {0} /\ p[Len(q)] = e
           /\ \A n \in 1 .. Len(q) - 1 : p[n] = q[n]
<1>1. Len(q) \in Nat \ {0} /\ Len(q) \in 1 .. Len(q)
  OBVIOUS
<1>2. p \in Seq(S \cup {e}) /\ Len(p) = Len(q) /\ p[Len(q)] = e /\ \A m \in 1 .. Len(q) : m # Len(q) => p[m] = q[m]
  BY <1>1, SequenceChanges
<1>3. ASSUME NEW n \in 1 .. Len(q) - 1 PROVE n \in 1 .. Len(q) /\ n # Len(q)
  BY <1>1
<1> QED  BY Zenon, <1>1, <1>2, <1>3

LEMMA MoreFrames == ASSUME NEW A, NEW B, A \subseteq B, NEW q \in Seq(A) PROVE q \in Seq(B)
OBVIOUS

\* The frames after the channel is closed.
CloseFrame(h, g) ==
    IF h = g THEN [Top(g) EXCEPT !.pc = "got"]
    ELSE WithResult(Top(h), "got", Top(g).result)

LEMMA CloseFrameHeard ==
    ASSUME IInv, NEW g \in Goroutines, At(g, "close"), NEW h \in Goroutines, Hears(h, g)
    PROVE  stack[h] # << >> /\ Heard(CloseFrame(h, g), Top(h), Top(g).result)
<1>1. stack[g] # << >> /\ Top(g).pc = "close" /\ IsFrame(Top(g)) /\ FetchOK(Top(g), phase)
  BY Zenon, TopFetches DEF At, Fetching
<1>2. CASE h = g
  <2> DEFINE f == Top(g)
  <2>1. IsFrame(f) /\ (f.result = Failed => f.failed)
    BY Zenon, <1>1 DEF FetchOK
  <2> HIDE DEF f
  <2>2. PICK c : c = [f EXCEPT !.pc = "got"]
    BY Zenon
  <2>3. Moves(c, f) /\ c.pc = "got" /\ c.result = f.result /\ c.failed = f.failed
    BY <2>1, <2>2, MovesOn
  <2>4. Heard(c, f, f.result)
    BY Zenon, <2>1, <2>3 DEF Heard
  <2> QED  BY Zenon, <1>1, <1>2, <2>2, <2>4 DEF CloseFrame, f
<1>3. CASE h # g
  <2>1. stack[h] # << >> /\ Top(h).pc = "wait"
    BY <1>3 DEF Hears, Follows
  <2>2. IsFrame(Top(h))
    BY Zenon, <2>1, TopFetches DEF Fetching
  <2>3. PICK c : c = WithResult(Top(h), "got", Top(g).result)
    OBVIOUS
  <2>4. Heard(c, Top(h), Top(g).result)
    BY <2>2, <2>3, MovesWithResult DEF Heard
  <2> QED  BY Zenon, <1>3, <2>1, <2>3, <2>4 DEF CloseFrame
<1> QED  BY <1>2, <1>3

LEMMA Closes ==
    ASSUME IInv, NEW g \in Goroutines, CloseDone(g)
    PROVE  /\ Stacks'
           /\ \A h \in Goroutines :
                /\ Len(stack'[h]) = Len(stack[h])
                /\ ~Hears(h, g) => stack'[h] = stack[h]
                /\ Hears(h, g) =>
                     /\ Len(stack[h]) \in Nat \ {0}
                     /\ Heard(stack'[h][Len(stack[h])], Top(h), Top(g).result)
                     /\ \A n \in 1 .. Len(stack[h]) - 1 : stack'[h][n] = stack[h][n]
<1>1. PICK S : \A h \in Goroutines : stack[h] \in Seq(S)
  BY DEF IInv, Stacks
<1>2. stack' = [h \in Goroutines |-> IF Hears(h, g) THEN [stack[h] EXCEPT ![Len(stack[h])] = CloseFrame(h, g)]
                                     ELSE stack[h]]
  <2> DEFINE led == [stack[g] EXCEPT ![Len(stack[g])].pc = "got"]
             followed(h) == [stack[h] EXCEPT ![Len(stack[h])] = WithResult(@, "got", Top(g).result)]
             new(h) == IF h = g THEN led ELSE IF stack[h] # << >> /\ Follows(Top(h), g) THEN followed(h) ELSE stack[h]
             end(h) == [stack[h] EXCEPT ![Len(stack[h])] = CloseFrame(h, g)]
             out(h) == IF Hears(h, g) THEN end(h) ELSE stack[h]
  <2>1. stack' = [h \in Goroutines |-> new(h)]
    BY Zenon DEF CloseDone
  <2>2. led = end(g)
    BY Zenon DEF CloseFrame, Top
  <2>3. ASSUME NEW h \in Goroutines, h # g PROVE followed(h) = end(h)
    BY Zenon, <2>3 DEF CloseFrame, Top
  <2> HIDE DEF led, followed, end
  <2>4. ASSUME NEW h \in Goroutines PROVE new(h) = out(h)
    BY Zenon, <2>2, <2>3 DEF Hears
  <2> HIDE DEF new, out
  <2>5. stack' = [h \in Goroutines |-> out(h)]
    BY Zenon, <2>1, <2>4
  <2> QED  BY Zenon, <2>5 DEF out, end
<1> DEFINE T == S \cup {CloseFrame(h, g) : h \in Goroutines}
<1>3. ASSUME NEW h \in Goroutines, Hears(h, g)
      PROVE  /\ Len(stack'[h]) = Len(stack[h]) /\ Len(stack[h]) \in Nat \ {0} /\ stack'[h] \in Seq(T)
             /\ Heard(stack'[h][Len(stack[h])], Top(h), Top(g).result)
             /\ \A n \in 1 .. Len(stack[h]) - 1 : stack'[h][n] = stack[h][n]
  <2>1. stack[h] # << >> /\ Heard(CloseFrame(h, g), Top(h), Top(g).result)
    BY Zenon, <1>3, CloseFrameHeard DEF CloseDone
  <2>2. stack'[h] = [stack[h] EXCEPT ![Len(stack[h])] = CloseFrame(h, g)]
    BY Zenon, <1>2, <1>3
  <2>3. /\ stack'[h] \in Seq(S \cup {CloseFrame(h, g)}) /\ Len(stack'[h]) = Len(stack[h])
        /\ Len(stack[h]) \in Nat \ {0} /\ stack'[h][Len(stack[h])] = CloseFrame(h, g)
        /\ \A n \in 1 .. Len(stack[h]) - 1 : stack'[h][n] = stack[h][n]
    BY <1>1, <2>1, <2>2, LastReplaced
  <2>4. S \cup {CloseFrame(h, g)} \subseteq T
    OBVIOUS
  <2>5. stack'[h] \in Seq(T)
    BY Zenon, <2>3, <2>4, MoreFrames
  <2> QED  BY Zenon, <2>1, <2>3, <2>5
<1>4. ASSUME NEW h \in Goroutines, ~Hears(h, g) PROVE stack'[h] = stack[h] /\ stack'[h] \in Seq(T)
  BY Zenon, <1>1, <1>2, <1>4, MoreFrames
<1>5. Stacks'
  <2>1. stack' = [h \in Goroutines |-> stack'[h]]
    BY <1>2
  <2> QED  BY Zenon, <1>3, <1>4, <2>1 DEF Stacks
<1> QED  BY Zenon, <1>3, <1>4, <1>5

\* Every frame is the same, or the innermost one of somebody who hears.
LEMMA ClosedFrames ==
    ASSUME IInv, NEW g \in Goroutines, CloseDone(g), NEW h \in Goroutines, NEW n \in 1 .. Len(stack[h])
    PROVE  \/ stack'[h][n] = stack[h][n] /\ ~(n = Len(stack[h]) /\ Hears(h, g))
           \/ /\ n = Len(stack[h]) /\ Hears(h, g) /\ stack[h][n] = Top(h)
              /\ Top(h).pc \in {"wait", "close"} /\ Top(h).kind = Top(g).kind /\ Top(h).zone = Top(g).zone
              /\ Heard(stack'[h][n], Top(h), Top(g).result)
<1>1. CASE ~Hears(h, g)
  BY Zenon, <1>1, Closes
<1>2. CASE Hears(h, g) /\ n # Len(stack[h])
  <2>1. Len(stack[h]) \in Nat \ {0} /\ n \in 1 .. Len(stack[h]) - 1
    BY <1>2, Closes
  <2> QED  BY <1>2, <2>1, Closes
<1>3. CASE Hears(h, g) /\ n = Len(stack[h])
  <2>1. Top(g).pc = "close"
    BY DEF CloseDone, At
  <2>2. Top(h).pc \in {"wait", "close"} /\ Top(h).kind = Top(g).kind /\ Top(h).zone = Top(g).zone
    BY Zenon, <1>3, <2>1 DEF Hears, Follows
  <2>3. Heard(stack'[h][n], Top(h), Top(g).result)
    BY Zenon, <1>3, Closes
  <2> QED  BY Zenon, <1>3, <2>2, <2>3 DEF Top
<1> QED  BY Zenon, <1>1, <1>2, <1>3

LEMMA CloseDoneStep == ASSUME IInv, NEW g \in Goroutines, CloseDone(g) PROVE IInv'
<1>1. UNCHANGED <<phase, content, keyCache, inflight>> /\ stack[g] # << >> /\ Top(g).pc = "close"
  BY DEF CloseDone, At
<1>2. /\ Top(g).zone \in Zones /\ Top(g).result \in 0 .. phase[Top(g).zone]
      /\ Top(g).result # Failed => Recent(Top(g).result, Top(g).zone, phase)
  BY <1>1, TopFetches DEF Fetching
<1>3. Stacks' /\ \A h \in Goroutines : Len(stack'[h]) = Len(stack[h]) /\ Len(stack[h]) \in Nat
  BY Closes, SomeFrame DEF IInv
<1>4. FramesOK'
  <2>1. ASSUME NEW h \in Goroutines, NEW n \in 1 .. Len(stack[h]) PROVE FrameOK(stack'[h][n], phase, content)
    <3>1. FrameOK(stack[h][n], phase, content)
      BY DEF IInv, FramesOK
    <3>2. CASE /\ stack[h][n] = Top(h) /\ Top(h).pc \in {"wait", "close"} /\ Top(h).zone = Top(g).zone
               /\ Heard(stack'[h][n], Top(h), Top(g).result)
      <4>1. FrameOK(Top(h), phase, content) /\ Top(h).pc \in Fetching
        BY Zenon, <3>1, <3>2 DEF Fetching
      <4>2. PICK f : f = stack'[h][n]
        BY Zenon
      <4>3. Moves(f, Top(h)) /\ f.pc = "got" /\ f.result = Top(g).result /\ (f.result = Failed => f.failed)
        BY Zenon, <3>2, <4>2 DEF Heard
      <4>4. f.pc \in Fetching
        BY Zenon, <4>3 DEF Fetching
      <4>5. f.result \in 0 .. phase[Top(h).zone] /\ (f.result # Failed => Recent(f.result, Top(h).zone, phase))
        BY Zenon, <1>2, <3>2, <4>3
      <4>6. FrameOK(f, phase, content)
        BY Zenon, <4>1, <4>3, <4>4, <4>5, MoveOK
      <4> QED  BY Zenon, <4>2, <4>6
    <3> QED  BY Zenon, <3>1, <3>2, ClosedFrames
  <2> QED  BY Zenon, <1>1, <1>3, <2>1 DEF FramesOK
<1>5. ASSUME NEW h \in Goroutines, NEW n \in 1 .. Len(stack[h])
      PROVE  /\ stack'[h][n].msg = stack[h][n].msg /\ stack'[h][n].kind = stack[h][n].kind
             /\ stack'[h][n].zone = stack[h][n].zone
             /\ \/ stack'[h][n].pc = stack[h][n].pc
                \/ stack'[h][n].pc = "got" /\ stack[h][n].pc \in {"wait", "close"}
  BY ClosedFrames DEF Heard, Moves
<1>6. NestedOK'
  <2>1. ASSUME NEW h \in Goroutines, NEW n \in 1 .. Len(stack[h]) - 1
        PROVE  /\ stack'[h][n].pc = "query" /\ stack'[h][n].asked
               /\ stack'[h][n].zone \in DOMAIN NSHost /\ stack'[h][n + 1].msg = NSHost[stack'[h][n].zone]
    <3>1. n \in 1 .. Len(stack[h]) /\ n + 1 \in 1 .. Len(stack[h]) /\ n # Len(stack[h])
      BY <1>3
    <3>2. stack'[h][n] = stack[h][n]
      BY Zenon, <3>1, ClosedFrames
    <3> QED  BY <1>5, <3>1, <3>2 DEF IInv, NestedOK
  <2> QED  BY Zenon, <1>3, <2>1 DEF NestedOK
<1>7. LeadersKept
  <2>1. ASSUME NEW h \in Goroutines, NEW n \in 1 .. Len(stack[h])
        PROVE  /\ stack[h][n].pc \in Leading => Leads(stack'[h][n], stack[h][n].kind, stack[h][n].zone)
               /\ stack'[h][n].pc \in Leading => Leads(stack[h][n], stack'[h][n].kind, stack'[h][n].zone)
    BY Zenon, <1>5 DEF Leads, Leading
  <2> QED  BY Zenon, <1>3, <2>1 DEF LeadersKept
<1>8. SlotsOK' /\ TypeOK'
  BY <1>1, <1>7, SlotsKept, TypeKept DEF IInv
<1>9. RanksOK'
  <2>1. SUFFICES ASSUME NoHostCycle, NEW h \in Goroutines, NEW n \in 1 .. Len(stack[h]),
                        stack'[h][n].pc \in Fetching, NEW m \in 1 .. n - 1
                 PROVE  Rank[stack'[h][n].zone] < Rank[stack'[h][m].zone]
    BY Zenon, <1>3 DEF RanksOK
  <2>2. m \in 1 .. Len(stack[h])
    BY <1>3
  <2>3. stack[h][n].pc \in Fetching
    BY Zenon, <1>5, <2>1 DEF Fetching
  <2> QED  BY <1>5, <2>1, <2>2, <2>3 DEF IInv, RanksOK
<1>10. WaitsOK'
  <2>1. ASSUME NEW h \in Goroutines, NEW n \in 1 .. Len(stack'[h]), stack'[h][n].pc = "wait",
               NEW l, l = stack'[h][n].leader, NEW k, k = stack'[h][n].kind, NEW z, z = stack'[h][n].zone
        PROVE  l \in Goroutines /\ \E m \in 1 .. Len(stack'[l]) : Attending(stack'[l][m], k, z)
    <3>1. n \in 1 .. Len(stack[h])
      BY Zenon, <1>3, <2>1
    <3>2. stack'[h][n] = stack[h][n] /\ ~(n = Len(stack[h]) /\ Hears(h, g))
      BY Zenon, <2>1, <3>1, ClosedFrames DEF Heard
    <3>3. n = Len(stack[h])
      <4>1. n \in 1 .. Len(stack[h]) - 1 => stack[h][n].pc = "query"
        BY Zenon DEF IInv, NestedOK
      <4> QED  BY <1>3, <2>1, <3>1, <3>2, <4>1
    <3>4. l \in Goroutines /\ \E m \in 1 .. Len(stack[l]) : Attending(stack[l][m], k, z)
      BY Zenon, <2>1, <3>1, <3>2 DEF IInv, WaitsOK, Attended
    <3>5. PICK m \in 1 .. Len(stack[l]) : Attending(stack[l][m], k, z)
      BY Zenon, <3>4
    <3>6. ~(l = g /\ m = Len(stack[g]))
      <4>1. SUFFICES ASSUME l = g, m = Len(stack[g]) PROVE FALSE
        BY Zenon
      <4>2. Top(h).pc = "wait" /\ Top(h).leader = g /\ Top(h).kind = k /\ Top(h).zone = z /\ stack[h] # << >>
        BY <1>3, <2>1, <3>1, <3>2, <3>3, <4>1 DEF Top
      <4>3. Top(g).kind = k /\ Top(g).zone = z
        BY Zenon, <3>5, <4>1 DEF Top, Attending
      <4> QED  BY Zenon, <3>2, <3>3, <4>2, <4>3 DEF Hears, Follows
    <3>7. stack'[l][m] = stack[l][m]
      <4>1. stack[l][m].pc # "wait"
        BY <3>5 DEF Attending, Leading
      <4>2. SUFFICES ASSUME m = Len(stack[l]), Hears(l, g), stack[l][m] = Top(l) PROVE FALSE
        BY Zenon, <3>4, ClosedFrames
      <4> QED  BY Zenon, <3>6, <4>1, <4>2 DEF Hears, Follows
    <3> QED  BY Zenon, <1>3, <3>4, <3>5, <3>7
  <2> QED  BY Zenon, <2>1 DEF WaitsOK, Attended
<1> QED  BY <1>3, <1>4, <1>6, <1>8, <1>9, <1>10 DEF IInv

-----------------------------------------------------------------------------
(* Validations start, nest and end.                                           *)

\* The stack of g becomes q, of frames that are in order.
LEMMA StackChanges ==
    ASSUME Stacks, NEW g \in Goroutines, NEW T, NEW q \in Seq(T), stack' = [stack EXCEPT ![g] = q]
    PROVE  Stacks' /\ stack'[g] = q /\ \A h \in Goroutines \ {g} : stack'[h] = stack[h]
<1>1. PICK S : \A h \in Goroutines : stack[h] \in Seq(S)
  BY DEF Stacks
<1>2. stack = [h \in Goroutines |-> stack[h]]
  BY DEF Stacks
<1>3. stack'[g] = q /\ \A h \in Goroutines \ {g} : stack'[h] = stack[h]
  BY <1>2
<1>4. S \subseteq S \cup T /\ T \subseteq S \cup T
  OBVIOUS
<1>5. \A h \in Goroutines : stack'[h] \in Seq(S \cup T)
  BY Zenon, <1>1, <1>3, <1>4, MoreFrames
<1>6. stack' = [h \in Goroutines |-> stack'[h]]
  BY Zenon, <1>2
<1>7. Stacks'
  BY Zenon, <1>5, <1>6 DEF Stacks
<1> QED  BY <1>3, <1>7

LEMMA AskHostStack ==
    ASSUME IInv, NEW g \in Goroutines, stack[g] # << >>, NEW f, NEW b,
           stack' = [stack EXCEPT ![g] = Append([@ EXCEPT ![Len(@)] = f], b)]
    PROVE  /\ Stacks' /\ Len(stack[g]) \in Nat \ {0} /\ Len(stack'[g]) = Len(stack[g]) + 1
           /\ stack'[g][Len(stack[g])] = f /\ stack'[g][Len(stack[g]) + 1] = b
           /\ \A n \in 1 .. Len(stack[g]) - 1 : stack'[g][n] = stack[g][n]
           /\ \A h \in Goroutines \ {g} : stack'[h] = stack[h]
<1>1. PICK S : stack[g] \in Seq(S)
  BY DEF IInv, Stacks
<1>2. PICK p : p = [stack[g] EXCEPT ![Len(stack[g])] = f]
  BY Zenon
<1>3. /\ p \in Seq(S \cup {f}) /\ Len(p) = Len(stack[g]) /\ Len(stack[g]) \in Nat \ {0} /\ p[Len(stack[g])] = f
      /\ \A n \in 1 .. Len(stack[g]) - 1 : p[n] = stack[g][n]
  BY <1>1, <1>2, LastReplaced
<1>4. PICK T : p \in Seq(T) /\ b \in T
  <2>1. S \cup {f} \subseteq S \cup {f, b} /\ b \in S \cup {f, b}
    OBVIOUS
  <2> QED  BY Zenon, <1>3, <2>1, MoreFrames
<1>5. /\ Append(p, b) \in Seq(T) /\ Len(Append(p, b)) = Len(p) + 1 /\ Append(p, b)[Len(p) + 1] = b
      /\ \A n \in 1 .. Len(p) : Append(p, b)[n] = p[n]
  BY <1>4
<1>6. stack' = [stack EXCEPT ![g] = Append(p, b)]
  BY <1>2
<1>7. Stacks' /\ stack'[g] = Append(p, b) /\ \A h \in Goroutines \ {g} : stack'[h] = stack[h]
  BY Zenon, <1>5, <1>6, StackChanges DEF IInv
<1>8. \A n \in 1 .. Len(stack[g]) - 1 : n \in 1 .. Len(p)
  BY <1>3
<1>9. Len(stack[g]) \in 1 .. Len(p)
  BY <1>3
<1> QED  BY Zenon, <1>3, <1>5, <1>7, <1>8, <1>9

LEMMA AskHostStep == ASSUME IInv, NEW g \in Goroutines, AskHost(g) PROVE IInv'
<1> DEFINE e == Top(g)
           f == [e EXCEPT !.asked = TRUE]
           m == NSHost[e.zone]
           L == Len(stack[g])
<1>1. /\ stack[g] # << >> /\ e.pc = "query" /\ e.zone \in DOMAIN NSHost
      /\ UNCHANGED <<phase, content, keyCache, inflight>>
      /\ stack' = [stack EXCEPT ![g] = Append([@ EXCEPT ![Len(@)] = f], Frame(m))]
  BY DEF AskHost, At
<1>2. /\ FrameOK(e, phase, content) /\ IsFrame(e) /\ e.pc \in Fetching
      /\ e.result \in 0 .. phase[e.zone] /\ (e.result # Failed => Recent(e.result, e.zone, phase))
  BY Zenon, <1>1, TopFetches DEF Fetching
<1>3. /\ Stacks' /\ L \in Nat \ {0} /\ Len(stack'[g]) = L + 1
      /\ stack'[g][L] = f /\ stack'[g][L + 1] = Frame(m)
      /\ \A n \in 1 .. L - 1 : stack'[g][n] = stack[g][n]
      /\ \A h \in Goroutines \ {g} : stack'[h] = stack[h]
  BY Zenon, <1>1, AskHostStack
<1>4. stack[g][L] = e
  BY DEF Top
<1> HIDE DEF e, L
<1>5. Moves(f, e) /\ f.pc = e.pc /\ f.asked = TRUE /\ f.result = e.result
  BY Zenon, <1>2 DEF Moves, IsFrame, Fields
<1>6. StartOf(Frame(m), m)
  BY StartFields
<1> HIDE DEF f, m
<1>7. FrameOK(f, phase, content) /\ f.kind = e.kind /\ f.zone = e.zone /\ f.msg = e.msg
  BY Zenon, <1>1, <1>2, <1>5, MoveOK DEF Moves
<1>8. FrameOK(Frame(m), phase, content)
  BY Zenon, <1>1, PositiveOK, FrameStarts DEF Positive, m
<1>9. PICK b : b = Frame(m) /\ b.pc = "sig" /\ b.msg = m
  BY <1>6 DEF StartOf
<1>10. ASSUME NEW h \in Goroutines, NEW n \in 1 .. Len(stack'[h])
       PROVE  \/ n \in 1 .. Len(stack[h]) /\ stack'[h][n] = stack[h][n]
              \/ h = g /\ n = L /\ n \in 1 .. Len(stack[h]) /\ stack[h][n] = e /\ stack'[h][n] = f
              \/ h = g /\ n = L + 1 /\ stack'[h][n] = b
  <2>1. CASE h # g
    BY <1>3, <1>10, <2>1
  <2>2. CASE h = g
    <3>1. n \in 1 .. L - 1 \/ n = L \/ n = L + 1
      BY <1>3, <1>10, <2>2
    <3>2. n \in 1 .. L => n \in 1 .. Len(stack[h])
      BY <2>2 DEF L
    <3> QED  BY <1>3, <1>4, <1>9, <2>2, <3>1, <3>2
  <2> QED  BY <2>1, <2>2
<1>11. ASSUME NEW h \in Goroutines, NEW n \in 1 .. Len(stack[h])
       PROVE  n \in 1 .. Len(stack'[h]) /\ (stack'[h][n] = stack[h][n] \/ (stack[h][n] = e /\ stack'[h][n] = f))
  <2>1. CASE h # g
    BY <1>3, <1>11, <2>1
  <2>2. CASE h = g
    <3>1. n \in 1 .. Len(stack'[h]) /\ n # L + 1
      BY <1>3, <1>11, <2>2 DEF L
    <3> QED  BY <1>10, <3>1
  <2> QED  BY <2>1, <2>2
<1>12. FramesOK'
  <2>1. ASSUME NEW h \in Goroutines, NEW n \in 1 .. Len(stack'[h]) PROVE FrameOK(stack'[h][n], phase, content)
    BY Zenon, <1>7, <1>8, <1>9, <1>10, <2>1 DEF IInv, FramesOK
  <2> QED  BY Zenon, <1>1, <2>1 DEF FramesOK
<1>13. LeadersKept
  <2>1. \A h \in Goroutines : \A n \in 1 .. Len(stack[h]) : stack[h][n].pc \in Leading =>
          n \in 1 .. Len(stack'[h]) /\ Leads(stack'[h][n], stack[h][n].kind, stack[h][n].zone)
    BY Zenon, <1>5, <1>7, <1>11 DEF Leads
  <2>2. "sig" \notin Leading
    BY DEF Leading
  <2>3. \A h \in Goroutines : \A n \in 1 .. Len(stack'[h]) : stack'[h][n].pc \in Leading =>
          n \in 1 .. Len(stack[h]) /\ Leads(stack[h][n], stack'[h][n].kind, stack'[h][n].zone)
    BY Zenon, <1>5, <1>7, <1>9, <1>10, <2>2 DEF Leads
  <2> QED  BY Zenon, <2>1, <2>3 DEF LeadersKept
<1>14. SlotsOK' /\ TypeOK'
  BY <1>1, <1>13, SlotsKept, TypeKept DEF IInv
<1>15. AttendantsKept
  BY Zenon, <1>1, <1>5, <1>7, <1>11 DEF AttendantsKept, Attending, Leading
<1>16. WaitersAttended
  BY <1>1, <1>5, <1>9, <1>10 DEF WaitersAttended, IInv, WaitsOK
<1>17. WaitsOK'
  BY <1>15, <1>16, WaitsKept
<1>18. NestedOK'
  <2>1. ASSUME NEW h \in Goroutines, NEW n \in 1 .. Len(stack'[h]) - 1
        PROVE  /\ stack'[h][n].pc = "query" /\ stack'[h][n].asked
               /\ stack'[h][n].zone \in DOMAIN NSHost /\ stack'[h][n + 1].msg = NSHost[stack'[h][n].zone]
    <3>1. CASE h # g
      BY <1>3, <2>1, <3>1 DEF IInv, NestedOK
    <3>2. CASE h = g /\ n = L
      BY <1>1, <1>3, <1>5, <1>7, <1>9, <3>2 DEF m
    <3>3. CASE h = g /\ n # L
      <4>1. n \in 1 .. L - 1 /\ n + 1 \in 1 .. Len(stack[g]) /\ n \in 1 .. Len(stack[g]) - 1
        BY <1>3, <2>1, <3>3 DEF L
      <4>2. stack'[g][n] = stack[g][n] /\ stack'[g][n + 1].msg = stack[g][n + 1].msg
        BY Zenon, <1>3, <1>7, <1>11, <4>1
      <4> QED  BY <3>3, <4>1, <4>2 DEF IInv, NestedOK
    <3> QED  BY Zenon, <3>1, <3>2, <3>3
  <2> QED  BY <2>1 DEF NestedOK
<1>19. RanksOK'
  <2>1. SUFFICES ASSUME NoHostCycle, NEW h \in Goroutines, NEW n \in 1 .. Len(stack'[h]),
                        stack'[h][n].pc \in Fetching, NEW i \in 1 .. n - 1
                 PROVE  Rank[stack'[h][n].zone] < Rank[stack'[h][i].zone]
    BY DEF RanksOK
  <2>2. n \in 1 .. Len(stack[h]) /\ stack'[h][n].zone = stack[h][n].zone /\ stack'[h][n].pc = stack[h][n].pc
    BY Zenon, <1>5, <1>7, <1>9, <1>10, <2>1 DEF Fetching
  <2>3. Len(stack[h]) \in Nat
    BY Zenon, SomeFrame DEF IInv
  <2>4. i \in 1 .. Len(stack[h])
    BY <2>2, <2>3
  <2>5. stack'[h][i].zone = stack[h][i].zone
    BY <1>7, <1>11, <2>4
  <2> QED  BY Zenon, <2>1, <2>2, <2>5 DEF IInv, RanksOK
<1> QED  BY Zenon, <1>3, <1>12, <1>14, <1>17, <1>18, <1>19 DEF IInv

\* Frames that lead nothing go, and one that waits for nothing may come.
LEMMA FramesGo ==
    ASSUME IInv, UNCHANGED <<phase, content, keyCache, inflight>>, Stacks',
           \A h \in Goroutines : \A n \in 1 .. Len(stack'[h]) :
               \/ n \in 1 .. Len(stack[h]) /\ stack'[h][n] = stack[h][n]
               \/ FrameOK(stack'[h][n], phase, content) /\ stack'[h][n].pc = "sig" /\ n = Len(stack'[h]) /\ n = 1,
           \A h \in Goroutines : \A n \in 1 .. Len(stack[h]) :
               stack[h][n].pc # "done" => n \in 1 .. Len(stack'[h]) /\ stack'[h][n] = stack[h][n]
    PROVE  IInv'
<1>1. FramesOK'
  BY Zenon DEF IInv, FramesOK
<1>2. LeadersKept
  BY DEF LeadersKept, Leads, Leading
<1>3. SlotsOK' /\ TypeOK'
  BY Zenon, <1>2, SlotsKept, TypeKept DEF IInv
<1>4. AttendantsKept
  BY DEF AttendantsKept, Attending, Leading
<1>5. WaitersAttended
  BY Zenon DEF WaitersAttended, IInv, WaitsOK
<1>6. WaitsOK'
  BY Zenon, <1>4, <1>5, WaitsKept
<1>7. ASSUME NEW h \in Goroutines, NEW n \in 1 .. Len(stack'[h]), NEW i \in 1 .. n - 1
      PROVE  /\ n \in 1 .. Len(stack[h]) /\ stack'[h][n] = stack[h][n]
             /\ i \in 1 .. Len(stack[h]) /\ stack'[h][i] = stack[h][i]
  <2>1. Len(stack[h]) \in Nat /\ Len(stack'[h]) \in Nat
    BY SomeFrame DEF IInv, Stacks
  <2>2. n # 1 /\ i \in 1 .. Len(stack'[h]) /\ i # Len(stack'[h])
    BY <1>7, <2>1
  <2> QED  BY Zenon, <1>7, <2>2
<1>8. NestedOK'
  <2>1. ASSUME NEW h \in Goroutines, NEW n \in 1 .. Len(stack'[h]) - 1
        PROVE  /\ stack'[h][n].pc = "query" /\ stack'[h][n].asked
               /\ stack'[h][n].zone \in DOMAIN NSHost /\ stack'[h][n + 1].msg = NSHost[stack'[h][n].zone]
    <3>1. Len(stack[h]) \in Nat /\ Len(stack'[h]) \in Nat
      BY SomeFrame DEF IInv, Stacks
    <3>2. n + 1 \in 1 .. Len(stack'[h]) /\ n \in 1 .. n + 1 - 1
      BY <3>1
    <3>3. /\ n + 1 \in 1 .. Len(stack[h]) /\ stack'[h][n + 1] = stack[h][n + 1]
          /\ n \in 1 .. Len(stack[h]) /\ stack'[h][n] = stack[h][n]
      BY <1>7, <3>2
    <3>4. n \in 1 .. Len(stack[h]) - 1
      BY <3>1, <3>3
    <3> QED  BY <3>3, <3>4 DEF IInv, NestedOK
  <2> QED  BY Zenon, <2>1 DEF NestedOK
<1>9. RanksOK'
  <2>1. ASSUME NoHostCycle, NEW h \in Goroutines, NEW n \in 1 .. Len(stack'[h]),
               stack'[h][n].pc \in Fetching, NEW i \in 1 .. n - 1
        PROVE  Rank[stack'[h][n].zone] < Rank[stack'[h][i].zone]
    <3>1. /\ n \in 1 .. Len(stack[h]) /\ stack'[h][n] = stack[h][n]
          /\ i \in 1 .. Len(stack[h]) /\ stack'[h][i] = stack[h][i]
      BY <1>7
    <3>2. Rank[stack[h][n].zone] < Rank[stack[h][i].zone]
      BY Zenon, <2>1, <3>1 DEF IInv, RanksOK
    <3> QED  BY Zenon, <3>1, <3>2
  <2> QED  BY Zenon, <2>1 DEF RanksOK
<1> QED  BY Zenon, <1>1, <1>3, <1>6, <1>8, <1>9 DEF IInv

LEMMA ReturnStep == ASSUME IInv, NEW g \in Goroutines, Return(g) PROVE IInv'
<1> DEFINE q == SubSeq(stack[g], 1, Len(stack[g]) - 1)
<1>1. /\ Len(stack[g]) > 1 /\ Top(g).pc = "done" /\ UNCHANGED <<phase, content, keyCache, inflight>>
      /\ stack' = [stack EXCEPT ![g] = q]
  BY DEF Return, At
<1>2. PICK S : stack[g] \in Seq(S)
  BY DEF IInv, Stacks
<1>3. Len(stack[g]) \in Nat
  BY <1>2
<1>4. q \in Seq(S) /\ Len(q) = Len(stack[g]) - 1 /\ \A n \in 1 .. Len(stack[g]) - 1 : q[n] = stack[g][n]
  BY <1>1, <1>2, <1>3
<1>5. Stacks' /\ stack'[g] = q /\ \A h \in Goroutines \ {g} : stack'[h] = stack[h]
  BY Zenon, <1>1, <1>4, StackChanges DEF IInv
<1> HIDE DEF q
<1>6. ASSUME NEW h \in Goroutines, NEW n \in 1 .. Len(stack'[h])
      PROVE  n \in 1 .. Len(stack[h]) /\ stack'[h][n] = stack[h][n]
  BY <1>3, <1>4, <1>5, <1>6
<1>7. ASSUME NEW h \in Goroutines, NEW n \in 1 .. Len(stack[h]), stack[h][n].pc # "done"
      PROVE  n \in 1 .. Len(stack'[h]) /\ stack'[h][n] = stack[h][n]
  BY <1>1, <1>3, <1>4, <1>5, <1>7 DEF Top
<1> QED  BY <1>1, <1>5, <1>6, <1>7, FramesGo

LEMMA BeginStep == ASSUME IInv, NEW g \in Goroutines, Begin(g) PROVE IInv'
<1>1. /\ stack[g] = << >> \/ (Len(stack[g]) = 1 /\ Top(g).pc = "done")
      /\ UNCHANGED <<phase, content, keyCache, inflight>>
      /\ \E m \in Responses : stack' = [stack EXCEPT ![g] = <<Frame(m)>>]
  BY Zenon DEF Begin, At
<1>2. PICK m \in Responses : stack' = [stack EXCEPT ![g] = <<Frame(m)>>]
  BY Zenon, <1>1
<1>3. PICK b : b = Frame(m) /\ b.pc = "sig"
  <2>1. StartOf(Frame(m), m)
    BY Zenon, StartFields
  <2> QED  BY Zenon, <2>1 DEF StartOf
<1>4. FrameOK(b, phase, content)
  BY Zenon, <1>3, ResponsesOK, FrameStarts DEF IInv, TypeOK
<1>5. <<b>> \in Seq({b}) /\ Len(<<b>>) = 1 /\ <<b>>[1] = b
  OBVIOUS
<1>6. Stacks' /\ stack'[g] = <<b>> /\ \A h \in Goroutines \ {g} : stack'[h] = stack[h]
  BY Zenon, <1>2, <1>3, <1>5, StackChanges DEF IInv
<1>7. ASSUME NEW h \in Goroutines, NEW n \in 1 .. Len(stack'[h])
      PROVE  \/ n \in 1 .. Len(stack[h]) /\ stack'[h][n] = stack[h][n]
             \/ FrameOK(stack'[h][n], phase, content) /\ stack'[h][n].pc = "sig" /\ n = Len(stack'[h]) /\ n = 1
  <2>1. CASE h # g
    BY Zenon, <1>6, <1>7, <2>1
  <2>2. CASE h = g
    <3>1. stack'[h] = <<b>> /\ Len(stack'[h]) = 1
      BY Zenon, <1>5, <1>6, <2>2
    <3>2. n = 1
      BY <1>7, <3>1
    <3>3. stack'[h][n] = b
      BY Zenon, <1>5, <3>1, <3>2
    <3> QED  BY <1>3, <1>4, <3>1, <3>2, <3>3
  <2> QED  BY Zenon, <2>1, <2>2
<1>8. ASSUME NEW h \in Goroutines, NEW n \in 1 .. Len(stack[h]), stack[h][n].pc # "done"
      PROVE  n \in 1 .. Len(stack'[h]) /\ stack'[h][n] = stack[h][n]
  <2>1. h # g
    BY <1>1, <1>8, SomeFrame DEF Top, IInv
  <2> QED  BY <1>6, <1>8, <2>1
<1> QED  BY Zenon, <1>1, <1>6, <1>7, <1>8, FramesGo

-----------------------------------------------------------------------------
(* The zones, and the clock.                                                  *)

\* Who touches no stack and no slot keeps what is said of them.
LEMMA StacksStand ==
    ASSUME IInv, UNCHANGED inflight, UNCHANGED stack
    PROVE  Stacks' /\ SlotsOK' /\ NestedOK' /\ WaitsOK' /\ RanksOK'
<1>1. Stacks'
  BY Zenon DEF IInv, Stacks
<1>2. SlotsOK'
  BY Zenon DEF IInv, SlotsOK
<1>3. NestedOK'
  BY Zenon DEF IInv, NestedOK
<1>4. WaitsOK'
  BY Zenon DEF IInv, WaitsOK, Attended
<1>5. RanksOK'
  BY Zenon DEF IInv, RanksOK
<1> QED  BY Zenon, <1>1, <1>2, <1>3, <1>4, <1>5

LEMMA RollStep == ASSUME IInv, NEW z \in Zones, Roll(z) PROVE IInv'
<1>1. /\ phase[z] < Len(Published[z]) /\ Current(z) /\ phase' = [phase EXCEPT ![z] = @ + 1]
      /\ UNCHANGED <<content, keyCache, inflight, stack>>
  BY DEF Roll
<1>2. phase = [y \in Zones |-> phase[y]] /\ Phases(phase)
  BY PhasesOK DEF IInv, TypeOK
<1>3. phase' = [y \in Zones |-> phase'[y]] /\ phase'[z] = phase[z] + 1 /\ \A y \in Zones : y # z => phase'[y] = phase[y]
  BY <1>1, <1>2
<1>4. phase[z] \in Nat /\ phase[z] + 1 \in 1 .. Len(Published[z])
  BY <1>1, <1>2 DEF Phases
<1>5. PICK qh : qh = phase'
  OBVIOUS
<1>6. Rolled(phase, qh, z)
  BY <1>2, <1>3, <1>4, <1>5 DEF Rolled, Phases
<1>7. FramesOK'
  <2>1. ASSUME NEW g \in Goroutines, NEW n \in 1 .. Len(stack[g]) PROVE FrameOK(stack[g][n], qh, content)
    <3>1. FrameOK(stack[g][n], phase, content)
      BY DEF IInv, FramesOK
    <3>2. stack[g][n].pc # "done" => SeenBy(stack[g][n], z) \subseteq {phase[z]}
      BY <1>1 DEF Current, Frames
    <3> QED  BY <1>6, <3>1, <3>2, RollOK
  <2> QED  BY Zenon, <1>1, <1>5, <2>1 DEF FramesOK
<1>8. TypeOK'
  <2>1. ASSUME NEW y \in Zones, keyCache[y] # None
        PROVE  keyCache[y] \in 1 .. phase'[y] /\ Recent(keyCache[y], y, phase')
    <3>1. keyCache[y] \in 1 .. phase[y] /\ Recent(keyCache[y], y, phase)
      BY <2>1 DEF IInv, TypeOK
    <3>2. keyCache[y] \in 1 .. qh[y]
      BY Zenon, <1>6, <3>1, RollsKnow
    <3>3. CASE y = z
      <4>1. keyCache[y] = phase[z] /\ phase[z] = phase'[z] - 1
        BY <1>1, <1>3, <1>4, <2>1, <3>3 DEF Current
      <4> QED  BY <1>5, <3>2, <3>3, <4>1 DEF Recent
    <3>4. CASE y # z
      BY Zenon, <1>3, <1>5, <3>1, <3>2, <3>4 DEF Recent
    <3> QED  BY <3>3, <3>4
  <2>2. \A y \in Zones : phase'[y] \in 1 .. Len(Published[y])
    BY <1>5, <1>6 DEF Rolled, Phases
  <2>3. keyCache = [y \in Zones |-> keyCache[y]] /\ content \in Contents
        /\ inflight \in [Kinds -> [Zones -> Goroutines \cup {None}]]
    BY DEF IInv, TypeOK
  <2> QED  BY Zenon, <1>1, <1>3, <2>1, <2>2, <2>3 DEF TypeOK, Recent
<1>9. Stacks' /\ SlotsOK' /\ NestedOK' /\ WaitsOK' /\ RanksOK'
  BY Zenon, <1>1, StacksStand
<1> QED  BY <1>7, <1>8, <1>9 DEF IInv

LEMMA ExpireStep == ASSUME IInv, NEW z \in Zones, Expire(z) PROVE IInv'
<1>1. keyCache' = [keyCache EXCEPT ![z] = None] /\ UNCHANGED <<phase, content, inflight, stack>>
  BY DEF Expire
<1>2. keyCache = [y \in Zones |-> keyCache[y]]
  BY DEF IInv, TypeOK
<1>3. keyCache' = [y \in Zones |-> keyCache'[y]] /\ \A y \in Zones : keyCache'[y] = keyCache[y] \/ keyCache'[y] = None
  BY <1>1, <1>2
<1>4. TypeOK'
  BY Zenon, <1>1, <1>3 DEF IInv, TypeOK, Recent
<1>5. FramesOK'
  BY <1>1 DEF IInv, FramesOK
<1>6. Stacks' /\ SlotsOK' /\ NestedOK' /\ WaitsOK' /\ RanksOK'
  BY Zenon, <1>1, StacksStand
<1> QED  BY <1>4, <1>5, <1>6 DEF IInv

LEMMA NothingHappens == ASSUME IInv, UNCHANGED vars PROVE IInv'
<1>1. UNCHANGED <<phase, content, keyCache, inflight>> /\ UNCHANGED stack
  BY DEF vars
<1>2. TypeOK'
  BY <1>1, TypeKept DEF IInv
<1>3. FramesOK'
  BY Zenon, <1>1 DEF IInv, FramesOK
<1>4. Stacks' /\ SlotsOK' /\ NestedOK' /\ WaitsOK' /\ RanksOK'
  BY Zenon, <1>1, StacksStand
<1> QED  BY <1>2, <1>3, <1>4 DEF IInv

LEMMA Initially == Init => IInv
<1>1. SUFFICES ASSUME Init PROVE IInv
  OBVIOUS
<1>2. \A g \in Goroutines : stack[g] = << >> /\ Len(stack[g]) = 0 /\ stack[g] \in Seq({})
  BY <1>1 DEF Init
<1>3. Stacks
  BY <1>1, <1>2 DEF Init, Stacks
<1>4. \A g \in Goroutines : 1 .. Len(stack[g]) = {} /\ 1 .. Len(stack[g]) - 1 = {}
  BY <1>2
<1>5. FramesOK /\ NestedOK /\ WaitsOK /\ RanksOK
  BY Zenon, <1>4 DEF FramesOK, NestedOK, WaitsOK, RanksOK
<1>6. \A k \in Kinds : \A z \in Zones : inflight[k][z] = None
  BY <1>1 DEF Init
<1>7. SlotsOK
  BY Zenon, <1>4, <1>6 DEF SlotsOK
<1>8. TypeOK
  <2>1. \A z \in Zones : phase[z] = 1 /\ keyCache[z] = None
    BY <1>1 DEF Init
  <2>2. \A z \in Zones : 1 \in 1 .. Len(Published[z])
    BY ZoneAssumption
  <2>3. inflight \in [Kinds -> [Zones -> Goroutines \cup {None}]]
    BY <1>1 DEF Init
  <2>4. phase = [z \in Zones |-> phase[z]] /\ keyCache = [z \in Zones |-> keyCache[z]] /\ content \in Contents
    BY <1>1 DEF Init
  <2> QED  BY Zenon, <2>1, <2>2, <2>3, <2>4 DEF TypeOK
<1> QED  BY <1>3, <1>5, <1>7, <1>8 DEF IInv

LEMMA IInvStep == IInv /\ [Next]_vars => IInv'
<1>1. SUFFICES ASSUME IInv, [Next]_vars PROVE IInv'
  OBVIOUS
<1>2. CASE UNCHANGED vars
  BY Zenon, <1>1, <1>2, NothingHappens
<1>3. ASSUME NEW g \in Goroutines, Begin(g) \/ Step(g) PROVE IInv'
  BY Zenon, <1>1, <1>3, BeginStep, CheckCacheStep, TakeSlotStep, RecheckStep, AskHostStep, QueryStep, ReleaseSlotStep,
     CloseDoneStep, NextSignatureStep, CheckSignatureStep, CheckKeysStep, CheckDSStep, ReturnStep DEF Step
<1>4. ASSUME NEW z \in Zones, Expire(z) \/ Roll(z) PROVE IInv'
  BY Zenon, <1>1, <1>4, ExpireStep, RollStep
<1> QED  BY <1>1, <1>2, <1>3, <1>4 DEF Next

\* The invariant of the validator: what every validation has established so far,
\* who holds which slot, and who waits for whom.
THEOREM Invariant == Spec => []IInv
BY Initially, IInvStep, PTL DEF Spec

-----------------------------------------------------------------------------
(* The theorems.                                                              *)

LEMMA VerdictsAreRight == ASSUME IInv, NEW f \in Verdicts PROVE DoneOK(f, phase, content)
<1>1. PICK g \in Goroutines : f \in Frames(g) /\ f.pc = "done"
  BY DEF Verdicts
<1>2. PICK n \in 1 .. Len(stack[g]) : f = stack[g][n]
  BY <1>1 DEF Frames
<1> QED  BY Zenon, <1>1, <1>2 DEF IInv, FramesOK, FrameOK

\* Secure is only said of an answer with an intact, timely signature in
\* bailiwick, by a key its signer published, where every zone down to the signer
\* has had a DS record of an accepted type (validateResponseImpl,
\* validateTrustChain): for any zones, whatever they publish.
THEOREM SecureAnswersAreProved == Spec => []SecureAnswerIsProved
<1>1. IInv => SecureAnswerIsProved
  BY Zenon, VerdictsAreRight DEF SecureAnswerIsProved, DoneOK, Candidate, KnownKey, Delegated
<1> QED  BY <1>1, Invariant, PTL

\* A failed fetch makes nothing Insecure, and an authority's response is
\* Indeterminate only for a failed fetch or a key that was not published
\* (validateResponseImpl, fetchDS).
THEOREM FailuresDecideNothing == Spec => []FailuresStayFailures
<1>1. IInv => FailuresStayFailures
  BY Zenon, VerdictsAreRight DEF FailuresStayFailures, DoneOK, Undelegated, Excused, MissingKey
<1> QED  BY <1>1, Invariant, PTL

\* A Secure denial of a type is true of the zone (VerifyNSECDenial,
\* VerifyNSEC3DenialFull), for any zone content and any records of it.
THEOREM SecureDenialsAreTrue == Spec => []SecureDenialIsTrue
<1>1. IInv => SecureDenialIsTrue
  BY Zenon, VerdictsAreRight DEF SecureDenialIsTrue, DoneOK
<1> QED  BY <1>1, Invariant, PTL

\* The part of HonestIsNeverBogus about answers.
AnswersAreNeverBogus ==
    \A f \in Verdicts : f.msg.honest /\ ~IsDenial(f.msg) => f.verdict # "Bogus"

\* No authority's own answer is Bogus while the zones roll their keys as RFC 6781
\* says, whatever mix of old and new keys, DS records and signatures a validation
\* meets (validateResponseImpl, validateTrustChain, the key cache).
THEOREM RolloversAreNeverBogus == Spec => [](RollsByTheBook => AnswersAreNeverBogus)
<1>1. IInv => (RollsByTheBook => AnswersAreNeverBogus)
  BY Zenon, VerdictsAreRight DEF AnswersAreNeverBogus, DoneOK
<1> QED  BY <1>1, Invariant, PTL

\* Who waits for somebody who waits fetches from a zone that comes later.
LEMMA WaitsDescend ==
    ASSUME IInv, NoHostCycle, NEW g \in Goroutines, At(g, "wait"), NEW l, l = Top(g).leader, At(l, "wait")
    PROVE  /\ l \in Goroutines /\ Top(g).zone \in Zones /\ Top(l).zone \in Zones
           /\ Rank[Top(l).zone] < Rank[Top(g).zone]
<1>1. stack[g] # << >> /\ Top(g).pc = "wait" /\ Top(g).zone \in Zones
  BY Zenon, TopFetches DEF At, Fetching
<1>2. Len(stack[g]) \in 1 .. Len(stack[g])
  BY Zenon, <1>1, TopFrame
<1>3. Attended(l, Top(g).kind, Top(g).zone)
  BY Zenon, <1>1, <1>2 DEF IInv, WaitsOK, Top
<1>4. l \in Goroutines
  BY Zenon, <1>3 DEF Attended
<1>5. PICK m \in 1 .. Len(stack[l]) : Attending(stack[l][m], Top(g).kind, Top(g).zone)
  BY Zenon, <1>3 DEF Attended
<1>6. stack[l] # << >> /\ Top(l).pc = "wait" /\ Top(l).zone \in Zones
  BY Zenon, <1>4, TopFetches DEF At, Fetching
<1>7. Len(stack[l]) \in Nat \ {0} /\ Len(stack[l]) \in 1 .. Len(stack[l])
  BY Zenon, <1>4, <1>6, TopFrame
<1>8. m # Len(stack[l])
  BY Zenon, <1>5, <1>6 DEF Top, Attending, Leading
<1>9. m \in 1 .. Len(stack[l]) - 1
  BY <1>7, <1>8
<1>10. Rank[Top(l).zone] < Rank[stack[l][m].zone]
  BY Zenon, <1>4, <1>6, <1>7, <1>9 DEF IInv, RanksOK, Top, Fetching
<1>11. stack[l][m].zone = Top(g).zone
  BY Zenon, <1>5 DEF Attending
<1> QED  BY Zenon, <1>1, <1>4, <1>6, <1>10, <1>11

LEMMA FlightsAreSingle == ASSUME IInv, NoHostCycle PROVE SingleFlight
<1>1. ASSUME NEW g \in Goroutines, NEW h \in Goroutines, NEW f \in Frames(g), NEW e \in Frames(h),
             {f.pc, e.pc} \subseteq {"recheck", "query", "release"}, f.kind = e.kind, f.zone = e.zone
      PROVE  g = h
  <2>1. PICK n \in 1 .. Len(stack[g]) : f = stack[g][n]
    BY DEF Frames
  <2>2. PICK m \in 1 .. Len(stack[h]) : e = stack[h][m]
    BY Zenon DEF Frames
  <2>3. f.pc \in Leading /\ e.pc \in Leading
    BY Zenon, <1>1 DEF Leading
  <2>4. inflight[f.kind][f.zone] = g
    BY Zenon, <2>1, <2>3 DEF IInv, SlotsOK
  <2>5. inflight[e.kind][e.zone] = h
    BY Zenon, <2>2, <2>3 DEF IInv, SlotsOK
  <2> QED  BY Zenon, <1>1, <2>4, <2>5
<1>2. ASSUME NEW g \in Goroutines, At(g, "wait"), NEW l, l = Top(g).leader
      PROVE  /\ l # g /\ g \notin WaitsFor(l)
             /\ \E f \in Frames(l) : /\ f.kind = Top(g).kind /\ f.zone = Top(g).zone
                                     /\ f.pc \in {"recheck", "query", "release", "close"}
  <2>1. stack[g] # << >> /\ Top(g).pc = "wait"
    BY Zenon, <1>2 DEF At
  <2>2. Len(stack[g]) \in 1 .. Len(stack[g])
    BY Zenon, <2>1, TopFrame
  <2>3. Attended(l, Top(g).kind, Top(g).zone)
    BY Zenon, <1>2, <2>1, <2>2 DEF IInv, WaitsOK, Top
  <2>4. l # g
    <3>1. SUFFICES ASSUME l = g PROVE FALSE
      OBVIOUS
    <3>2. Top(g).zone \in Zones /\ Rank[Top(g).zone] < Rank[Top(g).zone]
      BY Zenon, <1>2, <3>1, WaitsDescend
    <3> QED  BY <3>2, RankType
  <2>5. g \notin WaitsFor(l)
    <3>1. SUFFICES ASSUME g \in WaitsFor(l) PROVE FALSE
      OBVIOUS
    <3>2. At(l, "wait") /\ g = Top(l).leader
      BY Zenon, <3>1 DEF WaitsFor
    <3>3. /\ l \in Goroutines /\ Top(g).zone \in Zones /\ Top(l).zone \in Zones
          /\ Rank[Top(l).zone] < Rank[Top(g).zone]
      BY Zenon, <1>2, <3>2, WaitsDescend
    <3>4. Rank[Top(g).zone] < Rank[Top(l).zone]
      BY Zenon, <1>2, <3>2, <3>3, WaitsDescend
    <3> QED  BY <3>3, <3>4, RankType
  <2>6. \E m \in 1 .. Len(stack[l]) : Attending(stack[l][m], Top(g).kind, Top(g).zone)
    BY <2>3 DEF Attended
  <2> QED  BY Zenon, <2>4, <2>5, <2>6 DEF Frames, Attending, Leading
<1>3. \A g, h \in Goroutines : \A f \in Frames(g), e \in Frames(h) :
        {f.pc, e.pc} \subseteq {"recheck", "query", "release"} /\ f.kind = e.kind /\ f.zone = e.zone => g = h
  BY Zenon, <1>1
<1>4. \A g \in Goroutines : At(g, "wait") =>
        LET l == Top(g).leader
        IN  /\ l # g /\ g \notin WaitsFor(l)
            /\ \E f \in Frames(l) : /\ f.kind = Top(g).kind /\ f.zone = Top(g).zone
                                    /\ f.pc \in {"recheck", "query", "release", "close"}
  BY Zenon, <1>2
<1> QED  BY Zenon, <1>3, <1>4 DEF SingleFlight

\* Concurrent misses share one fetch, whoever waits has somebody at work, and no
\* two wait for each other (fetchDNSKEYs, fetchDS), for any number of goroutines
\* and however deep the validations of name servers' addresses nest, as long as no
\* zone needs its own keys to reach its name server.
THEOREM FetchesAreShared == Spec => [](NoHostCycle => SingleFlight)
<1>1. IInv => (NoHostCycle => SingleFlight)
  BY Zenon, FlightsAreSingle
<1> QED  BY <1>1, Invariant, PTL

\* Along the waits the zones only come earlier.
WaitsAreOrdered ==
    \E rank \in [Zones -> 0 .. Cardinality(Zones)] : \A g \in Goroutines :
        At(g, "wait") /\ At(Top(g).leader, "wait") => rank[Top(Top(g).leader).zone] < rank[Top(g).zone]

\* Nor is there a longer circle of goroutines that wait for each other's fetches
\* (fetchDNSKEYs, fetchDS), under the same condition.
THEOREM NobodyWaitsInACircle == Spec => [](NoHostCycle => WaitsAreOrdered)
<1>1. ASSUME IInv, NoHostCycle PROVE WaitsAreOrdered
  <2>1. Rank \in [Zones -> 0 .. Cardinality(Zones)]
    BY Zenon, <1>1 DEF NoHostCycle, Rank
  <2>2. ASSUME NEW g \in Goroutines, At(g, "wait"), At(Top(g).leader, "wait")
        PROVE  Rank[Top(Top(g).leader).zone] < Rank[Top(g).zone]
    BY Zenon, <1>1, <2>2, WaitsDescend
  <2> QED  BY Zenon, <2>1, <2>2 DEF WaitsAreOrdered
<1>2. IInv => (NoHostCycle => WaitsAreOrdered)
  BY <1>1
<1> QED  BY <1>2, Invariant, PTL
=============================================================================
