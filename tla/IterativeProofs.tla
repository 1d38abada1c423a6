-------------------------- MODULE IterativeProofs --------------------------
(* Proofs about Iterative, for any questions, servers, messages and limits:   *)
(* the work of one resolution is bounded, its status is the AND of the         *)
(* verdicts along the chain, the records it returns are that chain, what it    *)
(* caches belongs to the zone that said it, and it gives up only when it has   *)
(* asked every name server.                                                    *)
EXTENDS Iterative, TLAPS, FiniteSetTheorems

\* Time for the provers on a machine that is busy.
USE SMTT(30), ZenonT(30)

Classes == {"answer", "cname", "dname", "referral", "nxdomain", "nodata", "servfail"}
Over == {"return", "done"}
FrameFields == {"name", "ns", "given", "zone", "depth", "status", "rrs"}

\* A sequence, of whatever its elements are.
IsSeq(s) == s \in Seq({s[i] : i \in 1..Len(s)})

\* frames is a sequence of frames, no longer than the limit on CNAME hops allows.
FramesOK ==
    /\ IsSeq(frames)
    /\ Len(frames) \in 1..(MaxCNAMEDepth + 1)
    /\ \A i \in 1..Len(frames) : DOMAIN frames[i] = FrameFields /\ frames[i].depth \in Nat

\* The rounds left pay for the queries still to come: what was sent is within
\* MaxDepth rounds for each call below, and the rounds of the innermost one.
Base == (2 * MaxDepth) * (Len(frames) - 1)
Budget ==
    /\ sent \in Nat
    /\ pc \in {"select", "ask", "askFull"} \cup Classes \cup Over
    /\ pc \notin Over => top.depth <= MaxDepth
    /\ pc \in {"ask", "askFull"} \cup Classes => top.depth < MaxDepth
    /\ pc \in {"select", "ask"} => sent <= Base + 2 * top.depth
    /\ pc = "askFull" => sent <= Base + 2 * top.depth + 1
    /\ pc \in Classes => sent <= Base + 2 * top.depth + 2
    /\ pc \in Over => sent <= (2 * MaxDepth) * (MaxCNAMEDepth + 1)

\* The key of the round under way is the last one visited; all others have had
\* their queries.
PerKey == IF QMinEnabled THEN 2 ELSE 1
Keys ==
    /\ IsFiniteSet(visited)
    /\ pc = "ask" => sent + PerKey <= PerKey * Cardinality(visited)
    /\ pc = "askFull" => QMinEnabled /\ sent + 1 <= PerKey * Cardinality(visited)
    /\ sent <= PerKey * Cardinality(visited)

\* Every name of the chain but the last has its verdict, and no frame says
\* secure without one.  A result is secure only if the hops from its own frame
\* on were, and is the failure a bogus hop demands.
ChainOK ==
    /\ IsSeq(hops)
    /\ DOMAIN result = {"rcode", "status", "answers", "err"}
    /\ Len(hops) >= Len(frames) - 1
    /\ \A i \in 1..(Len(frames) - 1) :
         /\ frames[i].status \in {"secure", "insecure"}
         /\ frames[i].status = "secure" => Validating /\ hops[i].verdict = "secure"
    /\ pc \notin Over => /\ Len(hops) = Len(frames) - 1
                         /\ \A i \in 1..Len(hops) : hops[i].verdict # "bogus"
    /\ pc \in Over /\ result.rcode \in {"NOERROR", "NXDOMAIN"} =>
         /\ Len(hops) >= Len(frames)
         /\ result.status = "" => ~Validating
         /\ result.status = "secure" => \A i \in Len(frames)..Len(hops) : hops[i].verdict = "secure"
    /\ pc \in Over /\ (\E i \in 1..Len(hops) : hops[i].verdict = "bogus") =>
         result.rcode = "SERVFAIL" /\ result.status = "bogus"
    /\ pc = "done" => Len(frames) = 1

-----------------------------------------------------------------------------
(* What the ways a round can end do to the frames.                            *)

LEMMA NoSteps == << >> \in Seq({}) /\ Len(<< >>) = 0
  OBVIOUS

LEMMA LengthOfSeq == ASSUME NEW S, NEW s \in Seq(S) PROVE Len(s) \in Nat
  OBVIOUS

\* A sequence is a sequence of its own elements.
LEMMA SeqOfItsElements ==
    ASSUME NEW S, NEW s \in Seq(S)
    PROVE  IsSeq(s)
<1> DEFINE R == {s[i] : i \in 1..Len(s)}
<1>1. s = [i \in 1..Len(s) |-> s[i]] /\ Len(s) \in Nat
  OBVIOUS
<1>2. \A i \in 1..Len(s) : s[i] \in R
  OBVIOUS
<1> HIDE DEF R
<1>3. s \in [1..Len(s) -> R]
  BY <1>1, <1>2, Zenon
<1>4. s \in Seq(R)
  BY <1>1, <1>3
<1> QED  BY <1>4 DEF R, IsSeq

\* Putting another frame on top of the callers.
LEMMA ReplaceTop ==
    ASSUME FramesOK, NEW STATE g, DOMAIN g = FrameFields, g.depth \in Nat,
           frames' = [frames EXCEPT ![Len(frames)] = g]
    PROVE  /\ FramesOK'
           /\ Len(frames') = Len(frames)
           /\ frames'[Len(frames)] = g
           /\ \A i \in 1..(Len(frames) - 1) : frames'[i] = frames[i]
<1> DEFINE S == {frames[i] : i \in 1..Len(frames)} \cup {g}
           n == Len(frames)
<1>1. frames \in Seq(S) /\ n \in 1..(MaxCNAMEDepth + 1) /\ n \in Nat /\ n >= 1
  BY DepthAssumption DEF FramesOK, IsSeq
<1>2. frames' \in Seq(S) /\ Len(frames') = n /\ frames'[n] = g
      /\ \A i \in 1..(n - 1) : frames'[i] = frames[i]
  BY <1>1
<1> HIDE DEF S
<1>3. IsSeq(frames')
  BY <1>2, SeqOfItsElements, Zenon
<1>4. \A i \in 1..n : DOMAIN frames'[i] = FrameFields /\ frames'[i].depth \in Nat
  BY <1>1, <1>2 DEF FramesOK
<1> QED  BY <1>1, <1>2, <1>3, <1>4 DEF FramesOK

\* Another round.
LEMMA ContinuesEffect ==
    ASSUME FramesOK, NEW STATE f, DOMAIN f = FrameFields, f.depth = top.depth, Continues(f)
    PROVE  /\ FramesOK'
           /\ Len(frames') = Len(frames)
           /\ top' = [f EXCEPT !.depth = @ + 1] /\ top'.depth = top.depth + 1
           /\ \A i \in 1..(Len(frames) - 1) : frames'[i] = frames[i]
           /\ pc' = "select" /\ visited' = visited
<1> DEFINE g == [f EXCEPT !.depth = @ + 1]
<1>1. top.depth \in Nat
  BY DepthAssumption DEF FramesOK, top
<1>2. DOMAIN g = FrameFields /\ g.depth = top.depth + 1 /\ g.depth \in Nat
  BY <1>1 DEF FrameFields
<1>3. frames' = [frames EXCEPT ![Len(frames)] = g]
  BY DEF Continues
<1> HIDE DEF g
<1>4. FramesOK' /\ Len(frames') = Len(frames) /\ frames'[Len(frames)] = g
      /\ \A i \in 1..(Len(frames) - 1) : frames'[i] = frames[i]
  BY Zenon, <1>2, <1>3, ReplaceTop
<1>5. top' = g
  BY <1>4 DEF top
<1>6. top' = [f EXCEPT !.depth = @ + 1]
  BY <1>5 DEF g
<1> QED  BY <1>2, <1>4, <1>5, <1>6 DEF Continues

\* A failed server: another round, or the end of the call.
LEMMA DropServerEffect ==
    ASSUME FramesOK, NEW err, DropServer(err)
    PROVE  \/ /\ FramesOK'
              /\ Len(frames') = Len(frames)
              /\ top'.depth = top.depth + 1 /\ top'.ns = removeNSByIP(top.ns, ip)
              /\ top'.name = top.name /\ top'.zone = top.zone /\ top'.given = top.given
              /\ \A i \in 1..(Len(frames) - 1) : frames'[i] = frames[i]
              /\ pc' = "select" /\ visited' = visited /\ result' = result
           \/ Returns(Failure(err))
<1> DEFINE left == removeNSByIP(top.ns, ip)
           f == [top EXCEPT !.ns = left]
<1>1. CASE left = {}
  BY <1>1 DEF DropServer
<1>2. CASE left # {}
  <2>1. Continues(f)
    BY <1>2 DEF DropServer
  <2>2. DOMAIN top = FrameFields
    BY DEF FramesOK, top
  <2>3. DOMAIN f = FrameFields /\ f.depth = top.depth
    BY <2>2 DEF FrameFields
  <2> HIDE DEF f
  <2>4. result' = result
    BY <2>1 DEF Continues
  <2>5. /\ [f EXCEPT !.depth = @ + 1].name = top.name /\ [f EXCEPT !.depth = @ + 1].zone = top.zone
        /\ [f EXCEPT !.depth = @ + 1].given = top.given /\ [f EXCEPT !.depth = @ + 1].ns = left
    BY <2>2 DEF FrameFields, f
  <2> QED  BY Zenon, <2>1, <2>3, <2>4, <2>5, ContinuesEffect
<1> QED  BY <1>1, <1>2

\* A referral: another round.
LEMMA ReferralEffect ==
    ASSUME FramesOK, NEW zone, Referral(zone)
    PROVE  /\ FramesOK'
           /\ Len(frames') = Len(frames)
           /\ top'.depth = top.depth + 1 /\ top'.name = top.name /\ top'.given = top'.ns
           /\ \A i \in 1..(Len(frames) - 1) : frames'[i] = frames[i]
           /\ pc' = "select" /\ visited' = visited /\ result' = result
<1> DEFINE new == extractDelegation(resp)
           f == [top EXCEPT !.ns = new, !.given = new, !.zone = zone]
<1>1. Continues(f)
  BY Zenon DEF Referral
<1>2. DOMAIN top = FrameFields
  BY DEF FramesOK, top
<1>3. DOMAIN f = FrameFields /\ f.depth = top.depth
  BY <1>2 DEF FrameFields
<1> HIDE DEF f
<1>4. result' = result
  BY <1>1 DEF Continues
<1>5. /\ [f EXCEPT !.depth = @ + 1].name = top.name
      /\ [f EXCEPT !.depth = @ + 1].given = [f EXCEPT !.depth = @ + 1].ns
  BY <1>2 DEF FrameFields, f
<1> QED  BY Zenon, <1>1, <1>3, <1>4, <1>5, ContinuesEffect

\* A hop: a new frame above the caller's, or the error of a chain too long.
LEMMA DescendEffect ==
    ASSUME FramesOK, NEW target, NEW v, NEW rrs, Descend(target, v, rrs)
    PROVE  \/ /\ pc' = "return" /\ result' = Result("ERROR", "", {}, "CNAME chain too long")
              /\ frames' = frames
           \/ /\ FramesOK'
              /\ pc' = "select" /\ result' = result
              /\ Len(frames') = Len(frames) + 1
              /\ top' = Frame(target) /\ top'.depth = 0
              /\ \A i \in 1..(Len(frames) - 1) : frames'[i] = frames[i]
              /\ frames'[Len(frames)].status = IF v = "" THEN "insecure" ELSE verdictToStatus(v)
              /\ frames'[Len(frames)].name = top.name /\ frames'[Len(frames)].rrs = rrs
<1> DEFINE n == Len(frames)
           st == IF v = "" THEN "insecure" ELSE verdictToStatus(v)
           g == [[top EXCEPT !.status = st] EXCEPT !.rrs = rrs]
           h == Frame(target)
           S == {frames[i] : i \in 1..n} \cup {g, h}
           mid == [frames EXCEPT ![n] = g]
<1>1. CASE n > MaxCNAMEDepth
  BY Zenon, <1>1 DEF Descend
<1>2. CASE ~(n > MaxCNAMEDepth)
  <2>1. n \in Nat /\ n >= 1 /\ n <= MaxCNAMEDepth /\ MaxCNAMEDepth \in Nat
    BY <1>2, DepthAssumption DEF FramesOK
  <2>2. DOMAIN top = FrameFields /\ top.depth \in Nat
    BY <2>1 DEF FramesOK, top
  <2>3. DOMAIN g = FrameFields /\ g.depth \in Nat /\ g.status = st /\ g.name = top.name /\ g.rrs = rrs
    BY <2>2 DEF FrameFields
  <2>4. DOMAIN h = FrameFields /\ h.depth = 0
    BY DEF Frame, FrameFields
  <2>5. frames' = Append(mid, h)
    BY Zenon, <1>2, <2>1 DEF Descend, top
  <2>6. frames \in Seq(S) /\ g \in S /\ h \in S
    BY DEF FramesOK, IsSeq
  <2> HIDE DEF g, h, S, st
  <2>7. mid \in Seq(S) /\ Len(mid) = n /\ mid[n] = g /\ \A i \in 1..(n - 1) : mid[i] = frames[i]
    BY <2>1, <2>6
  <2> HIDE DEF mid
  <2>8. /\ frames' \in Seq(S) /\ Len(frames') = n + 1 /\ frames'[n + 1] = h
        /\ \A i \in 1..n : frames'[i] = mid[i]
    BY <2>5, <2>6, <2>7
  <2>9. \A i \in 1..(n + 1) : DOMAIN frames'[i] = FrameFields /\ frames'[i].depth \in Nat
    <3> TAKE i \in 1..(n + 1)
    <3>1. CASE i = n + 1
      BY <3>1, <2>8, <2>4
    <3>2. CASE i = n
      BY <3>2, <2>8, <2>7, <2>3, <2>1
    <3>3. CASE i \in 1..(n - 1)
      BY <3>3, <2>8, <2>7, <2>1 DEF FramesOK
    <3> QED  BY <3>1, <3>2, <3>3, <2>1
  <2>10. IsSeq(frames')
    BY <2>8, SeqOfItsElements, Zenon
  <2>11. FramesOK'
    BY <2>1, <2>8, <2>9, <2>10 DEF FramesOK
  <2>12. pc' = "select" /\ result' = result
    BY Zenon, <1>2 DEF Descend
  <2>13. top' = h /\ top'.depth = 0
    BY <2>8, <2>4 DEF top
  <2>14. /\ frames'[n].status = st /\ frames'[n].name = top.name /\ frames'[n].rrs = rrs
         /\ \A i \in 1..(n - 1) : frames'[i] = frames[i]
    BY <2>1, <2>3, <2>7, <2>8
  <2> QED  BY Zenon, <2>8, <2>11, <2>12, <2>13, <2>14 DEF st, h
<1> QED  BY Zenon, <1>1, <1>2

\* A hop's call ends: its frame goes.
LEMMA ReturnEffect ==
    ASSUME FramesOK, Return
    PROVE  \/ Len(frames) = 1 /\ pc' = "done" /\ frames' = frames /\ result' = result
           \/ /\ FramesOK'
              /\ pc' = "return"
              /\ Len(frames) > 1 /\ Len(frames') = Len(frames) - 1
              /\ \A i \in 1..(Len(frames) - 1) : frames'[i] = frames[i]
<1> DEFINE n == Len(frames)
           S == {frames[i] : i \in 1..n}
<1>1. CASE n = 1
  BY <1>1 DEF Return
<1>2. CASE n # 1
  <2>1. n \in Nat /\ n > 1 /\ n <= MaxCNAMEDepth + 1 /\ MaxCNAMEDepth \in Nat
    <3>1. n \in 1..(MaxCNAMEDepth + 1) /\ MaxCNAMEDepth \in Nat
      BY DepthAssumption DEF FramesOK
    <3> HIDE DEF n
    <3> QED  BY <1>2, <3>1
  <2>2. frames' = SubSeq(frames, 1, n - 1) /\ pc' = "return"
    BY <1>2 DEF Return
  <2>3. frames \in Seq(S)
    BY DEF FramesOK, IsSeq
  <2> HIDE DEF S
  <2>4. frames' \in Seq(S) /\ Len(frames') = n - 1 /\ \A i \in 1..(n - 1) : frames'[i] = frames[i]
    BY <2>1, <2>2, <2>3
  <2>5. IsSeq(frames')
    BY <2>4, SeqOfItsElements, Zenon
  <2>6. FramesOK'
    BY <2>1, <2>4, <2>5 DEF FramesOK
  <2> QED  BY <2>1, <2>2, <2>4, <2>6
<1> QED  BY <1>1, <1>2

-----------------------------------------------------------------------------
(* The classes of responses, and the arithmetic of the budget.                *)

\* A response is of one of the classes the switch has a case for.
LEMMA ClassOf ==
    ASSUME NEW r, r.rcode \in {"NOERROR", "NXDOMAIN", "SERVFAIL"}, NEW n, NEW t
    PROVE  classifyResponse(r, n, t) \in Classes
<1>1. CASE r.rcode = "NXDOMAIN"
  BY <1>1 DEF classifyResponse, Classes
<1>2. CASE r.rcode = "SERVFAIL"
  BY <1>2 DEF classifyResponse, Classes
<1>3. CASE r.rcode = "NOERROR"
  BY <1>3 DEF classifyResponse, Classes
<1> QED  BY <1>1, <1>2, <1>3

\* So is a message once it is filtered.
LEMMA ResponseClass ==
    ASSUME NEW m \in Messages, NEW zone, NEW n, NEW t
    PROVE  classifyResponse(SanitizeBailiwick(m, zone), n, t) \in Classes
<1> DEFINE r == SanitizeBailiwick(m, zone)
<1>1. r.rcode \in {"NOERROR", "NXDOMAIN", "SERVFAIL"}
  BY MessageAssumption DEF SanitizeBailiwick
<1> HIDE DEF r
<1>2. classifyResponse(r, n, t) \in Classes
  BY <1>1, ClassOf
<1> QED  BY <1>2 DEF r

\* A call that ends within its rounds leaves what its callers were allowed.
LEMMA WithinBudget ==
    ASSUME NEW k \in 1..(MaxCNAMEDepth + 1), NEW s \in Nat,
           s <= (2 * MaxDepth) * (k - 1) + 2 * MaxDepth
    PROVE  s <= (2 * MaxDepth) * (MaxCNAMEDepth + 1)
<1> DEFINE b == 2 * MaxDepth
           rest == MaxCNAMEDepth + 1 - k
<1>1. b \in Nat /\ rest \in Nat /\ k \in Nat /\ MaxCNAMEDepth \in Nat
  BY DepthAssumption
<1>2. MaxCNAMEDepth + 1 = (k - 1) + 1 + rest
  BY <1>1
<1> HIDE DEF b, rest
<1>3. b * (MaxCNAMEDepth + 1) = b * (k - 1) + b + b * rest
  BY <1>1, <1>2
<1>4. b * rest \in Nat
  BY <1>1
<1>5. b * (k - 1) \in Int
  BY <1>1
<1>6. s <= b * (k - 1) + b
  BY DEF b
<1> QED  BY <1>1, <1>3, <1>4, <1>5, <1>6 DEF b

-----------------------------------------------------------------------------
(* The work of one resolution.                                                *)

\* Keeping the frames in order, step by step.
LEMMA FramesStep == FramesOK /\ [Next]_vars => FramesOK'
<1> SUFFICES ASSUME FramesOK, [Next]_vars PROVE FramesOK'
  OBVIOUS
<1>1. CASE frames' = frames
  BY <1>1 DEF FramesOK
<1>2. ASSUME NEW err, DropServer(err) PROVE FramesOK'
  BY <1>2, <1>1, DropServerEffect DEF Returns
<1>3. ASSUME NEW target, NEW v, NEW rrs, Descend(target, v, rrs) PROVE FramesOK'
  BY Zenon, <1>3, <1>1, DescendEffect
<1>4. CASE Next
  <2>1. ASSUME NEW a, Select(a) PROVE FramesOK'
    BY Zenon, <2>1, <1>1 DEF Select, Returns
  <2>2. CASE SelectFails \/ Exhausted \/ NoTarget
    BY Zenon, <2>2, <1>1 DEF SelectFails, Exhausted, NoTarget, Returns
  <2>3. ASSUME NEW m, Ask(m) \/ AskFull(m) PROVE FramesOK'
    BY <2>3, <1>1 DEF Ask, AskFull
  <2>4. CASE AskFails \/ ServFail
    BY <2>4, <1>2 DEF AskFails, ServFail
  <2>5. ASSUME NEW v, Answer(v) \/ Denial(v) PROVE FramesOK'
    BY Zenon, <2>5, <1>1 DEF Answer, Denial, Returns
  <2>6. ASSUME NEW target, NEW v, CNAME(target, v) \/ DNAME(target, v) PROVE FramesOK'
    BY <2>6, <1>1, <1>3 DEF CNAME, DNAME
  <2>7. ASSUME NEW zone, Referral(zone) PROVE FramesOK'
    BY <2>7, ReferralEffect
  <2>8. CASE Return
    BY <2>8, <1>1, ReturnEffect
  <2>9. CASE Done
    BY <2>9, <1>1 DEF Done, vars, call
  <2> QED  BY Zenon, <1>4, <2>1, <2>2, <2>3, <2>4, <2>5, <2>6, <2>7, <2>8, <2>9 DEF Next
<1>5. CASE UNCHANGED vars
  BY <1>5, <1>1 DEF vars, call
<1> QED  BY <1>4, <1>5

\* A step that ends the innermost call, or is over, keeps the budget.
LEMMA BudgetOver ==
    ASSUME FramesOK, Budget, sent' \in Nat, pc' \in Over,
           \/ pc \notin Over /\ sent' <= Base + 2 * MaxDepth
           \/ pc \in Over /\ sent' = sent
    PROVE  Budget'
<1>1. sent' <= (2 * MaxDepth) * (MaxCNAMEDepth + 1)
  BY WithinBudget DEF FramesOK, Budget, Base
<1> QED  BY <1>1 DEF Budget, Over, Classes

\* The types of the quantities the budget is made of.
LEMMA Quantities ==
    ASSUME FramesOK
    PROVE  Base \in Int /\ MaxDepth \in Nat /\ top.depth \in Nat /\ Len(frames) \in Nat
<1>1. Len(frames) \in Nat /\ Len(frames) >= 1 /\ MaxDepth \in Nat
  BY DepthAssumption DEF FramesOK
<1>2. top.depth \in Nat
  BY <1>1 DEF FramesOK, top
<1> QED  BY <1>1, <1>2 DEF Base

\* Another round keeps the budget: it was paid for by the one that ends.
LEMMA BudgetContinues ==
    ASSUME FramesOK, Budget, pc' = "select", Len(frames') = Len(frames), top'.depth = top.depth + 1,
           top.depth < MaxDepth, sent' \in Nat, sent' <= Base + 2 * top.depth + 2
    PROVE  Budget'
<1>1. Base' = Base
  BY DEF Base
<1> QED  BY <1>1, Quantities DEF Budget, Over, Classes

\* A failed server keeps the budget.
LEMMA BudgetDropServer ==
    ASSUME FramesOK, Budget, NEW err, DropServer(err), pc \notin Over, top.depth < MaxDepth,
           sent' \in Nat, sent' <= Base + 2 * top.depth + 2
    PROVE  Budget'
<1>1. CASE Returns(Failure(err))
  <2>1. pc' \in Over
    BY <1>1 DEF Returns, Over
  <2>2. sent' <= Base + 2 * MaxDepth
    BY Quantities
  <2> QED  BY <2>1, <2>2, BudgetOver
<1>2. CASE ~Returns(Failure(err))
  BY <1>2, DropServerEffect, BudgetContinues
<1> QED  BY <1>1, <1>2

\* A hop keeps the budget: its call has MaxDepth rounds of its own.
LEMMA BudgetDescend ==
    ASSUME FramesOK, Budget, NEW target, NEW v, NEW rrs, Descend(target, v, rrs),
           pc \in Classes, sent' = sent
    PROVE  Budget'
<1>0. top.depth < MaxDepth /\ sent <= Base + 2 * top.depth + 2 /\ sent \in Nat /\ pc \notin Over
  BY DEF Budget, Classes, Over
<1>1. sent' <= Base + 2 * MaxDepth
  BY <1>0, Quantities
<1>2. CASE pc' = "return"
  BY <1>0, <1>1, <1>2, BudgetOver DEF Over
<1>3. CASE pc' # "return"
  <2>1. pc' = "select" /\ Len(frames') = Len(frames) + 1 /\ top'.depth = 0
    BY Zenon, <1>3, DescendEffect
  <2>2. Base' = Base + 2 * MaxDepth
    <3>1. Base' = (2 * MaxDepth) * (Len(frames) + 1 - 1)
      BY <2>1 DEF Base
    <3> DEFINE b == 2 * MaxDepth
               k == Len(frames) - 1
    <3>2. b \in Nat /\ k \in Int /\ Len(frames) + 1 - 1 = k + 1
      BY Quantities
    <3>3. Base = b * k /\ Base' = b * (k + 1)
      BY <3>1, <3>2 DEF Base
    <3> HIDE DEF b, k
    <3>4. b * (k + 1) = b * k + b
      BY <3>2
    <3> QED  BY <3>3, <3>4 DEF b
  <2> QED  BY <1>0, <1>1, <2>1, <2>2, Quantities DEF Budget, Over, Classes
<1> QED  BY <1>2, <1>3

\* Every step keeps the budget.
LEMMA BudgetStep == FramesOK /\ Budget /\ [Next]_vars => Budget'
<1> SUFFICES ASSUME FramesOK, Budget, [Next]_vars PROVE Budget'
  OBVIOUS
<1>0. Base \in Int /\ MaxDepth \in Nat /\ top.depth \in Nat /\ sent \in Nat
  BY Quantities DEF Budget
<1>a. ASSUME pc \in Classes
      PROVE  top.depth < MaxDepth /\ sent <= Base + 2 * top.depth + 2 /\ sent <= Base + 2 * MaxDepth /\ pc \notin Over
  BY <1>0, <1>a DEF Budget, Classes, Over
<1>b. ASSUME frames' = frames PROVE Base' = Base /\ top' = top
  BY <1>b DEF Base, top
<1>1. ASSUME NEW a, Select(a) PROVE Budget'
  <2>1. pc = "select" /\ top.depth < MaxDepth /\ frames' = frames /\ sent' = sent
    BY Zenon, <1>1 DEF Select, Returns
  <2>2. CASE pc' = "ask"
    BY Zenon, <2>1, <2>2, <1>b, <1>0 DEF Budget, Classes, Over
  <2>3. CASE pc' = "return"
    BY <2>1, <2>3, <1>0, BudgetOver DEF Budget, Over
  <2> QED  BY Zenon, <1>1, <2>2, <2>3 DEF Select, Returns
<1>2. CASE SelectFails \/ Exhausted
  <2>1. pc = "select" /\ pc' = "return" /\ sent' = sent
    BY Zenon, <1>2 DEF SelectFails, Exhausted, Returns
  <2>2. sent' <= Base + 2 * MaxDepth
    BY <2>1, <1>0 DEF Budget, Over
  <2> QED  BY <2>1, <2>2, <1>0, BudgetOver DEF Over
<1>3. ASSUME NEW m \in Messages, Ask(m) PROVE Budget'
  <2>1. pc = "ask" /\ sent' = sent + 1 /\ frames' = frames
    BY <1>3 DEF Ask
  <2>2. pc' \in Classes \cup {"askFull"}
    BY <1>3, ResponseClass DEF Ask
  <2> QED  BY <2>1, <2>2, <1>b, <1>0 DEF Budget, Classes, Over
<1>4. ASSUME NEW m \in Messages, AskFull(m) PROVE Budget'
  <2>1. pc = "askFull" /\ sent' = sent + 1 /\ frames' = frames
    BY <1>4 DEF AskFull
  <2>2. pc' \in Classes
    BY <1>4, ResponseClass DEF AskFull
  <2> QED  BY <2>1, <2>2, <1>b, <1>0 DEF Budget, Classes, Over
<1>5. CASE AskFails
  <2>1. pc \in {"ask", "askFull"} /\ sent' = sent + 1 /\ DropServer("upstream")
    BY <1>5 DEF AskFails
  <2>2. top.depth < MaxDepth /\ sent' <= Base + 2 * top.depth + 2 /\ pc \notin Over /\ sent' \in Nat
    BY <2>1, <1>0 DEF Budget, Over
  <2> QED  BY <2>1, <2>2, BudgetDropServer
<1>6. CASE ServFail
  BY <1>6, <1>a, <1>0, BudgetDropServer DEF ServFail, Classes
<1>7. ASSUME NEW v, Answer(v) \/ Denial(v) \/ NoTarget PROVE Budget'
  <2>1. pc \in Classes /\ pc' = "return" /\ sent' = sent
    BY Zenon, <1>7 DEF Answer, Denial, NoTarget, Returns, Classes
  <2> QED  BY <2>1, <1>a, <1>0, BudgetOver DEF Over
<1>8. ASSUME NEW target, NEW v, CNAME(target, v) \/ DNAME(target, v) PROVE Budget'
  <2>1. pc \in Classes /\ sent' = sent
    BY <1>8 DEF CNAME, DNAME, Classes
  <2>2. CASE pc' = "return"
    BY Zenon, <2>1, <2>2, <1>a, <1>0, BudgetOver DEF Over
  <2>3. CASE pc' # "return"
    BY Zenon, <1>8, <2>1, <2>3, BudgetDescend DEF CNAME, DNAME
  <2> QED  BY <2>2, <2>3
<1>9. ASSUME NEW zone, Referral(zone) PROVE Budget'
  <2>1. pc \in Classes /\ sent' = sent
    BY Zenon, <1>9 DEF Referral, Classes
  <2> QED  BY Zenon, <1>9, <2>1, <1>a, <1>0, ReferralEffect, BudgetContinues
<1>10. CASE Return \/ Done
  <2>1. pc \in Over /\ pc' \in Over /\ sent' = sent
    <3>1. CASE Return
      BY <3>1 DEF Return, Over
    <3>2. CASE Done
      BY <3>2 DEF Done, Over, vars, call
    <3> QED  BY <1>10, <3>1, <3>2
  <2> QED  BY <2>1, <1>0, BudgetOver
<1>11. CASE UNCHANGED vars
  BY <1>11, <1>b DEF vars, call, Budget
<1> QED
  BY Zenon, <1>1, <1>2, <1>3, <1>4, <1>5, <1>6, <1>7, <1>8, <1>9, <1>10, <1>11 DEF Next

\* Every step keeps the account of keys.
LEMMA KeysStep == Budget /\ Keys /\ [Next]_vars => Keys'
<1> SUFFICES ASSUME Budget, Keys, [Next]_vars PROVE Keys'
  OBVIOUS
<1>0. PerKey \in 1..2 /\ (QMinEnabled => PerKey = 2) /\ sent \in Nat /\ Cardinality(visited) \in Nat
  BY SwitchAssumption, FS_CardinalityType DEF PerKey, Keys, Budget
<1>a. ASSUME visited' = visited, sent' = sent, pc' \notin {"ask", "askFull"} PROVE Keys'
  BY <1>a DEF Keys, PerKey
<1>b. ASSUME NEW err, DropServer(err) PROVE visited' = visited /\ pc' \in {"select", "return"}
  BY <1>b DEF DropServer, Returns, Continues
<1>1. ASSUME NEW a, Select(a) PROVE Keys'
  <2>1. sent' = sent
    BY Zenon, <1>1 DEF Select
  <2>2. CASE pc' = "return" /\ visited' = visited
    BY <2>1, <2>2, <1>a
  <2>3. ASSUME pc' = "ask", NEW k, k \notin visited, visited' = visited \cup {k} PROVE Keys'
    <3>1. IsFiniteSet(visited') /\ Cardinality(visited') = Cardinality(visited) + 1
      BY <2>3, FS_AddElement DEF Keys
    <3>2. PerKey * Cardinality(visited') = PerKey * Cardinality(visited) + PerKey
      <4>1. CASE PerKey = 1
        BY <4>1, <3>1, <1>0
      <4>2. CASE PerKey = 2
        BY <4>2, <3>1, <1>0
      <4> QED  BY <4>1, <4>2, <1>0
    <3>3. PerKey * Cardinality(visited) \in Nat /\ PerKey' = PerKey
      BY <1>0 DEF PerKey
    <3> QED  BY <2>1, <2>3, <3>1, <3>2, <3>3, <1>0 DEF Keys
  <2> QED  BY Zenon, <1>1, <2>2, <2>3 DEF Select, Returns
<1>2. CASE SelectFails \/ Exhausted \/ NoTarget
  BY Zenon, <1>2, <1>a DEF SelectFails, Exhausted, NoTarget, Returns
<1>3. ASSUME NEW m \in Messages, Ask(m) PROVE Keys'
  <2>1. pc = "ask" /\ sent' = sent + 1 /\ visited' = visited
    BY <1>3 DEF Ask
  <2>2. pc' \in Classes \/ (pc' = "askFull" /\ QMinEnabled)
    BY <1>3, ResponseClass DEF Ask, Query
  <2>3. PerKey * Cardinality(visited) \in Nat /\ PerKey' = PerKey
    BY <1>0 DEF PerKey
  <2> QED  BY <2>1, <2>2, <2>3, <1>0 DEF Keys, Classes
<1>4. ASSUME NEW m \in Messages, AskFull(m) PROVE Keys'
  <2>1. pc = "askFull" /\ sent' = sent + 1 /\ visited' = visited
    BY Zenon, <1>4 DEF AskFull
  <2>2. pc' \in Classes
    BY <1>4, ResponseClass DEF AskFull
  <2>3. PerKey * Cardinality(visited) \in Nat /\ PerKey' = PerKey
    BY <1>0 DEF PerKey
  <2> QED  BY Zenon, <2>1, <2>2, <2>3, <1>0 DEF Keys, Classes
<1>5. CASE AskFails
  <2>1. pc \in {"ask", "askFull"} /\ sent' = sent + 1 /\ visited' = visited /\ pc' \in {"select", "return"}
    BY <1>5, <1>b DEF AskFails
  <2>2. PerKey * Cardinality(visited) \in Nat /\ PerKey' = PerKey
    BY <1>0 DEF PerKey
  <2> QED  BY <2>1, <2>2, <1>0 DEF Keys
<1>6. CASE ServFail
  BY <1>6, <1>a, <1>b DEF ServFail
<1>7. ASSUME NEW v, Answer(v) \/ Denial(v) PROVE Keys'
  BY Zenon, <1>7, <1>a DEF Answer, Denial, Returns
<1>8. ASSUME NEW target, NEW v, CNAME(target, v) \/ DNAME(target, v) PROVE Keys'
  BY Zenon, <1>8, <1>a DEF CNAME, DNAME, Descend
<1>9. ASSUME NEW zone, Referral(zone) PROVE Keys'
  BY Zenon, <1>9, <1>a DEF Referral, Continues
<1>10. CASE Return
  BY <1>10, <1>a DEF Return
<1>11. CASE Done
  BY <1>11, <1>a DEF Done, vars, call
<1>12. CASE UNCHANGED vars
  BY <1>12 DEF vars, call, Keys, PerKey
<1> QED
  BY Zenon, <1>1, <1>2, <1>3, <1>4, <1>5, <1>6, <1>7, <1>8, <1>9, <1>10, <1>11, <1>12 DEF Next

\* The first state.
LEMMA InitWork == Init => FramesOK /\ Budget /\ Keys
<1> SUFFICES ASSUME NEW q \in Questions, frames = <<Frame(q[1])>>, pc = "select", visited = {}, sent = 0
             PROVE  FramesOK /\ Budget /\ Keys
  BY Zenon DEF Init
<1>1. frames \in Seq({Frame(q[1])}) /\ Len(frames) = 1 /\ frames[1] = Frame(q[1])
  OBVIOUS
<1>2. DOMAIN Frame(q[1]) = FrameFields /\ Frame(q[1]).depth = 0
  BY Zenon DEF Frame, FrameFields
<1>3. FramesOK
  <2>1. IsSeq(frames)
    BY <1>1, SeqOfItsElements, Zenon
  <2> QED  BY <2>1, <1>1, <1>2, DepthAssumption DEF FramesOK
<1>4. top.depth = 0
  BY <1>1, <1>2 DEF top
<1>5. Budget
  <2>1. Base = 0
    BY <1>1, DepthAssumption DEF Base
  <2> QED  BY <1>4, <2>1, DepthAssumption DEF Budget, Over, Classes
<1>6. Keys
  BY FS_EmptySet DEF Keys, PerKey
<1> QED  BY <1>3, <1>5, <1>6

\* resolveIterativeFromInner and its hops call queryUpstreamECS at most
\* 2 * MaxDepth * (MaxCNAMEDepth + 1) times, whatever the servers answer.
THEOREM WorkIsBounded == Spec => []QueryBound
<1>1. FramesOK /\ Budget /\ [Next]_vars => FramesOK' /\ Budget'
  BY FramesStep, BudgetStep
<1>2. FramesOK /\ Budget => QueryBound
  <2> SUFFICES ASSUME FramesOK, Budget PROVE sent <= (2 * MaxDepth) * (MaxCNAMEDepth + 1)
    BY DEF QueryBound
  <2>1. CASE pc \in Over
    BY <2>1 DEF Budget
  <2>2. CASE pc \notin Over
    <3>1. sent \in Nat /\ sent <= Base + 2 * MaxDepth
      BY <2>2, Quantities DEF Budget, Classes, Over
    <3> QED  BY <3>1, WithinBudget DEF Base, FramesOK
  <2> QED  BY <2>1, <2>2
<1> QED  BY InitWork, <1>1, <1>2, PTL DEF Spec

\* A server is asked for a name in a zone once in a resolution, or twice with
\* query name minimisation.
THEOREM NoServerAskedAgain == Spec => []AskedOnce
<1>1. FramesOK /\ Budget /\ Keys /\ [Next]_vars => FramesOK' /\ Budget' /\ Keys'
  BY FramesStep, BudgetStep, KeysStep
<1>2. Keys => AskedOnce
  BY DEF Keys, AskedOnce, PerKey
<1> QED  BY InitWork, <1>1, <1>2, PTL DEF Spec

-----------------------------------------------------------------------------
(* The status of a chain.                                                     *)

\* While the innermost call is under way the chain is as long as its callers.
LEMMA ChainLength ==
    ASSUME FramesOK, ChainOK, pc \notin Over
    PROVE  /\ Len(hops) = Len(frames) - 1 /\ Len(frames) \in Nat /\ Len(frames) >= 1
           /\ \A i \in 1..Len(hops) : hops[i].verdict # "bogus"
<1>1. Len(frames) \in Nat /\ Len(frames) >= 1
  BY DepthAssumption DEF FramesOK
<1>2. Len(hops) = Len(frames) - 1 /\ \A i \in 1..Len(hops) : hops[i].verdict # "bogus"
  BY Zenon DEF ChainOK
<1> QED  BY <1>1, <1>2

\* Recording a verdict.
LEMMA ValidatedEffect ==
    ASSUME ChainOK, NEW v, Validated(v)
    PROVE  /\ IsSeq(hops') /\ Len(hops) \in Nat /\ Len(hops') = Len(hops) + 1
           /\ \A i \in 1..Len(hops) : hops'[i] = hops[i]
           /\ hops'[Len(hops) + 1].verdict = v /\ hops'[Len(hops) + 1].name = top.name
           /\ v \in ValidateResponse
<1> DEFINE h == [name |-> top.name, verdict |-> v]
           S == {hops[i] : i \in 1..Len(hops)} \cup {h}
<1>1. hops \in Seq(S) /\ h \in S /\ hops' = Append(hops, h)
  <2>1. IsSeq(hops)
    BY Zenon DEF ChainOK
  <2>2. hops \in Seq(S)
    BY <2>1 DEF IsSeq
  <2> QED  BY <2>2 DEF Validated
<1>2. h.verdict = v /\ h.name = top.name
  OBVIOUS
<1> HIDE DEF h, S
<1>3. hops' \in Seq(S) /\ Len(hops) \in Nat /\ Len(hops') = Len(hops) + 1
      /\ (\A i \in 1..Len(hops) : hops'[i] = hops[i]) /\ hops'[Len(hops) + 1] = h
  BY <1>1
<1>4. IsSeq(hops')
  BY <1>3, SeqOfItsElements, Zenon
<1> QED  BY Zenon, <1>2, <1>3, <1>4 DEF Validated

\* A call ends without a verdict, in failure.
LEMMA ChainFailure ==
    ASSUME FramesOK, ChainOK, pc \notin Over, pc' = "return", frames' = frames, hops' = hops,
           DOMAIN result' = {"rcode", "status", "answers", "err"}, result'.rcode \in {"SERVFAIL", "ERROR"}
    PROVE  ChainOK'
BY Zenon DEF ChainOK, Over

\* A call ends with a verdict on its own response.
LEMMA ChainVerdict ==
    ASSUME FramesOK, ChainOK, pc \notin Over, pc' = "return", frames' = frames, NEW v, Validated(v),
           DOMAIN result' = {"rcode", "status", "answers", "err"},
           \/ v = "bogus" /\ result'.rcode = "SERVFAIL" /\ result'.status = "bogus"
           \/ v # "bogus" /\ result'.status = verdictToStatus(v)
           \/ v # "bogus" /\ result'.rcode \in {"SERVFAIL", "ERROR"}
    PROVE  ChainOK'
<1>1. /\ IsSeq(hops') /\ Len(hops) \in Nat /\ Len(hops') = Len(hops) + 1
      /\ \A i \in 1..Len(hops) : hops'[i] = hops[i]
      /\ hops'[Len(hops) + 1].verdict = v
      /\ v \in ValidateResponse
  BY ValidatedEffect
<1>2. Len(hops) = Len(frames) - 1 /\ Len(frames) \in Nat /\ Len(frames) >= 1
      /\ \A i \in 1..Len(hops) : hops[i].verdict # "bogus"
  BY ChainLength
<1>3. v = "" => ~Validating
  BY Zenon DEF Validated, ValidateResponse
<1>4. \A i \in 1..(Len(frames) - 1) :
         /\ frames'[i].status \in {"secure", "insecure"}
         /\ frames'[i].status = "secure" => Validating /\ hops'[i].verdict = "secure"
  BY Zenon, <1>1, <1>2 DEF ChainOK
<1>5. \A i \in 1..Len(hops') : hops'[i].verdict = "bogus" => v = "bogus"
  <2> TAKE i \in 1..Len(hops')
  <2>1. CASE i \in 1..Len(hops)
    BY Zenon, <2>1, <1>1, <1>2
  <2>2. CASE i = Len(hops) + 1
    BY <2>2, <1>1
  <2> QED  BY <2>1, <2>2, <1>1
<1>6. \A i \in Len(frames)..Len(hops') : hops'[i].verdict = v
  BY <1>1, <1>2
<1>7. v # "bogus" /\ result'.status = verdictToStatus(v) =>
         (result'.status = "" => ~Validating) /\ (result'.status = "secure" => v = "secure")
  BY Zenon, <1>3 DEF verdictToStatus
<1>8. (\E i \in 1..Len(hops') : hops'[i].verdict = "bogus") => result'.rcode = "SERVFAIL" /\ result'.status = "bogus"
  BY <1>5
<1>9. result'.rcode \in {"NOERROR", "NXDOMAIN"} =>
         /\ result'.status = "" => ~Validating
         /\ result'.status = "secure" => \A i \in Len(frames)..Len(hops') : hops'[i].verdict = "secure"
  BY Zenon, <1>6, <1>7
<1>10. Len(hops') = Len(frames') /\ Len(frames') \in Nat /\ pc' # "done" /\ pc' \in Over
  BY <1>1, <1>2 DEF Over
<1>11. \A i \in 1..(Len(frames') - 1) :
         /\ frames'[i].status \in {"secure", "insecure"}
         /\ frames'[i].status = "secure" => Validating /\ hops'[i].verdict = "secure"
  BY <1>4
<1>12. Len(hops') >= Len(frames') - 1 /\ Len(hops') >= Len(frames')
  BY <1>10
<1>13. result'.rcode \in {"NOERROR", "NXDOMAIN"} =>
         /\ result'.status = "" => ~Validating
         /\ result'.status = "secure" => \A i \in Len(frames')..Len(hops') : hops'[i].verdict = "secure"
  BY Zenon, <1>9
<1> QED  BY Zenon, <1>1, <1>8, <1>10, <1>11, <1>12, <1>13 DEF ChainOK

\* Another round, or another query in it, leaves the chain as it is.
LEMMA ChainGoesOn ==
    ASSUME FramesOK, ChainOK, pc \notin Over, pc' \notin Over, Len(frames') = Len(frames),
           \A i \in 1..(Len(frames) - 1) : frames'[i] = frames[i],
           hops' = hops, result' = result
    PROVE  ChainOK'
<1>1. "done" \in Over
  BY DEF Over
<1>2. \A i \in 1..(Len(frames') - 1) :
         /\ frames'[i].status \in {"secure", "insecure"}
         /\ frames'[i].status = "secure" => Validating /\ hops'[i].verdict = "secure"
  BY Zenon DEF ChainOK
<1> QED  BY Zenon, <1>1, <1>2 DEF ChainOK

\* A hop whose verdict is not bogus.
LEMMA ChainDescend ==
    ASSUME FramesOK, ChainOK, pc \notin Over, NEW target, NEW v, NEW rrs,
           Validated(v), v # "bogus", Descend(target, v, rrs)
    PROVE  ChainOK'
<1>1. CASE pc' = "return" /\ result' = Result("ERROR", "", {}, "CNAME chain too long") /\ frames' = frames
  BY Zenon, <1>1, ChainVerdict DEF Result
<1>2. CASE /\ pc' = "select" /\ result' = result
           /\ Len(frames') = Len(frames) + 1
           /\ \A i \in 1..(Len(frames) - 1) : frames'[i] = frames[i]
           /\ frames'[Len(frames)].status = IF v = "" THEN "insecure" ELSE verdictToStatus(v)
  <2>1. /\ IsSeq(hops') /\ Len(hops) \in Nat /\ Len(hops') = Len(hops) + 1
        /\ \A i \in 1..Len(hops) : hops'[i] = hops[i]
        /\ hops'[Len(hops) + 1].verdict = v
        /\ v \in ValidateResponse
    BY ValidatedEffect
  <2>2. Len(hops) = Len(frames) - 1 /\ Len(frames) \in Nat /\ Len(frames) >= 1
        /\ \A i \in 1..Len(hops) : hops[i].verdict # "bogus"
    BY ChainLength
  <2>3. v \in {"secure", "insecure", "indeterminate", ""} /\ (v = "secure" => Validating)
    BY Zenon, <2>1 DEF ValidateResponse
  <2>4. /\ frames'[Len(frames)].status \in {"secure", "insecure"}
        /\ frames'[Len(frames)].status = "secure" => v = "secure"
    BY Zenon, <1>2, <2>3 DEF verdictToStatus
  <2>5. \A i \in 1..Len(frames) :
           /\ frames'[i].status \in {"secure", "insecure"}
           /\ frames'[i].status = "secure" => Validating /\ hops'[i].verdict = "secure"
    <3> TAKE i \in 1..Len(frames)
    <3>1. CASE i = Len(frames)
      <4>1. Len(hops) + 1 = i
        BY <3>1, <2>2
      <4> QED  BY Zenon, <4>1, <3>1, <2>1, <2>3, <2>4
    <3>2. CASE i \in 1..(Len(frames) - 1)
      BY Zenon, <3>2, <1>2, <2>1, <2>2 DEF ChainOK
    <3> QED  BY <3>1, <3>2, <2>2
  <2>6. \A i \in 1..Len(hops') : hops'[i].verdict # "bogus"
    <3> TAKE i \in 1..Len(hops')
    <3>1. CASE i \in 1..Len(hops)
      BY Zenon, <3>1, <2>1 DEF ChainOK
    <3>2. CASE i = Len(hops) + 1
      BY <3>2, <2>1
    <3> QED  BY <3>1, <3>2, <2>1
  <2>7. pc' \notin Over
    BY Zenon, <1>2 DEF Over
  <2>8. Len(hops') = Len(frames') - 1 /\ Len(frames') - 1 = Len(frames) /\ Len(frames') \in Nat /\ pc' # "done"
    <3>1. Len(frames') = Len(frames) + 1 /\ pc' = "select"
      BY Zenon, <1>2
    <3> QED  BY <3>1, <2>1, <2>2
  <2>9. DOMAIN result' = {"rcode", "status", "answers", "err"}
    BY Zenon, <1>2 DEF ChainOK
  <2>10. Len(hops') >= Len(frames') - 1
    BY <2>8
  <2>11. \A i \in 1..(Len(frames') - 1) :
           /\ frames'[i].status \in {"secure", "insecure"}
           /\ frames'[i].status = "secure" => Validating /\ hops'[i].verdict = "secure"
    BY <2>5, <2>8
  <2> QED  BY Zenon, <2>1, <2>6, <2>7, <2>8, <2>9, <2>10, <2>11 DEF ChainOK
<1> QED  BY Zenon, <1>1, <1>2, DescendEffect

\* What combineDNSSECStatus makes of a hop's status and the rest of the chain's.
LEMMA CombineStatus ==
    ASSUME NEW a \in {"secure", "insecure"}, NEW b
    PROVE  LET c == combineDNSSECStatus(a, b)
           IN  /\ c = "secure" => a = "secure" /\ (b = "secure" \/ b = "")
               /\ c # ""
               /\ b = "bogus" => c = "bogus"
BY Zenon DEF combineDNSSECStatus

\* A hop's result becomes its caller's.
LEMMA ChainReturn ==
    ASSUME FramesOK, ChainOK, Return
    PROVE  ChainOK'
<1>0. hops' = hops /\ pc = "return" /\ pc \in Over
  BY DEF Return, Over
<1>1. CASE Len(frames) = 1 /\ pc' = "done" /\ frames' = frames /\ result' = result
  BY Zenon, <1>0, <1>1 DEF ChainOK, Over
<1>2. CASE /\ FramesOK' /\ pc' = "return"
           /\ Len(frames) > 1 /\ Len(frames') = Len(frames) - 1
           /\ \A i \in 1..(Len(frames) - 1) : frames'[i] = frames[i]
  <2> DEFINE n == Len(frames)
             a == frames[n - 1].status
             c == combineDNSSECStatus(a, result.status)
  <2>1. n \in Nat /\ n > 1 /\ Len(frames') = n - 1 /\ pc' = "return" /\ pc' \in Over
    <3>1. n \in Nat
      BY Quantities
    <3> QED  BY <3>1, <1>2 DEF Over
  <2>2. /\ a \in {"secure", "insecure"}
        /\ a = "secure" => Validating /\ hops[n - 1].verdict = "secure"
    <3>1. \A i \in 1..(n - 1) :
             /\ frames[i].status \in {"secure", "insecure"}
             /\ frames[i].status = "secure" => Validating /\ hops[i].verdict = "secure"
      BY Zenon DEF ChainOK
    <3>2. n - 1 \in 1..(n - 1)
      BY <2>1
    <3> HIDE DEF n
    <3> QED  BY <3>1, <3>2
  <2>3. /\ DOMAIN result' = {"rcode", "status", "answers", "err"}
        /\ result'.rcode = result.rcode
        /\ result.rcode # "ERROR" => result'.status = c
        /\ result.rcode = "ERROR" => result' = result
    <3>1. result' = IF result.rcode = "ERROR" THEN result
                    ELSE [result EXCEPT !.answers = @ \cup frames[n - 1].rrs, !.status = c]
      BY <2>1 DEF Return
    <3>2. DOMAIN result = {"rcode", "status", "answers", "err"}
      BY Zenon DEF ChainOK
    <3> HIDE DEF c, n
    <3> QED  BY <3>1, <3>2
  <2>4. /\ c = "secure" => a = "secure" /\ (result.status = "secure" \/ result.status = "")
        /\ c # ""
        /\ result.status = "bogus" => c = "bogus"
    BY Zenon, <2>2, CombineStatus
  <2> HIDE DEF a, c
  <2>5. \A i \in 1..(Len(frames') - 1) :
           /\ frames'[i].status \in {"secure", "insecure"}
           /\ frames'[i].status = "secure" => Validating /\ hops'[i].verdict = "secure"
    <3>1. \A i \in 1..(n - 1) :
             /\ frames[i].status \in {"secure", "insecure"}
             /\ frames[i].status = "secure" => Validating /\ hops[i].verdict = "secure"
      BY Zenon DEF ChainOK
    <3>2. \A i \in 1..(n - 1) : frames'[i] = frames[i]
      BY <1>2
    <3>3. 1..(Len(frames') - 1) \subseteq 1..(n - 1)
      BY <2>1
    <3> HIDE DEF n
    <3> QED  BY Zenon, <3>1, <3>2, <3>3, <1>0
  <2>6. Len(hops) \in Nat /\ Len(hops') >= Len(frames') /\ Len(hops') >= Len(frames') - 1
    <3>1. IsSeq(hops) /\ Len(hops) >= n - 1
      BY Zenon DEF ChainOK
    <3>2. Len(hops) \in Nat
      BY <3>1 DEF IsSeq
    <3> HIDE DEF n
    <3> QED  BY <3>1, <3>2, <2>1, <1>0
  <2>7. ASSUME result'.rcode \in {"NOERROR", "NXDOMAIN"}
        PROVE  /\ result'.status # ""
               /\ result'.status = "secure" => \A i \in Len(frames')..Len(hops') : hops'[i].verdict = "secure"
    <3>1. result'.status = c /\ result.rcode \in {"NOERROR", "NXDOMAIN"}
      BY <2>3, <2>7
    <3>2. ASSUME c = "secure", NEW i \in (n - 1)..Len(hops) PROVE hops[i].verdict = "secure"
      <4>1. a = "secure" /\ Validating /\ hops[n - 1].verdict = "secure"
        BY Zenon, <3>2, <2>4, <2>2
      <4>2. result.status = "secure"
        BY Zenon, <3>1, <3>2, <4>1, <2>4, <1>0 DEF ChainOK
      <4>3. \A j \in n..Len(hops) : hops[j].verdict = "secure"
        BY Zenon, <4>2, <3>1, <1>0 DEF ChainOK
      <4>4. i = n - 1 \/ i \in n..Len(hops)
        BY <2>1, <2>6
      <4> QED  BY Zenon, <4>1, <4>3, <4>4
    <3> HIDE DEF n
    <3> QED  BY Zenon, <3>1, <3>2, <2>1, <2>4, <1>0
  <2>8. (\E i \in 1..Len(hops') : hops'[i].verdict = "bogus") => result'.rcode = "SERVFAIL" /\ result'.status = "bogus"
    <3>1. (\E i \in 1..Len(hops) : hops[i].verdict = "bogus") => result.rcode = "SERVFAIL" /\ result.status = "bogus"
      BY Zenon, <1>0 DEF ChainOK
    <3> QED  BY Zenon, <3>1, <1>0, <2>3, <2>4
  <2>9. IsSeq(hops') /\ pc' # "done"
    BY Zenon, <1>0, <2>1 DEF ChainOK
  <2> QED  BY Zenon, <2>1, <2>3, <2>5, <2>6, <2>7, <2>8, <2>9 DEF ChainOK
<1> QED  BY <1>1, <1>2, ReturnEffect

\* Every step keeps the chain's account.
LEMMA ChainStep == FramesOK /\ Budget /\ ChainOK /\ [Next]_vars => ChainOK'
<1> SUFFICES ASSUME FramesOK, Budget, ChainOK, [Next]_vars PROVE ChainOK'
  OBVIOUS
<1>a. ASSUME NEW err PROVE DOMAIN Failure(err) = {"rcode", "status", "answers", "err"} /\ Failure(err).rcode = "SERVFAIL"
  BY DEF Failure, Result
<1>b. ASSUME NEW err, DropServer(err), pc \notin Over, hops' = hops PROVE ChainOK'
  <2>1. CASE Returns(Failure(err))
    BY Zenon, <1>b, <2>1, <1>a, ChainFailure DEF Returns
  <2>2. CASE ~Returns(Failure(err))
    BY Zenon, <1>b, <2>2, DropServerEffect, ChainGoesOn DEF Over
  <2> QED  BY <2>1, <2>2
<1>1. ASSUME NEW a, Select(a) PROVE ChainOK'
  <2>1. pc = "select" /\ pc \notin Over /\ hops' = hops /\ frames' = frames
    BY Zenon, <1>1 DEF Select, Returns, Over
  <2>2. CASE pc' = "ask" /\ result' = result
    BY <2>1, <2>2, ChainGoesOn DEF Over
  <2>3. CASE pc' = "return" /\ result' = Failure("loop detected")
    BY Zenon, <2>1, <2>3, <1>a, ChainFailure
  <2> QED  BY Zenon, <1>1, <2>2, <2>3 DEF Select, Returns
<1>2. CASE SelectFails \/ Exhausted \/ NoTarget
  <2>1. pc \notin Over /\ hops' = hops /\ frames' = frames /\ pc' = "return"
    BY Zenon, <1>2 DEF SelectFails, Exhausted, NoTarget, Returns, Over
  <2>2. \E err : result' = Failure(err)
    BY Zenon, <1>2 DEF SelectFails, Exhausted, NoTarget, Returns
  <2> QED  BY <2>1, <2>2, <1>a, ChainFailure
<1>3. ASSUME NEW m \in Messages, Ask(m) \/ AskFull(m) PROVE ChainOK'
  <2>1. pc \notin Over /\ hops' = hops /\ frames' = frames /\ result' = result
    BY <1>3 DEF Ask, AskFull, Over
  <2>2. pc' \in Classes \cup {"askFull"}
    BY <1>3, ResponseClass DEF Ask, AskFull
  <2> QED  BY Zenon, <2>1, <2>2, ChainGoesOn DEF Classes, Over
<1>4. CASE AskFails \/ ServFail
  BY <1>4, <1>b DEF AskFails, ServFail, Over
<1>5. ASSUME NEW v, Answer(v) PROVE ChainOK'
  <2>1. pc \notin Over /\ pc' = "return" /\ frames' = frames /\ Validated(v)
        /\ result' = IF v = "bogus" THEN Bogus ELSE Result("NOERROR", verdictToStatus(v), resp.answers, "")
    BY Zenon, <1>5 DEF Answer, Returns, Over
  <2> QED  BY Zenon, <2>1, ChainVerdict DEF Bogus, Result
<1>6. ASSUME NEW v, Denial(v) PROVE ChainOK'
  <2>1. pc \notin Over /\ pc' = "return" /\ frames' = frames /\ Validated(v)
    BY Zenon, <1>6 DEF Denial, Returns, Over
  <2>2. result' = IF v = "bogus" THEN Bogus
                  ELSE Result(IF pc = "nxdomain" THEN "NXDOMAIN" ELSE "NOERROR", verdictToStatus(v), {}, "")
    BY Zenon, <1>6 DEF Denial, Returns
  <2> QED  BY Zenon, <2>1, <2>2, ChainVerdict DEF Bogus, Result
<1>7. ASSUME NEW target, NEW v, CNAME(target, v) \/ DNAME(target, v) PROVE ChainOK'
  <2>1. pc \notin Over /\ Validated(v)
    BY <1>7 DEF CNAME, DNAME, Over
  <2>2. CASE v = "bogus"
    <3>1. pc' = "return" /\ frames' = frames /\ result' = Bogus
      BY Zenon, <1>7, <2>2 DEF CNAME, DNAME
    <3> QED  BY Zenon, <2>1, <2>2, <3>1, ChainVerdict DEF Bogus, Result
  <2>3. CASE v # "bogus"
    BY Zenon, <1>7, <2>1, <2>3, ChainDescend DEF CNAME, DNAME
  <2> QED  BY Zenon, <2>2, <2>3
<1>8. ASSUME NEW zone, Referral(zone) PROVE ChainOK'
  <2>1. pc \notin Over /\ hops' = hops
    BY Zenon, <1>8 DEF Referral, Over
  <2> QED  BY Zenon, <1>8, <2>1, ReferralEffect, ChainGoesOn DEF Over
<1>9. CASE Return
  BY <1>9, ChainReturn
<1>10. CASE Done \/ UNCHANGED vars
  <2>1. pc' = pc /\ frames' = frames /\ result' = result /\ hops' = hops
    BY <1>10 DEF Done, vars, call
  <2> QED  BY Zenon, <2>1 DEF ChainOK
<1> QED
  BY Zenon, <1>1, <1>2, <1>3, <1>4, <1>5, <1>6, <1>7, <1>8, <1>9, <1>10 DEF Next

\* The indices of a chain of one name.
LEMMA NoHops == 1 - 1 = 0 /\ 1..0 = {} /\ 0 >= 0
  OBVIOUS

\* The first state.
LEMMA InitChain == Init => ChainOK
<1> SUFFICES ASSUME NEW q \in Questions, frames = <<Frame(q[1])>>, pc = "select",
                    hops = << >>, result = Failure("")
             PROVE  ChainOK
  BY Zenon DEF Init
<1>1. IsSeq(hops) /\ Len(hops) = 0
  <2>1. hops \in Seq({}) /\ Len(hops) = 0
    BY Zenon, NoSteps
  <2> QED  BY <2>1, SeqOfItsElements, Zenon
<1>2. Len(frames) = 1
  BY Zenon
<1>3. DOMAIN result = {"rcode", "status", "answers", "err"}
  BY Zenon DEF Failure, Result
<1>4. 1..Len(hops) = {} /\ 1..(Len(frames) - 1) = {} /\ Len(hops) = Len(frames) - 1 /\ Len(hops) >= Len(frames) - 1
  BY <1>1, <1>2, NoHops, Zenon
<1>5. pc \notin Over /\ pc # "done"
  BY Zenon DEF Over
<1> QED  BY Zenon, <1>1, <1>3, <1>4, <1>5 DEF ChainOK

\* The account of the chain is an invariant.
LEMMA ChainInvariant == Spec => []ChainOK
<1>1. FramesOK /\ Budget /\ ChainOK /\ [Next]_vars => FramesOK' /\ Budget' /\ ChainOK'
  BY Zenon, FramesStep, BudgetStep, ChainStep
<1> QED  BY InitWork, InitChain, <1>1, PTL DEF Spec

\* A positive or negative answer that the resolver reports as secure was secure
\* at every hop of its CNAME and DNAME chain.
THEOREM SecureMeansEveryHop == Spec => []SecureChain
<1>1. ChainOK => SecureChain
  <2> SUFFICES ASSUME ChainOK, pc = "done" PROVE SecureChain
    BY DEF SecureChain
  <2>1. Len(frames) = 1 /\ pc \in Over
    BY Zenon DEF ChainOK, Over
  <2> QED  BY <2>1 DEF ChainOK, SecureChain
<1> QED  BY ChainInvariant, <1>1, PTL

\* One bogus hop makes the whole resolution a SERVFAIL reported as bogus.
THEOREM BogusIsFatal == Spec => []BogusFails
<1>1. ChainOK => BogusFails
  BY Zenon DEF ChainOK, BogusFails, Over
<1> QED  BY ChainInvariant, <1>1, PTL

\* combineDNSSECStatus: what is reported of a chain is never better than its
\* worst hop.
THEOREM WorstHopDecides == Spec => []VerdictOfChain
<1>1. SecureChain /\ BogusFails => VerdictOfChain
  BY DEF VerdictOfChain
<1> QED  BY SecureMeansEveryHop, BogusIsFatal, <1>1, PTL

-----------------------------------------------------------------------------
(* What is put into the cache, and when a call may give up.                   *)

\* The response under way has passed SanitizeBailiwick for the zone in force, and
\* what it put into the cache before was sound.
ResponseOK ==
    /\ StoredIsSound
    /\ pc \in Classes =>
         \A rr \in resp.answers \cup resp.authority \cup resp.additional : InZone(rr.owner, top.zone)

\* A server that was dropped has been asked at one of its addresses, and so has
\* the one under way.
AskedOK ==
    pc \notin Over =>
        /\ \A e \in top.given \ top.ns : \E a \in {e.ipv4, e.ipv6} : <<a, top.name, top.zone>> \in visited
        /\ pc # "select" => <<ip, top.name, top.zone>> \in visited

\* What SanitizeBailiwick leaves is in the zone.
LEMMA SanitizedIn ==
    ASSUME NEW m \in Messages, NEW zone
    PROVE  LET r == SanitizeBailiwick(m, zone)
           IN  \A rr \in r.answers \cup r.authority \cup r.additional : InZone(rr.owner, zone)
<1> DEFINE ans == {rr \in m.answers : InZone(rr.owner, zone)}
           auth == {rr \in m.authority : InZone(rr.owner, zone)}
           hosts == {rr.data : rr \in OfType(auth, "NS")}
           add == {rr \in m.additional : rr.owner \in hosts /\ InZone(rr.owner, zone)}
<1>1. DOMAIN m = {"rcode", "aa", "answers", "authority", "additional"}
  BY MessageAssumption
<1>2. SanitizeBailiwick(m, zone) = [m EXCEPT !.answers = ans, !.authority = auth, !.additional = add]
  BY DEF SanitizeBailiwick
<1> HIDE DEF ans, auth, add
<1>3. /\ [m EXCEPT !.answers = ans, !.authority = auth, !.additional = add].answers = ans
      /\ [m EXCEPT !.answers = ans, !.authority = auth, !.additional = add].authority = auth
      /\ [m EXCEPT !.answers = ans, !.authority = auth, !.additional = add].additional = add
  BY <1>1
<1> QED  BY <1>2, <1>3 DEF ans, auth, add

\* A host with glue in a response is the owner of an additional record.
LEMMA GlueOwner ==
    ASSUME NEW m, NEW host, NEW t, Glue(m, host, t) # NoAddr
    PROVE  \E rr \in m.additional : rr.owner = host
BY DEF Glue, OfType

\* A response of the zone's server, a referral above all, stores names in the zone.
LEMMA ResponseStep == FramesOK /\ Budget /\ ResponseOK /\ [Next]_vars => ResponseOK'
<1> SUFFICES ASSUME FramesOK, Budget, ResponseOK, [Next]_vars PROVE ResponseOK'
  OBVIOUS
<1>a. ASSUME stored' = stored, pc' \notin Classes PROVE ResponseOK'
  BY <1>a DEF ResponseOK, StoredIsSound
<1>b. ASSUME NEW err, DropServer(err) PROVE pc' \in {"select", "return"}
  BY <1>b DEF DropServer, Returns, Continues
<1>c. {"select", "ask", "askFull", "return", "done"} \cap Classes = {}
  BY DEF Classes
<1>1. ASSUME NEW a, Select(a) PROVE ResponseOK'
  BY Zenon, <1>1, <1>a, <1>c DEF Select, Returns
<1>2. CASE SelectFails \/ Exhausted \/ NoTarget
  BY Zenon, <1>2, <1>a, <1>c DEF SelectFails, Exhausted, NoTarget, Returns
<1>3. ASSUME NEW m \in Messages, Ask(m) \/ AskFull(m) PROVE ResponseOK'
  <2>1. stored' = stored /\ frames' = frames
    BY <1>3 DEF Ask, AskFull
  <2>2. top' = top
    BY Zenon, <2>1 DEF top
  <2>3. CASE resp' = SanitizeBailiwick(m, top.zone)
    <3>1. \A rr \in resp'.answers \cup resp'.authority \cup resp'.additional : InZone(rr.owner, top.zone)
      BY <2>3, SanitizedIn
    <3> QED  BY Zenon, <2>1, <2>2, <3>1 DEF ResponseOK, StoredIsSound
  <2>4. CASE pc' = "askFull"
    BY Zenon, <2>1, <2>4, <1>a, <1>c
  <2> QED  BY Zenon, <1>3, <2>3, <2>4 DEF Ask, AskFull
<1>4. CASE AskFails \/ ServFail
  BY Zenon, <1>4, <1>a, <1>b, <1>c DEF AskFails, ServFail
<1>5. ASSUME NEW v, Answer(v) PROVE ResponseOK'
  BY Zenon, <1>5, <1>a, <1>c DEF Answer, Returns
<1>6. ASSUME NEW v, Denial(v) PROVE ResponseOK'
  <2>1. /\ pc \in {"nxdomain", "nodata"} /\ pc' = "return"
        /\ stored' = stored \/ (stored' = stored \cup {Entry(top.name, pc, v)} /\ v # "bogus")
    BY Zenon, <1>6 DEF Denial, Returns
  <2>2. Entry(top.name, pc, v).type = pc /\ Entry(top.name, pc, v).verdict = v
    BY Zenon DEF Entry
  <2> HIDE DEF Entry
  <2> QED  BY Zenon, <2>1, <2>2, <1>c DEF ResponseOK, StoredIsSound
<1>7. ASSUME NEW target, NEW v, CNAME(target, v) PROVE ResponseOK'
  <2>1. pc = "cname" /\ target \in extractCNAMETarget(resp, top.name) /\ pc' \in {"select", "return"}
    BY Zenon, <1>7 DEF CNAME, Descend
  <2>2. PICK rr \in resp.answers : rr.owner = top.name
    BY Zenon, <2>1 DEF extractCNAMETarget, extractCNAMERecords, OfType
  <2>3. InZone(top.name, top.zone)
    BY Zenon, <2>1, <2>2 DEF ResponseOK, Classes
  <2>4. stored' = stored \/ (stored' = stored \cup {Entry(top.name, "CNAME", v)} /\ v # "bogus")
    BY Zenon, <1>7 DEF CNAME
  <2>5. Entry(top.name, "CNAME", v).name = top.name /\ Entry(top.name, "CNAME", v).zone = top.zone
        /\ Entry(top.name, "CNAME", v).verdict = v
    BY DEF Entry
  <2> HIDE DEF Entry
  <2> QED  BY Zenon, <2>1, <2>3, <2>4, <2>5, <1>c DEF ResponseOK, StoredIsSound
<1>8. ASSUME NEW target, NEW v, DNAME(target, v) PROVE ResponseOK'
  BY Zenon, <1>8, <1>a, <1>c DEF DNAME, Descend
<1>9. ASSUME NEW zone, Referral(zone) PROVE ResponseOK'
  <2> DEFINE new == extractDelegation(resp)
  <2>1. pc = "referral" /\ zone \in DelegatedZones(resp) /\ pc' = "select"
        /\ stored' = stored \cup {Entry(zone, "NS", "")}
                            \cup {Entry(e.host, "A", "") : e \in {f \in new : f.ipv4 # NoAddr}}
                            \cup {Entry(e.host, "AAAA", "") : e \in {f \in new : f.ipv6 # NoAddr}}
    BY Zenon, <1>9 DEF Referral, Continues
  <2>2. \A rr \in resp.authority \cup resp.additional : InZone(rr.owner, top.zone)
    BY Zenon, <2>1 DEF ResponseOK, Classes
  <2>3. InZone(zone, top.zone)
    BY Zenon, <2>1, <2>2 DEF DelegatedZones, OfType
  <2>4. ASSUME NEW e \in new, e.ipv4 # NoAddr \/ e.ipv6 # NoAddr PROVE InZone(e.host, top.zone)
    <3>1. PICK rr \in OfType(resp.authority, "NS") :
             e = [host |-> rr.data, ipv4 |-> Glue(resp, rr.data, "A"), ipv6 |-> Glue(resp, rr.data, "AAAA")]
      BY Zenon DEF extractDelegation
    <3>2. \E r \in resp.additional : r.owner = rr.data
      BY Zenon, <2>4, <3>1, GlueOwner
    <3> QED  BY Zenon, <2>2, <3>1, <3>2
  <2>5. ASSUME NEW n, NEW t, InZone(n, top.zone)
        PROVE  InZone(Entry(n, t, "").name, Entry(n, t, "").zone) /\ Entry(n, t, "").verdict # "bogus"
    BY Zenon, <2>5 DEF Entry
  <2> HIDE DEF new, Entry
  <2> QED  BY Zenon, <2>1, <2>3, <2>4, <2>5, <1>c DEF ResponseOK, StoredIsSound
<1>10. CASE Return
  BY Zenon, <1>10, <1>a, <1>c DEF Return
<1>11. CASE Done \/ UNCHANGED vars
  <2>1. pc' = pc /\ frames' = frames /\ resp' = resp /\ stored' = stored
    BY <1>11 DEF Done, vars, call
  <2> QED  BY Zenon, <2>1 DEF ResponseOK, StoredIsSound, top
<1> QED
  BY Zenon, <1>1, <1>2, <1>3, <1>4, <1>5, <1>6, <1>7, <1>8, <1>9, <1>10, <1>11 DEF Next

\* No server puts a record of another zone, and nobody a bogus one, into the
\* cache: SanitizeBailiwick and the validation come before every Store.
THEOREM StoredInBailiwick == Spec => []StoredIsSound
<1>1. Init => ResponseOK
  BY Zenon DEF Init, ResponseOK, StoredIsSound, Classes
<1>2. FramesOK /\ Budget /\ ResponseOK /\ [Next]_vars => FramesOK' /\ Budget' /\ ResponseOK'
  BY Zenon, FramesStep, BudgetStep, ResponseStep
<1>3. ResponseOK => StoredIsSound
  BY DEF ResponseOK
<1> QED  BY InitWork, <1>1, <1>2, <1>3, PTL DEF Spec

\* Dropping the server at hand leaves its address behind in visited.
LEMMA AskedDrop ==
    ASSUME FramesOK, AskedOK, NEW err, pc \notin Over, pc # "select", DropServer(err)
    PROVE  AskedOK'
<1>1. CASE pc' \in Over
  BY Zenon, <1>1 DEF AskedOK
<1>2. CASE pc' \notin Over
  <2>1. /\ pc' = "select" /\ visited' = visited /\ top'.ns = removeNSByIP(top.ns, ip)
        /\ top'.name = top.name /\ top'.zone = top.zone /\ top'.given = top.given
    <3>1. CASE pc' = "return"
      BY Zenon, <3>1, <1>2 DEF Over
    <3>2. CASE pc' # "return"
      BY Zenon, <3>2, DropServerEffect DEF Returns
    <3> QED  BY Zenon, <3>1, <3>2
  <2>2. ASSUME NEW e \in top'.given \ top'.ns
        PROVE  \E a \in {e.ipv4, e.ipv6} : <<a, top'.name, top'.zone>> \in visited'
    <3>1. CASE e \in top.ns
      <4>1. e.ipv4 = ip \/ e.ipv6 = ip
        BY Zenon, <2>1, <2>2, <3>1 DEF removeNSByIP
      <4> QED  BY Zenon, <2>1, <4>1 DEF AskedOK
    <3>2. CASE e \notin top.ns
      BY Zenon, <2>1, <2>2, <3>2 DEF AskedOK
    <3> QED  BY Zenon, <3>1, <3>2
  <2> QED  BY Zenon, <2>1, <2>2 DEF AskedOK
<1> QED  BY Zenon, <1>1, <1>2

\* A new delegation, or a new call, starts with every server it was given.
LEMMA AskedFresh ==
    ASSUME pc' \in Over \/ (pc' = "select" /\ top'.given = top'.ns)
    PROVE  AskedOK'
BY DEF AskedOK, Over

LEMMA AskedStep == FramesOK /\ Budget /\ AskedOK /\ [Next]_vars => AskedOK'
<1> SUFFICES ASSUME FramesOK, Budget, AskedOK, [Next]_vars PROVE AskedOK'
  OBVIOUS
<1>c. {"select", "ask", "askFull"} \cap Over = {} /\ "return" \in Over /\ "done" \in Over /\ Classes \cap Over = {}
  BY DEF Over, Classes
<1>1. ASSUME NEW a, Select(a) PROVE AskedOK'
  <2>1. CASE pc' = "return"
    BY Zenon, <2>1, <1>c, AskedFresh
  <2>2. CASE pc' # "return"
    <3>1. /\ pc = "select" /\ pc' = "ask" /\ ip' = a /\ frames' = frames
          /\ visited' = visited \cup {<<a, top.name, top.zone>>}
      BY Zenon, <1>1, <2>2 DEF Select, Returns
    <3>2. top' = top
      BY <3>1 DEF top
    <3> QED  BY <3>1, <3>2, <1>c DEF AskedOK
  <2> QED  BY <2>1, <2>2
<1>2. CASE SelectFails \/ Exhausted \/ NoTarget
  <2>1. pc' = "return"
    BY Zenon, <1>2 DEF SelectFails, Exhausted, NoTarget, Returns
  <2> QED  BY <2>1, <1>c, AskedFresh
<1>3. ASSUME NEW m \in Messages, Ask(m) \/ AskFull(m) PROVE AskedOK'
  <2>1. pc \in {"ask", "askFull"} /\ frames' = frames /\ ip' = ip /\ visited' = visited
    BY <1>3 DEF Ask, AskFull
  <2>2. top' = top
    BY <2>1 DEF top
  <2> QED  BY Zenon, <2>1, <2>2, <1>c DEF AskedOK
<1>4. CASE AskFails \/ ServFail
  <2>1. PICK err : DropServer(err)
    BY <1>4 DEF AskFails, ServFail
  <2>2. pc \in {"ask", "askFull", "servfail"}
    BY Zenon, <1>4 DEF AskFails, ServFail
  <2> QED  BY Zenon, <2>1, <2>2, AskedDrop DEF Over
<1>5. ASSUME NEW v, Answer(v) \/ Denial(v) PROVE AskedOK'
  <2>1. pc' = "return"
    BY Zenon, <1>5 DEF Answer, Denial, Returns
  <2> QED  BY <2>1, <1>c, AskedFresh
<1>6. ASSUME NEW target, NEW v, CNAME(target, v) \/ DNAME(target, v) PROVE AskedOK'
  <2>1. CASE pc' = "return"
    BY <2>1, <1>c, AskedFresh
  <2>2. CASE pc' # "return"
    <3>1. PICK rrs : Descend(target, v, rrs)
      BY <1>6, <2>2 DEF CNAME, DNAME
    <3>2. pc' = "select" /\ top' = Frame(target)
      BY Zenon, <3>1, <2>2, DescendEffect
    <3>3. Frame(target).given = Frame(target).ns
      BY Zenon DEF Frame
    <3> QED  BY Zenon, <3>2, <3>3, AskedFresh
  <2> QED  BY <2>1, <2>2
<1>7. ASSUME NEW zone, Referral(zone) PROVE AskedOK'
  BY Zenon, <1>7, ReferralEffect, AskedFresh
<1>8. CASE Return
  <2>1. pc' \in {"return", "done"}
    BY Zenon, <1>8 DEF Return
  <2> QED  BY Zenon, <2>1, <1>c, AskedFresh
<1>9. CASE Done \/ UNCHANGED vars
  <2>1. pc' = pc /\ frames' = frames /\ ip' = ip /\ visited' = visited
    BY <1>9 DEF Done, vars, call
  <2> QED  BY Zenon, <2>1 DEF AskedOK, top
<1> QED
  BY Zenon, <1>1, <1>2, <1>3, <1>4, <1>5, <1>6, <1>7, <1>8, <1>9 DEF Next

\* The error a result carries.
LEMMA FailureErr ==
    ASSUME NEW err
    PROVE  Failure(err).err = err
BY Zenon DEF Failure, Result

\* The errors that do not come from a server.
OtherErrors == {"", "loop detected", "no reachable nameserver", "depth", "CNAME chain too long"}

\* A call gives up for want of servers only once every server of the delegation
\* has been asked: removeNSByIP drops none on another's account.
THEOREM GivesUpAfterAll == Spec => AllServersAsked
<1>1. Init => AskedOK
  <2> SUFFICES ASSUME Init PROVE AskedOK
    OBVIOUS
  <2>1. PICK q \in Questions : frames = <<Frame(q[1])>> /\ pc = "select"
    BY Zenon DEF Init
  <2>2. top = Frame(q[1])
    BY <2>1 DEF top
  <2>3. top.given = top.ns
    BY Zenon, <2>2 DEF Frame
  <2> QED  BY <2>1, <2>3 DEF AskedOK
<1>2. FramesOK /\ Budget /\ AskedOK /\ [Next]_vars => FramesOK' /\ Budget' /\ AskedOK'
  BY FramesStep, BudgetStep, AskedStep
<1>3. ASSUME FramesOK, Budget, AskedOK, [Next]_vars,
             pc # "return", pc' = "return", result'.err \in {"upstream", "servfail"}
      PROVE  \A e \in top.given : \E a \in {e.ipv4, e.ipv6} : <<a, top.name, top.zone>> \in visited
  <2>0. result'.err \notin OtherErrors
    BY Zenon, <1>3 DEF OtherErrors
  <2>1. AskFails \/ ServFail
    <3>1. ASSUME NEW a, Select(a) PROVE FALSE
      <4>1. result' = Failure("loop detected")
        BY Zenon, <1>3, <3>1 DEF Select, Returns
      <4> QED  BY Zenon, <4>1, <2>0, FailureErr DEF OtherErrors
    <3>2. ~(SelectFails \/ Exhausted \/ NoTarget)
      <4>1. ASSUME SelectFails \/ Exhausted \/ NoTarget
            PROVE  result' \in {Failure("no reachable nameserver"), Failure("depth"), Failure("")}
        BY Zenon, <4>1 DEF SelectFails, Exhausted, NoTarget, Returns
      <4> QED  BY Zenon, <4>1, <2>0, FailureErr DEF OtherErrors
    <3>3. ASSUME NEW m, Ask(m) \/ AskFull(m), m \in Messages PROVE FALSE
      <4>1. pc' \in Classes \cup {"askFull"}
        BY <3>3, ResponseClass DEF Ask, AskFull
      <4> QED  BY Zenon, <4>1, <1>3 DEF Classes
    <3>4. ASSUME NEW v, Answer(v) \/ Denial(v) PROVE FALSE
      <4>1. PICK rcode, status, answers : result' = Result(rcode, status, answers, "")
        BY Zenon, <3>4 DEF Answer, Denial, Returns, Bogus
      <4>2. Result(rcode, status, answers, "").err = ""
        BY Zenon DEF Result
      <4> QED  BY Zenon, <4>1, <4>2, <2>0 DEF OtherErrors
    <3>5. ASSUME NEW target, NEW v, CNAME(target, v) \/ DNAME(target, v) PROVE FALSE
      <4>1. result' \in {Bogus, Result("ERROR", "", {}, "CNAME chain too long")}
        BY Zenon, <1>3, <3>5 DEF CNAME, DNAME, Descend
      <4>2. Bogus.err = "" /\ Result("ERROR", "", {}, "CNAME chain too long").err = "CNAME chain too long"
        BY Zenon DEF Result, Bogus
      <4> QED  BY Zenon, <4>1, <4>2, <2>0 DEF OtherErrors
    <3>6. ASSUME NEW zone, Referral(zone) PROVE FALSE
      BY Zenon, <1>3, <3>6 DEF Referral, Continues
    <3>7. ~(Return \/ Done \/ UNCHANGED vars)
      BY <1>3 DEF Return, Done, vars, call
    <3> QED  BY Zenon, <1>3, <3>1, <3>2, <3>3, <3>4, <3>5, <3>6, <3>7 DEF Next
  <2>2. pc \in {"ask", "askFull", "servfail"} /\ removeNSByIP(top.ns, ip) = {}
    BY <2>1, <1>3 DEF AskFails, ServFail, DropServer, Continues
  <2>3. \A e \in top.ns : e.ipv4 = ip \/ e.ipv6 = ip
    BY Zenon, <2>2 DEF removeNSByIP
  <2> QED  BY Zenon, <1>3, <2>2, <2>3 DEF AskedOK, Over
<1>4. FramesOK /\ Budget /\ AskedOK /\ [Next]_vars
        => [pc # "return" /\ pc' = "return" /\ result'.err \in {"upstream", "servfail"}
              => \A e \in top.given : \E a \in {e.ipv4, e.ipv6} : <<a, top.name, top.zone>> \in visited]_vars
  BY <1>3
<1> QED  BY InitWork, <1>1, <1>2, <1>4, PTL DEF Spec, AllServersAsked

-----------------------------------------------------------------------------
(* The answers follow the chain.                                              *)

\* Among rrs, a CNAME of n or a DNAME above it leads to t.
LeadsTo(rrs, n, t) ==
    \/ \E rr \in rrs : rr.type = "CNAME" /\ rr.owner = n /\ t = rr.data /\ t # << >>
    \/ \E rr \in rrs : /\ rr.type = "DNAME" /\ HasSuffix(n, rr.owner) /\ rr.data # << >>
                       /\ t = SubSeq(n, 1, Len(n) - Len(rr.owner)) \o rr.data

\* The records kept with a frame lead to the next one's name, which is the name
\* validated for it; those of a result lead on from its own frame to the end.
FollowOK ==
    /\ \A i \in 1..(Len(frames) - 1) :
         hops[i].name = frames[i].name /\ LeadsTo(frames[i].rrs, frames[i].name, frames[i + 1].name)
    /\ pc \in Over /\ result.rcode \in {"NOERROR", "NXDOMAIN"} =>
         /\ hops[Len(frames)].name = top.name
         /\ \A i \in Len(frames)..(Len(hops) - 1) : LeadsTo(result.answers, hops[i].name, hops[i + 1].name)

LEMMA LeadsIs ==
    ASSUME NEW m, NEW n, NEW t
    PROVE  LeadsTo(m.answers, n, t) <=> t \in extractCNAMETarget(m, n) \cup extractDNAMETarget(m, n)
BY Zenon DEF LeadsTo, extractCNAMETarget, extractDNAMETarget, extractCNAMERecords, OfType

LEMMA LeadsMore ==
    ASSUME NEW R, NEW S, R \subseteq S, NEW n, NEW t, LeadsTo(R, n, t)
    PROVE  LeadsTo(S, n, t)
BY Zenon DEF LeadsTo

\* The calls under way, and their hops, stay as they are.
LEMMA FollowPrefix ==
    ASSUME FramesOK, FollowOK, Len(frames') = Len(frames), top'.name = top.name,
           \A i \in 1..(Len(frames) - 1) : frames'[i] = frames[i] /\ hops'[i] = hops[i]
    PROVE  \A i \in 1..(Len(frames') - 1) :
             hops'[i].name = frames'[i].name /\ LeadsTo(frames'[i].rrs, frames'[i].name, frames'[i + 1].name)
<1> DEFINE n == Len(frames)
<1>1. n \in Nat /\ n >= 1 /\ Len(frames') = n
  BY DepthAssumption DEF FramesOK
<1>2. SUFFICES ASSUME NEW i \in 1..(n - 1)
               PROVE  hops'[i].name = frames'[i].name /\ LeadsTo(frames'[i].rrs, frames'[i].name, frames'[i + 1].name)
  BY Zenon, <1>1
<1>3. frames'[i + 1].name = frames[i + 1].name
  <2>1. CASE i + 1 = n
    BY Zenon, <2>1, <1>1 DEF top
  <2>2. CASE i + 1 \in 1..(n - 1)
    BY Zenon, <2>2
  <2> HIDE DEF n
  <2> QED  BY <1>1, <2>1, <2>2
<1>4. frames'[i] = frames[i] /\ hops'[i] = hops[i]
      /\ hops[i].name = frames[i].name /\ LeadsTo(frames[i].rrs, frames[i].name, frames[i + 1].name)
  BY Zenon DEF FollowOK
<1> QED  BY Zenon, <1>3, <1>4

LEMMA FollowGoesOn ==
    ASSUME FramesOK, FollowOK, pc' \notin Over, Len(frames') = Len(frames), top'.name = top.name,
           \A i \in 1..(Len(frames) - 1) : frames'[i] = frames[i], hops' = hops
    PROVE  FollowOK'
BY Zenon, FollowPrefix DEF FollowOK

LEMMA FollowFails ==
    ASSUME FramesOK, FollowOK, frames' = frames, hops' = hops, result'.rcode \notin {"NOERROR", "NXDOMAIN"}
    PROVE  FollowOK'
<1>1. top' = top
  BY Zenon DEF top
<1> QED  BY <1>1, FollowPrefix DEF FollowOK

\* A call that ends on its own response adds the last name of the chain.
LEMMA FollowVerdict ==
    ASSUME FramesOK, ChainOK, FollowOK, pc \notin Over, frames' = frames, NEW v, Validated(v)
    PROVE  FollowOK'
<1>1. /\ Len(hops) \in Nat /\ Len(hops') = Len(hops) + 1
      /\ \A i \in 1..Len(hops) : hops'[i] = hops[i]
      /\ hops'[Len(hops) + 1].name = top.name
  BY ValidatedEffect
<1>2. Len(hops) = Len(frames) - 1 /\ Len(frames) \in Nat /\ Len(frames) >= 1
  BY ChainLength
<1>3. top' = top
  BY Zenon DEF top
<1>4. \A i \in 1..(Len(frames') - 1) :
         hops'[i].name = frames'[i].name /\ LeadsTo(frames'[i].rrs, frames'[i].name, frames'[i + 1].name)
  BY Zenon, <1>1, <1>2, <1>3, FollowPrefix
<1>5. hops'[Len(frames')].name = top'.name /\ Len(frames')..(Len(hops') - 1) = {}
  BY <1>1, <1>2, <1>3
<1> QED  BY Zenon, <1>4, <1>5 DEF FollowOK

\* A hop's records lead from the name of its frame to the new one's.
LEMMA FollowDescend ==
    ASSUME FramesOK, ChainOK, FollowOK, pc \notin Over, NEW target, NEW v, NEW rrs, Validated(v),
           Descend(target, v, rrs), LeadsTo(rrs, top.name, target)
    PROVE  FollowOK'
<1>1. CASE pc' = "return" /\ frames' = frames
  BY Zenon, <1>1, FollowVerdict
<1>2. CASE ~(pc' = "return" /\ frames' = frames)
  <2>1. /\ Len(hops) \in Nat /\ Len(hops') = Len(hops) + 1
        /\ \A i \in 1..Len(hops) : hops'[i] = hops[i]
        /\ hops'[Len(hops) + 1].name = top.name
    BY Zenon, ValidatedEffect
  <2>2. Len(hops) = Len(frames) - 1 /\ Len(frames) \in Nat /\ Len(frames) >= 1
    BY ChainLength
  <2>3. /\ pc' = "select" /\ Len(frames') = Len(frames) + 1
        /\ top' = Frame(target)
        /\ \A i \in 1..(Len(frames) - 1) : frames'[i] = frames[i]
        /\ frames'[Len(frames)].name = top.name /\ frames'[Len(frames)].rrs = rrs
    BY Zenon, <1>2, DescendEffect
  <2>4. frames'[Len(frames) + 1].name = target
    <3>1. Frame(target).name = target
      BY Zenon DEF Frame
    <3> QED  BY Zenon, <2>3, <3>1 DEF top
  <2>5. ASSUME NEW i \in 1..Len(frames)
        PROVE  hops'[i].name = frames'[i].name /\ LeadsTo(frames'[i].rrs, frames'[i].name, frames'[i + 1].name)
    <3>1. CASE i = Len(frames)
      <4>1. hops'[i].name = top.name
        BY <3>1, <2>1, <2>2
      <4> QED  BY Zenon, <3>1, <4>1, <2>3, <2>4
    <3>2. CASE i \in 1..(Len(frames) - 1)
      <4>1. /\ hops[i].name = frames[i].name /\ LeadsTo(frames[i].rrs, frames[i].name, frames[i + 1].name)
            /\ hops'[i] = hops[i] /\ frames'[i] = frames[i]
        BY Zenon, <3>2, <2>1, <2>2, <2>3 DEF FollowOK
      <4>2. frames'[i + 1].name = frames[i + 1].name
        <5>1. CASE i + 1 = Len(frames)
          BY Zenon, <5>1, <2>3 DEF top
        <5>2. CASE i + 1 \in 1..(Len(frames) - 1)
          BY Zenon, <5>2, <2>3
        <5> QED  BY <3>2, <2>2, <5>1, <5>2
      <4> QED  BY Zenon, <4>1, <4>2
    <3> QED  BY <2>2, <3>1, <3>2
  <2>6. Len(frames') - 1 = Len(frames) /\ pc' \notin Over
    BY <2>2, <2>3 DEF Over
  <2> QED  BY Zenon, <2>5, <2>6 DEF FollowOK
<1> QED  BY Zenon, <1>1, <1>2

\* A hop's result gets its caller's records, which lead to its own name.
LEMMA FollowReturn ==
    ASSUME FramesOK, ChainOK, FollowOK, Return
    PROVE  FollowOK'
<1>0. hops' = hops /\ pc = "return" /\ pc \in Over
  BY DEF Return, Over
<1>1. CASE Len(frames) = 1 /\ pc' = "done" /\ frames' = frames /\ result' = result
  BY Zenon, <1>0, <1>1 DEF FollowOK, top
<1>2. CASE /\ Len(frames) > 1 /\ Len(frames') = Len(frames) - 1
           /\ \A i \in 1..(Len(frames) - 1) : frames'[i] = frames[i]
  <2> DEFINE n == Len(frames)
             rrs == frames[n - 1].rrs
  <2>1. n \in Nat /\ n > 1 /\ Len(frames') = n - 1
    <3>1. n \in Nat
      BY Zenon, Quantities
    <3> QED  BY Zenon, <3>1, <1>2
  <2>2. ASSUME NEW i \in 1..(Len(frames') - 1)
        PROVE  hops'[i].name = frames'[i].name /\ LeadsTo(frames'[i].rrs, frames'[i].name, frames'[i + 1].name)
    <3>1. i \in 1..(n - 1) /\ i + 1 \in 1..(n - 1)
      BY <2>1
    <3> QED  BY Zenon, <3>1, <1>0, <1>2 DEF FollowOK
  <2>3. ASSUME result'.rcode \in {"NOERROR", "NXDOMAIN"}
        PROVE  /\ hops'[Len(frames')].name = top'.name
               /\ \A i \in Len(frames')..(Len(hops') - 1) : LeadsTo(result'.answers, hops'[i].name, hops'[i + 1].name)
    <3>1. /\ result.rcode \in {"NOERROR", "NXDOMAIN"}
          /\ result'.answers = result.answers \cup rrs
      <4>1. result' = IF result.rcode = "ERROR" THEN result
                      ELSE [result EXCEPT !.answers = @ \cup rrs,
                                          !.status = combineDNSSECStatus(frames[n - 1].status, @)]
        BY <2>1 DEF Return
      <4>2. DOMAIN result = {"rcode", "status", "answers", "err"}
        BY Zenon DEF ChainOK
      <4> HIDE DEF n, rrs
      <4> QED  BY Zenon, <2>3, <4>1, <4>2
    <3>2. hops[n].name = top.name
      BY Zenon, <1>0, <3>1 DEF FollowOK
    <3>3. n - 1 \in 1..(n - 1) /\ (n - 1) + 1 = n
      BY <2>1
    <3>4. hops[n - 1].name = frames[n - 1].name /\ LeadsTo(rrs, frames[n - 1].name, frames[n].name)
      BY Zenon, <3>3 DEF FollowOK
    <3>5. hops'[Len(frames')].name = top'.name
      BY Zenon, <1>0, <1>2, <2>1, <3>3, <3>4 DEF top
    <3>6. LeadsTo(result'.answers, hops[n - 1].name, hops[n].name)
      <4>1. LeadsTo(rrs, hops[n - 1].name, hops[n].name)
        BY Zenon, <3>2, <3>4 DEF top
      <4> HIDE DEF rrs, n
      <4> QED  BY Zenon, <3>1, <4>1, LeadsMore
    <3>7. ASSUME NEW i \in n..(Len(hops) - 1) PROVE LeadsTo(result'.answers, hops[i].name, hops[i + 1].name)
      <4>1. LeadsTo(result.answers, hops[i].name, hops[i + 1].name)
        BY Zenon, <1>0, <3>1 DEF FollowOK
      <4> HIDE DEF rrs, n
      <4> QED  BY Zenon, <3>1, <4>1, LeadsMore
    <3>8. ASSUME NEW i \in (n - 1)..(Len(hops) - 1) PROVE i = n - 1 \/ i \in n..(Len(hops) - 1)
      <4>1. Len(hops) \in Nat
        BY Zenon, LengthOfSeq DEF ChainOK, IsSeq
      <4> HIDE DEF n
      <4> QED  BY <2>1, <4>1
    <3>9. \A i \in (n - 1)..(Len(hops) - 1) : LeadsTo(result'.answers, hops[i].name, hops[i + 1].name)
      BY Zenon, <3>3, <3>6, <3>7, <3>8
    <3> QED  BY Zenon, <1>0, <2>1, <3>5, <3>9
  <2> QED  BY Zenon, <2>2, <2>3 DEF FollowOK
<1> QED  BY Zenon, <1>1, <1>2, ReturnEffect

LEMMA FollowStep == FramesOK /\ Budget /\ ChainOK /\ FollowOK /\ [Next]_vars => FollowOK'
<1> SUFFICES ASSUME FramesOK, Budget, ChainOK, FollowOK, [Next]_vars PROVE FollowOK'
  OBVIOUS
<1>a. ASSUME NEW err PROVE Failure(err).rcode \notin {"NOERROR", "NXDOMAIN"}
  BY DEF Failure, Result
<1>b. ASSUME NEW err, DropServer(err), hops' = hops PROVE FollowOK'
  <2>1. CASE Returns(Failure(err))
    BY Zenon, <1>b, <2>1, <1>a, FollowFails DEF Returns
  <2>2. CASE ~Returns(Failure(err))
    BY Zenon, <1>b, <2>2, DropServerEffect, FollowGoesOn DEF Over
  <2> QED  BY Zenon, <2>1, <2>2
<1>1. ASSUME NEW a, Select(a) PROVE FollowOK'
  <2>1. hops' = hops /\ frames' = frames
    BY Zenon, <1>1 DEF Select, Returns
  <2>2. CASE pc' = "ask" /\ result' = result
    BY Zenon, <2>1, <2>2, FollowGoesOn DEF Over, top
  <2>3. CASE pc' = "return" /\ result' = Failure("loop detected")
    BY Zenon, <2>1, <2>3, <1>a, FollowFails
  <2> QED  BY Zenon, <1>1, <2>2, <2>3 DEF Select, Returns
<1>2. CASE SelectFails \/ Exhausted \/ NoTarget
  <2>1. hops' = hops /\ frames' = frames
    BY Zenon, <1>2 DEF SelectFails, Exhausted, NoTarget, Returns
  <2>2. \E err : result' = Failure(err)
    BY Zenon, <1>2 DEF SelectFails, Exhausted, NoTarget, Returns
  <2> QED  BY Zenon, <2>1, <2>2, <1>a, FollowFails
<1>3. ASSUME NEW m \in Messages, Ask(m) \/ AskFull(m) PROVE FollowOK'
  <2>1. hops' = hops /\ frames' = frames
    BY Zenon, <1>3 DEF Ask, AskFull
  <2>2. pc' \in Classes \cup {"askFull"}
    BY <1>3, ResponseClass DEF Ask, AskFull
  <2>3. pc' \notin Over /\ top' = top
    BY Zenon, <2>1, <2>2 DEF Classes, Over, top
  <2> QED  BY Zenon, <2>1, <2>3, FollowGoesOn
<1>4. CASE AskFails \/ ServFail
  BY Zenon, <1>4, <1>b DEF AskFails, ServFail
<1>5. ASSUME NEW v, Answer(v) \/ Denial(v) PROVE FollowOK'
  <2>1. pc \notin Over /\ frames' = frames /\ Validated(v)
    BY Zenon, <1>5 DEF Answer, Denial, Returns, Over
  <2> QED  BY <2>1, FollowVerdict
<1>6. ASSUME NEW target, NEW v, CNAME(target, v) \/ DNAME(target, v) PROVE FollowOK'
  <2>1. pc \notin Over /\ Validated(v)
    BY <1>6 DEF CNAME, DNAME, Over
  <2>2. CASE v = "bogus"
    <3>1. frames' = frames
      BY Zenon, <1>6, <2>2 DEF CNAME, DNAME
    <3> QED  BY Zenon, <2>1, <3>1, FollowVerdict
  <2>3. CASE v # "bogus" /\ CNAME(target, v)
    <3> DEFINE rrs == extractCNAMERecords(resp, top.name)
    <3>1. Descend(target, v, rrs) /\ target \in extractCNAMETarget(resp, top.name)
      BY <2>3 DEF CNAME
    <3>2. LeadsTo(rrs, top.name, target)
      BY Zenon, <3>1 DEF extractCNAMETarget, extractCNAMERecords, OfType, LeadsTo
    <3> HIDE DEF rrs
    <3> QED  BY Zenon, <2>1, <3>1, <3>2, FollowDescend
  <2>4. CASE v # "bogus" /\ DNAME(target, v)
    <3> DEFINE rrs == OfType(resp.answers, "DNAME") \cup OfType(resp.answers, "CNAME")
    <3>1. Descend(target, v, rrs) /\ target \in extractDNAMETarget(resp, top.name)
      BY <2>4 DEF DNAME
    <3>2. LeadsTo(rrs, top.name, target)
      BY Zenon, <3>1 DEF extractDNAMETarget, OfType, LeadsTo
    <3> HIDE DEF rrs
    <3> QED  BY <2>1, <3>1, <3>2, FollowDescend
  <2> QED  BY Zenon, <1>6, <2>2, <2>3, <2>4
<1>7. ASSUME NEW zone, Referral(zone) PROVE FollowOK'
  <2>1. hops' = hops
    BY Zenon, <1>7 DEF Referral
  <2> QED  BY Zenon, <1>7, <2>1, ReferralEffect, FollowGoesOn DEF Over
<1>8. CASE Return
  BY Zenon, <1>8, FollowReturn
<1>9. CASE Done \/ UNCHANGED vars
  <2>1. pc' = pc /\ frames' = frames /\ result' = result /\ hops' = hops
    BY <1>9 DEF Done, vars, call
  <2> QED  BY Zenon, <2>1 DEF FollowOK, top
<1> QED
  BY Zenon, <1>1, <1>2, <1>3, <1>4, <1>5, <1>6, <1>7, <1>8, <1>9 DEF Next

\* A positive or negative answer carries the CNAME and DNAME records that lead
\* from the question to the name it was found for.
THEOREM AnswerLeadsFromQuestion == Spec => []AnswerFollowsChain
<1>1. Init => FollowOK
  <2> SUFFICES ASSUME NEW q \in Questions, frames = <<Frame(q[1])>>, pc = "select" PROVE FollowOK
    BY Zenon DEF Init
  <2>1. Len(frames) = 1
    OBVIOUS
  <2>2. 1..(Len(frames) - 1) = {} /\ pc \notin Over
    BY Zenon, <2>1, NoHops DEF Over
  <2> QED  BY <2>2 DEF FollowOK
<1>2. /\ FramesOK /\ Budget /\ ChainOK /\ FollowOK
      /\ [Next]_vars
      => FramesOK' /\ Budget' /\ ChainOK' /\ FollowOK'
  BY Zenon, FramesStep, BudgetStep, ChainStep, FollowStep
<1>3. ChainOK /\ FollowOK => AnswerFollowsChain
  <2> SUFFICES ASSUME ChainOK, FollowOK, pc = "done", result.rcode \in {"NOERROR", "NXDOMAIN"},
                      NEW i \in 1..(Len(hops) - 1)
               PROVE  hops[i + 1].name \in extractCNAMETarget(result, hops[i].name)
                                             \cup extractDNAMETarget(result, hops[i].name)
    BY DEF AnswerFollowsChain
  <2>1. Len(frames) = 1 /\ pc \in Over
    BY Zenon DEF ChainOK, Over
  <2>2. LeadsTo(result.answers, hops[i].name, hops[i + 1].name)
    BY <2>1 DEF FollowOK
  <2> QED  BY Zenon, <2>2, LeadsIs
<1> QED  BY InitWork, InitChain, <1>1, <1>2, <1>3, PTL DEF Spec
=============================================================================
