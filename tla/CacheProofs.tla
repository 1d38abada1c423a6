---------------------------- MODULE CacheProofs ----------------------------
(* Proofs about Cache, for every number of names, shards, goroutines and      *)
(* insertions: its types, the shards' capacity, the link between map and heap *)
(* what eviction, the sweeper and Flush remove, and that a lookup returns      *)
(* what answers its question.                                                  *)
(*                                                                             *)
(* And about Inflight, the coalescing of concurrent calls, for any number of   *)
(* callers, keys and call objects: one leader per key, shared results, and     *)
(* that it implements Coalescer.                                               *)
EXTENDS Cache, Inflight, FiniteSetTheorems, TLAPS

\* Time for the provers on a machine that is busy.
USE SMTT(30), ZenonT(30)

-----------------------------------------------------------------------------
(* The resolver's coalescing of calls.                                        *)

\* A leader's call is the one registered under its key, and its fields are as
\* far as the leader is.
LeaderOK ==
    \A p \in Callers : Leading(p) =>
        /\ goroutine[p].key \in Keys /\ goroutine[p].id \in Ids
        /\ calls[goroutine[p].key] = goroutine[p].id
        /\ callObjects[goroutine[p].id].done <=> goroutine[p].pc = "done"
        /\ goroutine[p].pc # "run" => callObjects[goroutine[p].id].result # Nil

\* A waiter holds a call object; who has returned, one that is done.
FollowerOK ==
    \A p \in Callers :
        /\ goroutine[p].pc = "idle" => goroutine[p] = IdleProc
        /\ goroutine[p].pc # "returned" => goroutine[p].ret = Nil
        /\ goroutine[p].pc \in {"wait", "returned"} => goroutine[p].id \in Ids
        /\ goroutine[p].pc = "returned" => callObjects[goroutine[p].id].done

\* A done call has a result.
DoneOK == \A i \in Ids : callObjects[i].done => callObjects[i].result # Nil

\* No call object is registered under two keys.
Distinct == \A k, l \in Keys : calls[k] = calls[l] /\ calls[k] # Nil => k = l

\* The inductive invariant.
CoalescingInv == InflightTypeOK /\ LeaderOK /\ FollowerOK /\ DoneOK /\ Distinct /\ OneLeader /\ NoOrphan /\ SharedResult

-----------------------------------------------------------------------------
\* Two leaders never share a call object.
LEMMA LeadersApart ==
    ASSUME CoalescingInv, NEW p \in Callers, NEW q \in Callers, Leading(p), Leading(q), goroutine[p].id = goroutine[q].id
    PROVE  p = q
<1>1. goroutine[p].key \in Keys /\ goroutine[q].key \in Keys /\ calls[goroutine[p].key] = calls[goroutine[q].key]
      /\ calls[goroutine[p].key] \in Ids
  BY Zenon DEF CoalescingInv, LeaderOK
<1>2. goroutine[p].key = goroutine[q].key
  BY <1>1, ResultAssumption DEF CoalescingInv, Distinct
<1> QED  BY Zenon, <1>2 DEF CoalescingInv, OneLeader

\* The initial state satisfies the invariant.
LEMMA CoalescingInit == InflightInit => CoalescingInv
<1> SUFFICES ASSUME InflightInit PROVE CoalescingInv
  OBVIOUS
<1>1. \A p \in Callers : goroutine[p] = IdleProc /\ goroutine[p].pc = "idle" /\ goroutine[p].ret = Nil
  BY Zenon DEF InflightInit, IdleProc
<1>2. InflightTypeOK
  BY Zenon DEF InflightInit, InflightTypeOK, IdleProc
<1>3. LeaderOK /\ FollowerOK /\ OneLeader /\ SharedResult
  BY <1>1 DEF LeaderOK, FollowerOK, OneLeader, SharedResult, Leading
<1>4. DoneOK /\ Distinct /\ NoOrphan
  BY DEF InflightInit, DoneOK, Distinct, NoOrphan
<1> QED  BY <1>2, <1>3, <1>4 DEF CoalescingInv

\* Registering a call keeps the invariant.
LEMMA RegisterKeeps ==
    ASSUME CoalescingInv, NEW p \in Callers, NEW k \in Keys, NEW i \in Ids, Register(p, k, i)
    PROVE  CoalescingInv'
<1> DEFINE r == [pc |-> "run", key |-> k, id |-> i, ret |-> Nil]
<1>1. /\ calls' = [calls EXCEPT ![k] = i] /\ callObjects' = [callObjects EXCEPT ![i] = NewCall] /\ goroutine' = [goroutine EXCEPT ![p] = r]
      /\ goroutine[p].pc = "idle" /\ calls[k] = Nil
      /\ \A l \in Keys : calls[l] # i
      /\ \A q \in Callers : goroutine[q].id # i
  BY DEF Register, Unused
<1>2. InflightTypeOK
  BY Zenon DEF CoalescingInv
<1>3. InflightTypeOK'
  BY Zenon, <1>1, <1>2 DEF InflightTypeOK, NewCall
<1>4. /\ \A q \in Callers : q # p => goroutine'[q] = goroutine[q]
      /\ goroutine'[p] = r
      /\ \A l \in Keys : calls'[l] = IF l = k THEN i ELSE calls[l]
      /\ \A j \in Ids : callObjects'[j] = IF j = i THEN NewCall ELSE callObjects[j]
  BY Zenon, <1>1, <1>2 DEF InflightTypeOK
<1>5. \A q \in Callers : q # p /\ Leading(q) => goroutine[q].key # k
  BY Zenon, <1>1, ResultAssumption DEF CoalescingInv, LeaderOK
<1>6. LeaderOK'
  <2> SUFFICES ASSUME NEW q \in Callers, Leading(q)'
               PROVE  /\ goroutine'[q].key \in Keys /\ goroutine'[q].id \in Ids
                      /\ calls'[goroutine'[q].key] = goroutine'[q].id
                      /\ callObjects'[goroutine'[q].id].done <=> goroutine'[q].pc = "done"
                      /\ goroutine'[q].pc # "run" => callObjects'[goroutine'[q].id].result # Nil
    BY Zenon DEF LeaderOK
  <2>1. CASE q = p
    BY <1>4, <2>1 DEF NewCall
  <2>2. CASE q # p
    <3>1. Leading(q) /\ goroutine'[q] = goroutine[q]
      BY Zenon, <1>4, <2>2 DEF Leading
    <3>2. goroutine[q].key # k /\ goroutine[q].id # i
      BY Zenon, <1>1, <1>5, <2>2, <3>1
    <3> QED  BY <1>4, <3>1, <3>2 DEF CoalescingInv, LeaderOK
  <2> QED  BY Zenon, <2>1, <2>2
<1>7. FollowerOK'
  BY <1>1, <1>4 DEF CoalescingInv, FollowerOK, NewCall, IdleProc
<1>8. DoneOK'
  BY <1>4 DEF CoalescingInv, DoneOK, NewCall
<1>9. Distinct'
  BY <1>1, <1>4 DEF CoalescingInv, Distinct
<1>10. OneLeader'
  BY <1>4, <1>5 DEF CoalescingInv, OneLeader, Leading
<1>11. NoOrphan'
  <2> SUFFICES ASSUME NEW l \in Keys, calls'[l] # Nil
               PROVE  \E q \in Callers : Leading(q)' /\ goroutine'[q].key = l /\ goroutine'[q].id = calls'[l]
    BY DEF NoOrphan
  <2>1. CASE l = k
    BY <1>4, <2>1 DEF Leading
  <2>2. CASE l # k
    <3>1. PICK q \in Callers : Leading(q) /\ goroutine[q].key = l /\ goroutine[q].id = calls[l]
      BY <1>4, <2>2 DEF CoalescingInv, NoOrphan
    <3>2. q # p
      BY <1>1, <3>1 DEF Leading
    <3> QED  BY <1>4, <2>2, <3>1, <3>2 DEF Leading
  <2> QED  BY <2>1, <2>2
<1>12. SharedResult'
  BY <1>1, <1>4 DEF CoalescingInv, SharedResult
<1> QED  BY Zenon, <1>3, <1>6, <1>7, <1>8, <1>9, <1>10, <1>11, <1>12 DEF CoalescingInv

\* Waiting and leaving keep the invariant: only the caller's record changes,
\* and it does not lead.
LEMMA FollowerKeeps ==
    ASSUME CoalescingInv, NEW p \in Callers, (\E k \in Keys : Join(p, k)) \/ Wake(p) \/ Leave(p)
    PROVE  CoalescingInv'
<1>1. UNCHANGED <<calls, callObjects>> /\ ~Leading(p)
  BY DEF Join, Wake, Leave, Leading
<1>2. InflightTypeOK
  BY DEF CoalescingInv
<1>3. \A q \in Callers : q # p => goroutine'[q] = goroutine[q]
  BY <1>2 DEF Join, Wake, Leave, InflightTypeOK
<1>4. /\ InflightTypeOK' /\ ~Leading(p)'
      /\ goroutine'[p].pc = "idle" => goroutine'[p] = IdleProc
      /\ goroutine'[p].pc # "returned" => goroutine'[p].ret = Nil
      /\ goroutine'[p].pc \in {"wait", "returned"} => goroutine'[p].id \in Ids
      /\ goroutine'[p].pc = "returned" => callObjects[goroutine'[p].id].done /\ goroutine'[p].ret = callObjects[goroutine'[p].id].result
  <2>1. CASE \E k \in Keys : Join(p, k)
    BY <1>2, <2>1 DEF Join, InflightTypeOK, Leading
  <2>2. CASE Wake(p)
    <3>1. /\ goroutine[p].pc = "wait" /\ goroutine[p].id \in Ids /\ callObjects[goroutine[p].id].done
          /\ goroutine' = [goroutine EXCEPT ![p].pc = "returned", ![p].ret = callObjects[goroutine[p].id].result]
      BY <2>2 DEF Wake, CoalescingInv, FollowerOK
    <3>2. goroutine[p].id \in Ids /\ callObjects[goroutine[p].id].result \in Values \cup {Nil}
      BY <1>2, <3>1 DEF InflightTypeOK
    <3>3. /\ goroutine'[p].pc = "returned" /\ goroutine'[p].id = goroutine[p].id
          /\ goroutine'[p].ret = callObjects[goroutine[p].id].result
      BY Zenon, <1>2, <3>1 DEF InflightTypeOK
    <3>4. InflightTypeOK'
      <4> DEFINE P == [pc : {"idle", "run", "ran", "done", "wait", "returned"},
                       key : Keys \cup {Nil}, id : Ids \cup {Nil}, ret : Values \cup {Nil}]
      <4>1. goroutine \in [Callers -> P]
        BY <1>2 DEF InflightTypeOK
      <4>2. [goroutine[p] EXCEPT !.pc = "returned", !.ret = callObjects[goroutine[p].id].result] \in P
        BY Zenon, <3>2, <4>1
      <4>3. goroutine' \in [Callers -> P]
        BY Zenon, <3>1, <4>1, <4>2
      <4> QED  BY Zenon, <1>1, <1>2, <4>3 DEF InflightTypeOK
    <3> QED  BY Zenon, <3>1, <3>3, <3>4 DEF Leading
  <2>3. CASE Leave(p)
    BY Zenon, <1>1, <1>2, <2>3 DEF Leave, InflightTypeOK, Leading, IdleProc
  <2> QED  BY Zenon, <2>1, <2>2, <2>3
<1>5. LeaderOK' /\ OneLeader'
  BY <1>1, <1>3, <1>4 DEF CoalescingInv, LeaderOK, OneLeader, Leading
<1>6. NoOrphan'
  <2> SUFFICES ASSUME NEW l \in Keys, calls'[l] # Nil
               PROVE  \E q \in Callers : Leading(q)' /\ goroutine'[q].key = l /\ goroutine'[q].id = calls'[l]
    BY Zenon DEF NoOrphan
  <2>1. PICK q \in Callers : Leading(q) /\ goroutine[q].key = l /\ goroutine[q].id = calls[l]
    BY Zenon, <1>1 DEF CoalescingInv, NoOrphan
  <2> QED  BY Zenon, <1>1, <1>3, <2>1 DEF Leading
<1>7. FollowerOK' /\ DoneOK' /\ Distinct'
  BY <1>1, <1>3, <1>4 DEF CoalescingInv, FollowerOK, DoneOK, Distinct, IdleProc
<1>8. SharedResult'
  <2> SUFFICES ASSUME NEW q \in Callers, goroutine'[q].pc = "returned"
               PROVE  goroutine'[q].ret # Nil /\ goroutine'[q].ret = callObjects'[goroutine'[q].id].result
    BY Zenon DEF SharedResult
  <2>1. CASE q = p
    BY Zenon, <1>1, <1>4, <2>1 DEF CoalescingInv, DoneOK
  <2>2. CASE q # p
    BY Zenon, <1>1, <1>3, <2>2 DEF CoalescingInv, SharedResult
  <2> QED  BY <2>1, <2>2
<1> QED  BY <1>4, <1>5, <1>6, <1>7, <1>8 DEF CoalescingInv

\* The leader's steps keep the invariant: they change its own call object and,
\* at the end, unregister it.
LEMMA LeaderKeeps ==
    ASSUME CoalescingInv, NEW p \in Callers, (\E v \in Values : RunFn(p, v)) \/ Done(p) \/ Remove(p)
    PROVE  CoalescingInv'
<1> DEFINE i == goroutine[p].id
           k == goroutine[p].key
           P == [pc : {"idle", "run", "ran", "done", "wait", "returned"},
                 key : Keys \cup {Nil}, id : Ids \cup {Nil}, ret : Values \cup {Nil}]
           C == [result : Values \cup {Nil}, done : BOOLEAN]
<1>1. /\ goroutine \in [Callers -> P] /\ callObjects \in [Ids -> C] /\ calls \in [Keys -> Ids \cup {Nil}]
      /\ Leading(p) /\ i \in Ids /\ k \in Keys /\ calls[k] = i /\ goroutine[p].ret = Nil
  BY Zenon DEF CoalescingInv, InflightTypeOK, LeaderOK, FollowerOK, RunFn, Done, Remove, Leading
<1>2. \A q \in Callers : q # p /\ Leading(q) => goroutine[q].id # i /\ goroutine[q].key # k
  BY Zenon, <1>1, LeadersApart DEF CoalescingInv, OneLeader
<1>3. /\ \A q \in Callers : q # p => goroutine'[q] = goroutine[q]
      /\ goroutine'[p].key = k /\ goroutine'[p].id = i
      /\ \A j \in Ids : j # i => callObjects'[j] = callObjects[j]
      /\ \A l \in Keys : l # k => calls'[l] = calls[l]
  <2>1. CASE \E v \in Values : RunFn(p, v)
    BY <1>1, <2>1 DEF RunFn
  <2>2. CASE Done(p)
    BY <1>1, <2>2 DEF Done
  <2>3. CASE Remove(p)
    BY Zenon, <1>1, <2>3 DEF Remove
  <2> QED  BY Zenon, <2>1, <2>2, <2>3
<1>4. ASSUME NEW pc \in {"ran", "done", "returned"}, NEW ret \in Values \cup {Nil}, NEW c \in C,
             goroutine[p].pc # "done" \/ c = callObjects[i],
             callObjects' = [callObjects EXCEPT ![i] = c],
             goroutine' = [goroutine EXCEPT ![p] = [goroutine[p] EXCEPT !.pc = pc, !.ret = ret]],
             c.result # Nil, c.done <=> pc # "ran",
             IF pc = "returned" THEN ret = c.result /\ calls' = [calls EXCEPT ![k] = Nil]
                                ELSE ret = Nil /\ calls' = calls
      PROVE  CoalescingInv'
  <2>1. [goroutine[p] EXCEPT !.pc = pc, !.ret = ret] \in P
    <3>1. goroutine[p] \in P
      BY Zenon, <1>1
    <3> QED  BY Zenon, <3>1
  <2>2. goroutine' \in [Callers -> P] /\ callObjects' \in [Ids -> C] /\ calls' \in [Keys -> Ids \cup {Nil}]
    BY Zenon, <1>1, <1>4, <2>1
  <2>3. InflightTypeOK'
    BY <2>2 DEF InflightTypeOK
  <2>4. goroutine'[p].pc = pc /\ goroutine'[p].ret = ret /\ callObjects'[i] = c
    BY <1>1, <1>4
  <2>5. LeaderOK'
    <3> SUFFICES ASSUME NEW q \in Callers, Leading(q)'
                 PROVE  /\ goroutine'[q].key \in Keys /\ goroutine'[q].id \in Ids
                        /\ calls'[goroutine'[q].key] = goroutine'[q].id
                        /\ callObjects'[goroutine'[q].id].done <=> goroutine'[q].pc = "done"
                        /\ goroutine'[q].pc # "run" => callObjects'[goroutine'[q].id].result # Nil
      BY DEF LeaderOK
    <3>1. CASE q = p
      BY ZenonT(40), <1>1, <1>3, <1>4, <2>4, <3>1 DEF Leading
    <3>2. CASE q # p
      <4>1. Leading(q) /\ goroutine'[q] = goroutine[q]
        BY <1>3, <3>2 DEF Leading
      <4> QED  BY <1>2, <1>3, <3>2, <4>1 DEF CoalescingInv, LeaderOK
    <3> QED  BY Zenon, <3>1, <3>2
  <2>6. FollowerOK'
    <3> SUFFICES ASSUME NEW q \in Callers
                 PROVE  /\ goroutine'[q].pc = "idle" => goroutine'[q] = IdleProc
                        /\ goroutine'[q].pc # "returned" => goroutine'[q].ret = Nil
                        /\ goroutine'[q].pc \in {"wait", "returned"} => goroutine'[q].id \in Ids
                        /\ goroutine'[q].pc = "returned" => callObjects'[goroutine'[q].id].done
      BY DEF FollowerOK, IdleProc
    <3>1. CASE q = p
      BY Zenon, <1>1, <1>3, <1>4, <2>4, <3>1
    <3>2. CASE q # p
      <4>1. goroutine'[q] = goroutine[q] /\ (callObjects[i].done => callObjects'[i].done)
        BY <1>1, <1>3, <1>4, <2>4, <3>2 DEF CoalescingInv, LeaderOK, Leading
      <4> QED  BY <1>3, <4>1 DEF CoalescingInv, FollowerOK
    <3> QED  BY <3>1, <3>2
  <2>7. DoneOK'
    BY <1>3, <1>4, <2>4 DEF CoalescingInv, DoneOK
  <2>8. Distinct'
    BY <1>1, <1>3, <1>4 DEF CoalescingInv, Distinct
  <2>9. OneLeader'
    BY <1>2, <1>3 DEF CoalescingInv, OneLeader, Leading
  <2>10. NoOrphan'
    <3> SUFFICES ASSUME NEW l \in Keys, calls'[l] # Nil
                 PROVE  \E q \in Callers : Leading(q)' /\ goroutine'[q].key = l /\ goroutine'[q].id = calls'[l]
      BY DEF NoOrphan
    <3>1. CASE l = k
      <4>1. pc # "returned" /\ calls'[k] = i
        BY Zenon, <1>1, <1>4, <3>1
      <4> QED  BY Zenon, <1>3, <1>4, <2>4, <3>1, <4>1 DEF Leading
    <3>2. CASE l # k
      <4>1. PICK q \in Callers : Leading(q) /\ goroutine[q].key = l /\ goroutine[q].id = calls[l]
        BY Zenon, <1>3, <3>2 DEF CoalescingInv, NoOrphan
      <4> QED  BY Zenon, <1>3, <3>2, <4>1 DEF Leading
    <3> QED  BY Zenon, <3>1, <3>2
  <2>11. SharedResult'
    <3> SUFFICES ASSUME NEW q \in Callers, goroutine'[q].pc = "returned"
                 PROVE  goroutine'[q].ret # Nil /\ goroutine'[q].ret = callObjects'[goroutine'[q].id].result
      BY DEF SharedResult
    <3>1. CASE q = p
      BY <1>3, <1>4, <2>4, <3>1
    <3>2. CASE q # p
      <4>1. goroutine'[q] = goroutine[q] /\ goroutine[q].id \in Ids /\ callObjects[goroutine[q].id].done
        BY Zenon, <1>3, <3>2 DEF CoalescingInv, FollowerOK
      <4>2. goroutine[q].id = i => c = callObjects[i]
        BY Zenon, <1>1, <1>4, <4>1 DEF CoalescingInv, LeaderOK
      <4>3. callObjects'[goroutine[q].id] = callObjects[goroutine[q].id]
        BY Zenon, <1>3, <2>4, <4>1, <4>2
      <4> QED  BY Zenon, <4>1, <4>3 DEF CoalescingInv, SharedResult
    <3> QED  BY Zenon, <3>1, <3>2
  <2> QED  BY Zenon, <2>3, <2>5, <2>6, <2>7, <2>8, <2>9, <2>10, <2>11 DEF CoalescingInv
<1>5. ASSUME NEW v \in Values, RunFn(p, v) PROVE CoalescingInv'
  <2> DEFINE c == [callObjects[i] EXCEPT !.result = v]
  <2>1. /\ goroutine[p].pc = "run" /\ calls' = calls
        /\ callObjects' = [callObjects EXCEPT ![i] = c]
        /\ goroutine' = [goroutine EXCEPT ![p] = [goroutine[p] EXCEPT !.pc = "ran", !.ret = Nil]]
    BY Zenon, <1>1, <1>5 DEF RunFn
  <2>2. c \in C /\ c.result # Nil /\ ~c.done
    BY <1>1, <2>1, ResultAssumption DEF Values, CoalescingInv, LeaderOK
  <2> HIDE DEF c, C, P, i, k
  <2> QED  BY Zenon, <1>4, <2>1, <2>2
<1>6. CASE Done(p)
  <2> DEFINE c == [callObjects[i] EXCEPT !.done = TRUE]
  <2>1. /\ goroutine[p].pc = "ran" /\ calls' = calls
        /\ callObjects' = [callObjects EXCEPT ![i] = c]
        /\ goroutine' = [goroutine EXCEPT ![p] = [goroutine[p] EXCEPT !.pc = "done", !.ret = Nil]]
    BY Zenon, <1>1, <1>6 DEF Done
  <2>2. c \in C /\ c.result # Nil /\ c.done
    <3>1. callObjects[i] \in C /\ callObjects[i].result # Nil
      BY <1>1, <2>1 DEF CoalescingInv, LeaderOK
    <3> QED  BY Zenon, <3>1
  <2> HIDE DEF c, C, P, i, k
  <2> QED  BY Zenon, <1>4, <2>1, <2>2
<1>7. CASE Remove(p)
  <2> DEFINE c == callObjects[i]
  <2>1. /\ goroutine[p].pc = "done" /\ calls' = [calls EXCEPT ![k] = Nil]
        /\ callObjects' = [callObjects EXCEPT ![i] = c]
        /\ goroutine' = [goroutine EXCEPT ![p] = [goroutine[p] EXCEPT !.pc = "returned", !.ret = c.result]]
    BY Zenon, <1>1, <1>7 DEF Remove
  <2>2. c = callObjects[i] /\ c \in C /\ c.result # Nil /\ c.done /\ c.result \in Values \cup {Nil}
    BY <1>1, <2>1 DEF CoalescingInv, LeaderOK
  <2> HIDE DEF c, C, P, i, k
  <2> QED  BY Zenon, <1>4, <2>1, <2>2
<1> QED  BY <1>5, <1>6, <1>7

-----------------------------------------------------------------------------
(* The theorems about it.                                                     *)

\* The invariant holds in every reachable state.
THEOREM CoalescingHolds == InflightSpec => []CoalescingInv
<1>1. ASSUME CoalescingInv, UNCHANGED inflightVars PROVE CoalescingInv'
  <2>1. UNCHANGED <<calls, callObjects, goroutine>>
    BY Zenon, <1>1 DEF inflightVars
  <2>2. InflightTypeOK' /\ DoneOK' /\ Distinct'
    BY Zenon, <1>1, <2>1 DEF CoalescingInv, InflightTypeOK, DoneOK, Distinct
  <2>3. LeaderOK' /\ FollowerOK'
    BY Zenon, <1>1, <2>1 DEF CoalescingInv, LeaderOK, FollowerOK, Leading, IdleProc
  <2>4. OneLeader' /\ NoOrphan' /\ SharedResult'
    BY Zenon, <1>1, <2>1 DEF CoalescingInv, OneLeader, NoOrphan, SharedResult, Leading
  <2> QED  BY Zenon, <2>2, <2>3, <2>4 DEF CoalescingInv
<1>2. CoalescingInv /\ InflightNext => CoalescingInv'
  BY RegisterKeeps, FollowerKeeps, LeaderKeeps DEF InflightNext, CallStep
<1> QED  BY <1>1, <1>2, CoalescingInit, PTL DEF InflightSpec

\* At most one goroutine runs fn for a key.
THEOREM OneLeaderHolds == InflightSpec => []OneLeader
<1>1. CoalescingInv => OneLeader
  BY DEF CoalescingInv
<1> QED  BY <1>1, CoalescingHolds, PTL

\* Every caller returns the result of the call it registered or joined.
THEOREM ResultIsShared == InflightSpec => []SharedResult
<1>1. CoalescingInv => SharedResult
  BY DEF CoalescingInv
<1> QED  BY <1>1, CoalescingHolds, PTL

\* A key is registered only while a goroutine is inside do to unregister it.
THEOREM NothingOrphaned == InflightSpec => []NoOrphan
<1>1. CoalescingInv => NoOrphan
  BY DEF CoalescingInv
<1> QED  BY <1>1, CoalescingHolds, PTL

\* The abstract outcome of a call, and the abstract state of a caller.
Published(i) == IF callObjects[i].done THEN callObjects[i].result ELSE Nil
Seen(p) ==
    [state |-> IF goroutine[p].pc = "idle" THEN "idle" ELSE IF goroutine[p].pc = "returned" THEN "answered" ELSE "asked",
     id |-> goroutine[p].id, got |-> goroutine[p].ret]

\* do implements the coalescer: registering starts a computation, wg.Done
\* publishes its outcome, deleting the key forgets it and answers the leader.
THEOREM Refinement == InflightSpec => Coalesces
<1> DEFINE out == [i \in Ids |-> Published(i)]
           clr == [p \in Callers |-> Seen(p)]
<1>1. InflightInit => Abs!AInit
  BY DEF InflightInit, Abs!AInit, Abs!IdleCaller, IdleProc
<1>2. ASSUME CoalescingInv, [InflightNext]_inflightVars PROVE [Abs!ANext]_(Abs!avars)
  <2>0. /\ InflightTypeOK
        /\ \A i \in Ids : Published(i)' = IF callObjects'[i].done THEN callObjects'[i].result ELSE Nil
    BY <1>2 DEF CoalescingInv, Published
  <2>1. CASE UNCHANGED inflightVars
    BY <2>1 DEF inflightVars, Abs!avars
  <2>2. ASSUME NEW p \in Callers, NEW k \in Keys, NEW i \in Ids, Register(p, k, i) PROVE Abs!Start(p, k, i)
    <3>1. /\ goroutine[p].pc = "idle" /\ calls[k] = Nil /\ Unused(i)
          /\ calls' = [calls EXCEPT ![k] = i] /\ callObjects' = [callObjects EXCEPT ![i] = NewCall]
          /\ goroutine' = [goroutine EXCEPT ![p] = [pc |-> "run", key |-> k, id |-> i, ret |-> Nil]]
      BY <2>2 DEF Register
    <3>2. out' = [out EXCEPT ![i] = Nil]
      BY Zenon, <2>0, <3>1 DEF InflightTypeOK, Published, NewCall
    <3>3. clr' = [clr EXCEPT ![p] = [state |-> "asked", id |-> i, got |-> Nil]]
      BY Zenon, <2>0, <3>1 DEF InflightTypeOK, Seen
    <3>4. clr[p].state = "idle" /\ (\A l \in Keys : calls[l] # i) /\ (\A q \in Callers : clr[q].id # i)
      BY Zenon, <3>1 DEF Seen, Unused
    <3> QED  BY Zenon, <3>1, <3>2, <3>3, <3>4 DEF Abs!Start, Abs!Unused, Published, Seen
  <2>3. ASSUME NEW p \in Callers, NEW k \in Keys, Join(p, k) PROVE Abs!Attach(p, k)
    <3>1. /\ goroutine[p].pc = "idle" /\ calls[k] # Nil /\ UNCHANGED <<calls, callObjects>>
          /\ goroutine' = [goroutine EXCEPT ![p] = [pc |-> "wait", key |-> k, id |-> calls[k], ret |-> Nil]]
      BY Zenon, <2>3 DEF Join
    <3>2. out' = out
      BY <3>1 DEF Published
    <3>3. clr' = [clr EXCEPT ![p] = [state |-> "asked", id |-> calls[k], got |-> Nil]] /\ clr[p].state = "idle"
      BY Zenon, <2>0, <3>1 DEF InflightTypeOK, Seen
    <3> QED  BY Zenon, <3>1, <3>2, <3>3 DEF Abs!Attach, Published, Seen
  <2>4. ASSUME NEW p \in Callers, NEW v \in Values, RunFn(p, v) PROVE UNCHANGED Abs!avars
    <3>1. /\ goroutine[p].pc = "run" /\ UNCHANGED calls
          /\ callObjects' = [callObjects EXCEPT ![goroutine[p].id].result = v]
          /\ goroutine' = [goroutine EXCEPT ![p].pc = "ran"]
      BY Zenon, <2>4 DEF RunFn
    <3>2. goroutine[p].id \in Ids /\ ~callObjects[goroutine[p].id].done
      BY <1>2, <3>1 DEF CoalescingInv, LeaderOK, Leading
    <3>3. out' = out
      BY <2>0, <3>1, <3>2 DEF InflightTypeOK, Published
    <3>4. clr' = clr
      BY <2>0, <3>1 DEF InflightTypeOK, Seen
    <3> QED  BY Zenon, <3>1, <3>3, <3>4 DEF Abs!avars, Published, Seen
  <2>5. ASSUME NEW p \in Callers, Done(p) PROVE \E k \in Keys, v \in Values : Abs!Publish(k, v)
    <3>1. /\ goroutine[p].pc = "ran" /\ UNCHANGED calls
          /\ callObjects' = [callObjects EXCEPT ![goroutine[p].id].done = TRUE]
          /\ goroutine' = [goroutine EXCEPT ![p].pc = "done"]
      BY Zenon, <2>5 DEF Done
    <3> DEFINE k == goroutine[p].key
               v == callObjects[goroutine[p].id].result
    <3>2. /\ k \in Keys /\ goroutine[p].id \in Ids /\ calls[k] = goroutine[p].id
          /\ ~callObjects[goroutine[p].id].done /\ v # Nil
      BY Zenon, <1>2, <3>1 DEF CoalescingInv, LeaderOK, Leading
    <3>3. v \in Values /\ calls[k] # Nil
      BY Zenon, <2>0, <3>2, ResultAssumption DEF InflightTypeOK
    <3>4. out' = [out EXCEPT ![calls[k]] = v] /\ out[calls[k]] = Nil
      BY Zenon, <2>0, <3>1, <3>2 DEF InflightTypeOK, Published
    <3>5. clr' = clr
      BY Zenon, <2>0, <3>1 DEF InflightTypeOK, Seen
    <3>6. Abs!Publish(k, v)
      BY Zenon, <3>1, <3>3, <3>4, <3>5 DEF Abs!Publish, Published, Seen
    <3> QED  BY <3>2, <3>3, <3>6, Zenon DEF Abs!Publish
  <2>6. ASSUME NEW p \in Callers, NEW r, r = callObjects[goroutine[p].id].result,
               goroutine[p].pc \in {"done", "wait"}, goroutine[p].id \in Ids, callObjects[goroutine[p].id].done,
               goroutine' = [goroutine EXCEPT ![p].pc = "returned", ![p].ret = r]
        PROVE  Abs!AnswerCaller(p)
    <3>1. clr[p].state = "asked" /\ clr[p].id = goroutine[p].id
      BY Zenon, <2>6 DEF Seen
    <3>2. out[goroutine[p].id] = r /\ r # Nil
      BY Zenon, <1>2, <2>6 DEF Published, CoalescingInv, DoneOK
    <3>3. /\ \A q \in Callers : q # p => goroutine'[q] = goroutine[q]
          /\ goroutine'[p].pc = "returned" /\ goroutine'[p].id = goroutine[p].id /\ goroutine'[p].ret = r
      BY Zenon, <2>0, <2>6 DEF InflightTypeOK
    <3>4. \A q \in Callers : q # p => Seen(q)' = Seen(q)
      BY Zenon, <3>3 DEF Seen
    <3>5. Seen(p)' = [state |-> "answered", id |-> goroutine[p].id, got |-> r]
      BY <3>3 DEF Seen
    <3>6. clr' = [clr EXCEPT ![p] = [state |-> "answered", id |-> goroutine[p].id, got |-> r]]
      BY Zenon, <3>4, <3>5
    <3>7. clr' = [clr EXCEPT ![p] = [state |-> "answered", id |-> clr[p].id, got |-> out[clr[p].id]]]
      BY Zenon, <3>1, <3>2, <3>6
    <3>8. out[clr[p].id] # Nil
      BY Zenon, <3>1, <3>2
    <3> QED  BY Zenon, <3>1, <3>7, <3>8 DEF Abs!AnswerCaller, Published, Seen
  <2>7. ASSUME NEW p \in Callers, Remove(p)
        PROVE  \E k \in Keys : Abs!Forget(k) /\ Abs!AnswerCaller(p) /\ out' = out
    <3>1. /\ goroutine[p].pc = "done" /\ UNCHANGED callObjects
          /\ calls' = [calls EXCEPT ![goroutine[p].key] = Nil]
          /\ goroutine' = [goroutine EXCEPT ![p].pc = "returned", ![p].ret = callObjects[goroutine[p].id].result]
      BY Zenon, <2>7 DEF Remove
    <3>2. /\ goroutine[p].key \in Keys /\ goroutine[p].id \in Ids /\ calls[goroutine[p].key] = goroutine[p].id
          /\ callObjects[goroutine[p].id].done /\ callObjects[goroutine[p].id].result # Nil /\ goroutine[p].id # Nil
      BY Zenon, <1>2, <3>1, ResultAssumption DEF CoalescingInv, LeaderOK, Leading
    <3>3. Abs!AnswerCaller(p)
      BY Zenon, <2>6, <3>1, <3>2
    <3>4. out' = out
      BY <3>1 DEF Published
    <3>5. Abs!Forget(goroutine[p].key)
      BY <3>1, <3>2 DEF Abs!Forget
    <3> QED  BY Zenon, <3>2, <3>3, <3>4, <3>5
  <2>8. ASSUME NEW p \in Callers, Wake(p) PROVE Abs!AnswerCaller(p) /\ UNCHANGED calls /\ out' = out
    <3>1. /\ goroutine[p].pc = "wait" /\ callObjects[goroutine[p].id].done /\ UNCHANGED <<calls, callObjects>>
          /\ goroutine' = [goroutine EXCEPT ![p].pc = "returned", ![p].ret = callObjects[goroutine[p].id].result]
      BY <2>8 DEF Wake
    <3>2. goroutine[p].id \in Ids
      BY <1>2, <3>1 DEF CoalescingInv, FollowerOK
    <3>3. Abs!AnswerCaller(p)
      BY Zenon, <2>6, <3>1, <3>2
    <3> QED  BY <3>1, <3>3 DEF Published
  <2>9. ASSUME NEW p \in Callers, Leave(p) PROVE Abs!Leave(p)
    <3>1. goroutine[p].pc = "returned" /\ UNCHANGED <<calls, callObjects>> /\ goroutine' = [goroutine EXCEPT ![p] = IdleProc]
      BY <2>9 DEF Leave
    <3>2. clr' = [clr EXCEPT ![p] = Abs!IdleCaller] /\ clr[p].state = "answered"
      BY Zenon, <2>0, <3>1 DEF InflightTypeOK, Seen, Abs!IdleCaller, IdleProc
    <3>3. out' = out
      BY Zenon, <3>1 DEF Published
    <3> QED  BY Zenon, <3>1, <3>2, <3>3 DEF Abs!Leave, Published, Seen
  <2>10. CASE InflightNext
    <3>1. ASSUME NEW p \in Callers, NEW k \in Keys, Join(p, k) \/ \E i \in Ids : Register(p, k, i) PROVE Abs!ANext
      BY Zenon, <2>2, <2>3, <3>1 DEF Abs!ANext
    <3>2. ASSUME NEW p \in Callers, Remove(p) PROVE Abs!ANext
      BY Zenon, <2>7, <3>2 DEF Abs!ANext, Published
    <3>3. ASSUME NEW p \in Callers, Wake(p) PROVE Abs!ANext
      BY Zenon, <2>8, <3>3 DEF Abs!ANext, Published
    <3>4. ASSUME NEW p \in Callers, Done(p) PROVE Abs!ANext
      BY Zenon, <2>5, <3>4 DEF Abs!ANext
    <3>5. ASSUME NEW p \in Callers, Leave(p) PROVE Abs!ANext
      BY Zenon, <2>9, <3>5 DEF Abs!ANext
    <3> QED  BY Zenon, <2>4, <2>10, <3>1, <3>2, <3>3, <3>4, <3>5 DEF InflightNext, CallStep
  <2> QED  BY <1>2, <2>1, <2>10
<1> QED  BY <1>1, <1>2, CoalescingHolds, PTL DEF InflightSpec, Coalesces, Abs!ASpec

-----------------------------------------------------------------------------
(* The cache.                                                                 *)

\* A lookup past its first step has a name; past a successful read, an entry.
LookupOK ==
    \A g \in Getters :
        /\ getter[g].pc # "idle" => getter[g].name \in Names /\ getter[g].cursor \in Names
        /\ getter[g].pc \in {"check", "delete"} => getter[g].held \in Entry

\* A heap holds items of its own shard only.
HeapLocal == \A s \in Shards : \A i \in evictQ[s] : shardIndex(i.key) = s

\* A sweep does not start in the future.
SweepPast == sweeper.now <= now

\* The inductive invariant: WithinLimit needs that an eviction removes an entry
\* of the overflowing shard (HeapLocal), and HeapCovers that a sweep pops only
\* items of expired entries (SweepPast).
IInv == TypeOK /\ LookupOK /\ HeapCovers /\ HeapLocal /\ SweepPast /\ WithinLimit

-----------------------------------------------------------------------------
(* Lemmas about the operators.                                                *)

\* The remaining TTL of an entry is a number, zero exactly once it has expired.
LEMMA RemainingTTLFacts ==
    ASSUME NEW e \in Entry, now \in Nat
    PROVE  RemainingTTL(e) \in Nat /\ (RemainingTTL(e) = 0 <=> expiresAt(e) <= now)
BY DEF RemainingTTL, expiresAt, Entry

\* The TTLs under which entries are stored are numbers.
LEMMA ClampType ==
    ASSUME NEW t \in Nat
    PROVE  clampTTL(t) \in Nat /\ clampNegativeTTL(t) \in Nat /\ clampFailureTTL(t) \in Nat
BY TTLAssumption DEF clampTTL, clampNegativeTTL, clampFailureTTL

\* The keys of a shard form a finite set.
LEMMA InShardFinite ==
    ASSUME NEW ents, NEW s
    PROVE  IsFiniteSet(InShard(ents, s)) /\ Cardinality(InShard(ents, s)) \in Nat
<1>1. InShard(ents, s) \subseteq cacheKey
  BY DEF InShard
<1> QED  BY <1>1, FiniteAssumption, FS_Subset, FS_CardinalityType

\* The limit of a shard is an integer.
LEMMA LimitType == Limit \in Int
BY ShardAssumption, BoundAssumption DEF Limit

\* Fewer keys keep a shard within its limit.
LEMMA SubsetLimit ==
    ASSUME NEW ents, NEW ents2, NEW s,
           InShard(ents2, s) \subseteq InShard(ents, s),
           Cardinality(InShard(ents, s)) <= Limit
    PROVE  Cardinality(InShard(ents2, s)) <= Limit
<1>1. Cardinality(InShard(ents2, s)) <= Cardinality(InShard(ents, s))
  BY InShardFinite, FS_Subset
<1> QED  BY <1>1, InShardFinite, LimitType

\* One more key adds at most one to the size of a shard.
LEMMA AddOne ==
    ASSUME NEW S, IsFiniteSet(S), NEW x
    PROVE  /\ IsFiniteSet(S \cup {x})
           /\ Cardinality(S) \in Nat /\ Cardinality(S \cup {x}) \in Nat
           /\ Cardinality(S \cup {x}) <= Cardinality(S) + 1
           /\ x \notin S => Cardinality(S \cup {x}) = Cardinality(S) + 1
<1>1. Cardinality(S) \in Nat
  BY FS_CardinalityType
<1>2. /\ IsFiniteSet(S \cup {x})
      /\ Cardinality(S \cup {x}) = IF x \in S THEN Cardinality(S) ELSE Cardinality(S) + 1
  BY FS_AddElement
<1> QED  BY <1>1, <1>2

\* The key an insertion evicts is a key of the overflowing shard, and its entry
\* expires no later than any entry with an item in the heap.
LEMMA EvictionKeyFacts ==
    ASSUME NEW ents, NEW s \in Shards, NEW q \in SUBSET Entry,
           \A i \in q : shardIndex(i.key) = s,
           NEW e \in Current(ents, q),
           NEW v \in nextEvictionKeys(ents, q, s)
    PROVE  /\ v \in InShard(ents, s)
           /\ ents[v] \in q
           /\ \A i \in Current(ents, q) : expiresAt(ents[v]) <= expiresAt(i)
<1>1. PICK j \in Current(ents, q) :
         /\ v = j.key
         /\ \A o \in Current(ents, q) : expiresAt(j) <= expiresAt(o)
  BY DEF nextEvictionKeys
<1>2. j \in q /\ ents[v] = j
  BY <1>1 DEF Current
<1>3. j \in Entry /\ v \in cacheKey /\ j # NoEntry
  BY <1>1, <1>2, NilAssumption DEF Entry
<1> QED  BY <1>1, <1>2, <1>3 DEF InShard

\* Every operation but an insertion only removes entries from the map, and the
\* heap keeps the items of those that stay.
LEMMA RemovalKeepsInvariant ==
    ASSUME IInv, TypeOK', LookupOK', SweepPast',
           \A k \in cacheKey : entries'[k] = NoEntry \/ entries'[k] = entries[k],
           \A s \in Shards : evictQ'[s] \subseteq evictQ[s],
           \A k \in cacheKey : entries'[k] # NoEntry => entries[k] \in evictQ'[shardIndex(k)]
    PROVE  IInv'
<1>1. HeapCovers'
  BY DEF IInv, HeapCovers, shardIndex
<1>2. HeapLocal'
  BY DEF IInv, HeapLocal, shardIndex
<1>3. WithinLimit'
  <2>1. ASSUME NEW s \in Shards PROVE InShard(entries', s) \subseteq InShard(entries, s)
    BY DEF InShard
  <2> QED  BY <2>1, SubsetLimit DEF IInv, WithinLimit
<1> QED  BY <1>1, <1>2, <1>3 DEF IInv

\* Inserting an entry keeps the invariant: the capacity is restored by evicting
\* an entry of the same shard.
LEMMA InsertKeepsInvariant ==
    ASSUME IInv, NEW k \in cacheKey, NEW kind \in NegativeType, NEW ttl \in Nat, NEW at \in Nat,
           insert(k, kind, ttl, at)
    PROVE  IInv'
<1> DEFINE e    == [id |-> nextId, key |-> k, kind |-> kind, at |-> at, ttl |-> ttl]
           s    == shardIndex(k)
           ents == [entries EXCEPT ![k] = e]
           q    == evictQ[s] \cup {e}
<1>1. /\ nextId \in Nat /\ nextId' = nextId + 1
      /\ entries \in [cacheKey -> Entry \cup {NoEntry}]
      /\ evictQ \in [Shards -> SUBSET Entry]
      /\ UNCHANGED <<now, prefetched, getter, sweeper, flusher>>
  BY DEF IInv, TypeOK, insert
<1>2. e \in Entry /\ e # NoEntry /\ e.key = k
  BY <1>1, NilAssumption DEF Entry
<1>3. s \in Shards
  BY ShardAssumption DEF shardIndex, Shards, cacheKey
<1>4. ents \in [cacheKey -> Entry \cup {NoEntry}] /\ q \in SUBSET Entry /\ ents[k] = e
  BY Zenon, <1>1, <1>2, <1>3
<1>5. \A i \in q : shardIndex(i.key) = s
  BY <1>2, <1>3 DEF IInv, HeapLocal
<1>6. \A l \in cacheKey : ents[l] # NoEntry =>
          ents[l].key = l /\ ents[l] \in (IF shardIndex(l) = s THEN q ELSE evictQ[shardIndex(l)])
  BY Zenon, <1>1, <1>2, <1>4 DEF IInv, HeapCovers
<1>7. e \in Current(ents, q)
  BY <1>2, <1>4 DEF Current
<1>8. LookupOK' /\ SweepPast'
  BY <1>1 DEF IInv, LookupOK, SweepPast
<1>9. CASE ~OverLimit(ents, s)
  <2>1. entries' = ents /\ evictQ' = [evictQ EXCEPT ![s] = q]
    BY Zenon, <1>9 DEF insert
  <2>2. TypeOK'
    <3> HIDE DEF e, s, ents, q
    <3>1. nextId' \in Nat
      BY <1>1
    <3>2. evictQ' \in [Shards -> SUBSET Entry]
      BY <1>1, <1>3, <1>4, <2>1
    <3> QED BY Zenon, <1>1, <1>4, <2>1, <3>1, <3>2 DEF IInv, TypeOK
  <2>3. HeapCovers'
    <3>1. \A l \in cacheKey : shardIndex(l) \in Shards
      BY ShardAssumption DEF shardIndex, Shards, cacheKey
    <3> HIDE DEF e, s, ents, q
    <3>2. \A t \in Shards : evictQ'[t] = IF t = s THEN q ELSE evictQ[t]
      BY Zenon, <1>1, <1>3, <2>1
    <3> QED BY Zenon, <1>6, <2>1, <3>1, <3>2 DEF HeapCovers
  <2>4. HeapLocal'
    BY <1>1, <1>3, <1>5, <2>1 DEF IInv, HeapLocal, shardIndex
  <2>5. WithinLimit'
    <3> SUFFICES ASSUME MaxEntries > 0, NEW r \in Shards
                 PROVE  Cardinality(InShard(ents, r)) <= Limit
      BY Zenon, <2>1 DEF WithinLimit
    <3>1. CASE r = s
      BY <1>9, <3>1, InShardFinite, LimitType DEF OverLimit
    <3>2. CASE r # s
      <4>1. InShard(ents, r) \subseteq InShard(entries, r)
        BY ZenonT(40), <1>1, <3>2 DEF InShard
      <4> QED  BY Zenon, <4>1, SubsetLimit DEF IInv, WithinLimit
    <3> QED  BY <3>1, <3>2
  <2> QED  BY Zenon, <1>8, <2>2, <2>3, <2>4, <2>5 DEF IInv
<1>10. CASE OverLimit(ents, s)
  <2>1. PICK v \in nextEvictionKeys(ents, q, s) :
           /\ entries' = [ents EXCEPT ![v] = NoEntry]
           /\ evictQ' = [evictQ EXCEPT ![s] = PoppedUpTo(ents, q, ents[v])]
    BY <1>10, ZenonT(60) DEF insert
  <2>2. /\ v \in InShard(ents, s)
        /\ ents[v] \in q
        /\ \A i \in Current(ents, q) : expiresAt(ents[v]) <= expiresAt(i)
    <3> HIDE DEF e, s, ents, q
    <3> QED  BY Zenon, <1>3, <1>4, <1>5, <1>7, EvictionKeyFacts
  <2>3. v \in cacheKey
    BY Zenon, <2>2 DEF InShard
  <2>4. PoppedUpTo(ents, q, ents[v]) \subseteq q
    BY Zenon DEF PoppedUpTo
  <2>5. TypeOK'
    <3>1. entries' \in [cacheKey -> Entry \cup {NoEntry}]
      BY Zenon, <1>4, <2>1
    <3>2. PoppedUpTo(ents, q, ents[v]) \in SUBSET Entry
      BY Zenon, <1>4, <2>4
    <3>3. evictQ' \in [Shards -> SUBSET Entry]
      BY Zenon, <1>1, <2>1, <3>2
    <3> QED  BY <1>1, <3>1, <3>3 DEF IInv, TypeOK
  <2>6. HeapLocal'
    BY Zenon, <1>1, <1>3, <1>5, <2>1, <2>4 DEF IInv, HeapLocal, shardIndex
  <2>7. HeapCovers'
    <3> SUFFICES ASSUME NEW l \in cacheKey, entries'[l] # NoEntry
                 PROVE  entries'[l].key = l /\ entries'[l] \in evictQ'[shardIndex(l)]
      BY Zenon DEF HeapCovers, shardIndex
    <3>1. l # v /\ entries'[l] = ents[l]
      BY Zenon, <1>4, <2>1, <2>3
    <3>2. shardIndex(l) \in Shards
      BY Zenon, ShardAssumption DEF shardIndex, Shards, cacheKey
    <3>3. CASE shardIndex(l) # s
      BY Zenon, <1>1, <1>6, <2>1, <3>1, <3>2, <3>3
    <3>4. CASE shardIndex(l) = s
      <4>1. ents[l] \in q /\ ents[l].key = l
        BY Zenon, <1>6, <3>1, <3>4
      <4>2. ents[v].key = v
        BY Zenon, <1>6, <2>2, <2>3 DEF InShard
      <4>3. ents[l] \in Current(ents, q) /\ ents[l] # ents[v]
        BY Zenon, <3>1, <4>1, <4>2 DEF Current
      <4>4. ents[l] \in PoppedUpTo(ents, q, ents[v])
        BY Zenon, <4>1, <4>3 DEF PoppedUpTo
      <4> QED  BY Zenon, <1>1, <1>3, <2>1, <3>1, <3>4, <4>1, <4>4
    <3> QED  BY Zenon, <3>3, <3>4
  <2>8. WithinLimit'
    <3> SUFFICES ASSUME MaxEntries > 0, NEW r \in Shards
                 PROVE  Cardinality(InShard(entries', r)) <= Limit
      BY DEF WithinLimit
    <3>1. Cardinality(InShard(entries, r)) <= Limit
      BY Zenon DEF IInv, WithinLimit
    <3>2. CASE r # s
      <4>1. InShard(entries', r) \subseteq InShard(entries, r)
        BY ZenonT(40), <1>1, <1>4, <2>1, <2>3, <3>2 DEF InShard
      <4> QED  BY Zenon, <3>1, <4>1, SubsetLimit
    <3>3. CASE r = s
      <4>1. InShard(entries', s) \cup {v} \subseteq InShard(entries, s) \cup {k}
        BY Zenon, <1>1, <1>4, <2>1, <2>2 DEF InShard
      <4>2. v \notin InShard(entries', s)
        BY Zenon, <1>4, <2>1, <2>3 DEF InShard
      <4>3. /\ IsFiniteSet(InShard(entries, s)) /\ IsFiniteSet(InShard(entries', s))
            /\ Cardinality(InShard(entries, s)) \in Nat /\ Cardinality(InShard(entries', s)) \in Nat
        BY Zenon, InShardFinite
      <4>4. /\ IsFiniteSet(InShard(entries, s) \cup {k})
            /\ Cardinality(InShard(entries, s) \cup {k}) <= Cardinality(InShard(entries, s)) + 1
        BY Zenon, <4>3, AddOne
      <4>5. Cardinality(InShard(entries', s) \cup {v}) = Cardinality(InShard(entries', s)) + 1
        BY Zenon, <4>2, <4>3, AddOne
      <4>6. Cardinality(InShard(entries', s) \cup {v}) <= Cardinality(InShard(entries, s) \cup {k})
        BY Zenon, <4>1, <4>4, FS_Subset
      <4>7. Cardinality(InShard(entries, s) \cup {k}) \in Nat
        BY Zenon, <4>3, AddOne
      <4> QED  BY <3>1, <3>3, <4>3, <4>4, <4>5, <4>6, <4>7, LimitType
    <3> QED  BY ZenonT(40), <3>2, <3>3
  <2> QED  BY <1>8, <2>5, <2>6, <2>7, <2>8 DEF IInv
<1> QED  BY Zenon, <1>9, <1>10

\* A step that changes one lookup's record only keeps the invariant, provided
\* the record keeps its type and what LookupOK says of it.
LEMMA LookupStepKeepsInvariant ==
    ASSUME IInv, NEW g \in Getters, NEW c \in Getter,
           getter' = [getter EXCEPT ![g] = c],
           c.pc # "idle" => c.name \in Names /\ c.cursor \in Names,
           c.pc \in {"check", "delete"} => c.held \in Entry,
           prefetched' \in SUBSET Nat,
           UNCHANGED <<entries, evictQ, now, nextId, sweeper, flusher>>
    PROVE  IInv'
<1>1. TypeOK'
  BY DEF IInv, TypeOK
<1>2. LookupOK'
  BY Zenon DEF IInv, TypeOK, LookupOK
<1>3. SweepPast' /\ HeapCovers' /\ HeapLocal' /\ WithinLimit'
  BY DEF IInv, SweepPast, HeapCovers, HeapLocal, WithinLimit, InShard, shardIndex
<1> QED  BY <1>1, <1>2, <1>3 DEF IInv

\* The initial state satisfies the invariant.
LEMMA InitInvariant == Init => IInv
<1> SUFFICES ASSUME Init PROVE IInv
  OBVIOUS
<1>1. TypeOK
  <2>1. IdleGetter \in Getter
    BY Zenon DEF IdleGetter, Getter
  <2> QED  BY <2>1, ShardAssumption DEF Init, TypeOK, Idle
<1>2. LookupOK /\ HeapCovers /\ HeapLocal /\ SweepPast
  BY DEF Init, LookupOK, HeapCovers, HeapLocal, SweepPast, IdleGetter
<1>3. WithinLimit
  <2> SUFFICES ASSUME MaxEntries > 0, NEW s \in Shards PROVE Cardinality(InShard(entries, s)) <= Limit
    BY DEF WithinLimit
  <2>1. InShard(entries, s) = {}
    BY DEF Init, InShard
  <2>2. MaxEntries \div ShardCount \in Nat
    BY ShardAssumption, BoundAssumption
  <2> QED  BY <2>1, <2>2, FS_EmptySet DEF Limit
<1> QED  BY <1>1, <1>2, <1>3 DEF IInv

\* A lookup keeps the invariant: it changes its own record, and deletes at most
\* one key from the map.
LEMMA LookupKeepsInvariant ==
    ASSUME IInv, NEW g \in Getters,
           GetStep(g) \/ Return(g) \/ \E n \in Names, t \in QTypes : Call(g, n, t)
    PROVE  IInv'
<1> DEFINE c == getter[g]
<1>1. /\ getter \in [Getters -> Getter] /\ c \in Getter
      /\ entries \in [cacheKey -> Entry \cup {NoEntry}]
      /\ now \in Nat /\ prefetched \in SUBSET Nat
      /\ c.pc # "idle" => c.name \in Names /\ c.cursor \in Names
      /\ c.pc \in {"check", "delete"} => c.held \in Entry
  BY DEF IInv, TypeOK, LookupOK
<1>2. ASSUME NEW op \in {"get", "lookup", "stale"}, NEW k \in cacheKey, Begin(g, op, k)
      PROVE  IInv'
  <2> DEFINE d == [pc |-> IF entries[k] # NoEntry THEN "check" ELSE IF op = "get" THEN "nx" ELSE "done",
                   op |-> op, name |-> k.name, qtype |-> k.qtype,
                   cursor |-> k.name, held |-> entries[k], ttl |-> 0]
  <2>1. d \in Getter /\ d.name \in Names /\ d.cursor \in Names /\ (d.pc \in {"check", "delete"} => d.held \in Entry)
    BY Zenon, <1>1 DEF Getter, cacheKey
  <2>2. /\ getter' = [getter EXCEPT ![g] = d]
        /\ prefetched' \in SUBSET Nat
        /\ UNCHANGED <<entries, evictQ, now, nextId, sweeper, flusher>>
    BY <1>1, <1>2 DEF Begin
  <2> HIDE DEF d
  <2> QED  BY Zenon, <2>1, <2>2, LookupStepKeepsInvariant
<1>3. ASSUME NEW n \in Names, NEW t \in QTypes, Call(g, n, t) PROVE IInv'
  <2>1. key(n, t) \in cacheKey
    BY DEF key, cacheKey
  <2>2. \A ecs \in ECSPrefixes : [name |-> n, qtype |-> t, ecs |-> ecs] \in cacheKey
    BY DEF cacheKey
  <2> QED  BY Zenon, <1>2, <1>3, <2>1, <2>2 DEF Call, Get, Lookup, GetWithECS, GetStale
<1>4. CASE Return(g)
  <2>1. IdleGetter \in Getter /\ IdleGetter.pc = "idle"
    BY Zenon DEF IdleGetter, Getter
  <2>2. /\ getter' = [getter EXCEPT ![g] = IdleGetter]
        /\ prefetched' \in SUBSET Nat
        /\ UNCHANGED <<entries, evictQ, now, nextId, sweeper, flusher>>
    BY <1>1, <1>4 DEF Return
  <2> QED  BY Zenon, <2>1, <2>2, LookupStepKeepsInvariant
\* What the steps of a call do to its record: a new place, entry, TTL or cursor.
<1> DEFINE Moved(pc, e, ttl, cur) ==
              [getter EXCEPT ![g] = [c EXCEPT !.pc = pc, !.held = e, !.ttl = ttl, !.cursor = cur]]
<1>5. ASSUME NEW pc \in {"nx", "walk", "check", "delete", "done"}, NEW e \in Entry \cup {NoEntry},
             NEW ttl \in Nat, NEW cur \in Names, c.pc # "idle",
             pc \in {"check", "delete"} => e \in Entry,
             getter' = Moved(pc, e, ttl, cur),
             prefetched' \in SUBSET Nat,
             UNCHANGED <<entries, evictQ, now, nextId, sweeper, flusher>>
      PROVE  IInv'
  <2> DEFINE d == [c EXCEPT !.pc = pc, !.held = e, !.ttl = ttl, !.cursor = cur]
  <2>1. d \in Getter /\ d.name \in Names /\ d.cursor \in Names /\ (d.pc \in {"check", "delete"} => d.held \in Entry)
    BY Zenon, <1>1, <1>5 DEF Getter
  <2>2. getter' = [getter EXCEPT ![g] = d]
    BY <1>5
  <2> HIDE DEF d, Moved
  <2> QED  BY Zenon, <1>5, <2>1, <2>2, LookupStepKeepsInvariant
<1>6. ASSUME NEW e, NEW ttl PROVE Answer(g, e, ttl) = Moved("done", e, ttl, c.cursor)
  BY Zenon, <1>1 DEF Answer, Getter
<1>7. c.ttl \in Nat /\ c.held \in Entry \cup {NoEntry} /\ c.pc \in {"idle", "nx", "walk", "check", "delete", "done"}
  BY <1>1 DEF Getter
<1>8. CASE GetNX(g)
  <2> DEFINE e == entries[key(c.name, NXType)]
  <2>1. c.pc = "nx" /\ UNCHANGED <<entries, evictQ, now, nextId, prefetched, sweeper, flusher>>
    BY <1>8 DEF GetNX
  <2>2. e \in Entry \cup {NoEntry}
    BY Zenon, <1>1, <2>1 DEF key, cacheKey
  <2>3. \/ e # NoEntry /\ getter' = [getter EXCEPT ![g].pc = "check", ![g].held = e]
        \/ getter' = [getter EXCEPT ![g].pc = "walk"]
        \/ getter' = Answer(g, NoEntry, 0)
    BY <1>8 DEF GetNX
  <2>4. /\ [getter EXCEPT ![g].pc = "check", ![g].held = e] = Moved("check", e, c.ttl, c.cursor)
        /\ [getter EXCEPT ![g].pc = "walk"] = Moved("walk", c.held, c.ttl, c.cursor)
    BY Zenon, <1>1 DEF Getter
  <2>5. Answer(g, NoEntry, 0) = Moved("done", NoEntry, 0, c.cursor)
    BY Zenon, <1>6
  <2> HIDE DEF e, c, Moved
  <2>6. CASE e # NoEntry /\ getter' = Moved("check", e, c.ttl, c.cursor)
    BY Zenon, <1>1, <1>5, <1>7, <2>1, <2>2, <2>6
  <2>7. CASE getter' = Moved("walk", c.held, c.ttl, c.cursor)
    BY Zenon, <1>1, <1>5, <1>7, <2>1, <2>7
  <2>8. CASE getter' = Moved("done", NoEntry, 0, c.cursor)
    BY Zenon, <1>1, <1>5, <2>1, <2>8
  <2> QED  BY Zenon, <2>3, <2>4, <2>5, <2>6, <2>7, <2>8
<1>9. CASE checkParentNXDomain(g)
  <2> DEFINE p == Parent[c.cursor]
             e == entries[key(p, NXType)]
  <2>1. c.pc = "walk" /\ UNCHANGED <<entries, evictQ, now, nextId, prefetched, sweeper, flusher>>
    BY Zenon, <1>9 DEF checkParentNXDomain
  <2>2. p \in Names \cup {NoName}
    BY <1>1, <2>1, KeyAssumption
  <2>3. p \in Names => e \in Entry \cup {NoEntry}
    BY Zenon, <1>1 DEF key, cacheKey
  <2>4. \/ getter' = Answer(g, NoEntry, 0)
        \/ p \in Names /\ e # NoEntry /\ getter' = Answer(g, e, RemainingTTL(e))
        \/ p \in Names /\ getter' = [getter EXCEPT ![g].cursor = p]
    BY ZenonT(40), <1>9, <2>2 DEF checkParentNXDomain
  <2>5. p \in Names /\ e # NoEntry => RemainingTTL(e) \in Nat
    BY <1>1, <2>3, RemainingTTLFacts
  <2>6. [getter EXCEPT ![g].cursor = p] = Moved(c.pc, c.held, c.ttl, p)
    BY Zenon, <1>1 DEF Getter
  <2>7. /\ Answer(g, NoEntry, 0) = Moved("done", NoEntry, 0, c.cursor)
        /\ Answer(g, e, RemainingTTL(e)) = Moved("done", e, RemainingTTL(e), c.cursor)
    BY Zenon, <1>6
  <2> HIDE DEF e, p, c, Moved
  <2>8. CASE getter' = Moved("done", NoEntry, 0, c.cursor)
    BY Zenon, <1>1, <1>5, <2>1, <2>8
  <2>9. CASE p \in Names /\ e # NoEntry /\ getter' = Moved("done", e, RemainingTTL(e), c.cursor)
    BY Zenon, <1>1, <1>5, <2>1, <2>3, <2>5, <2>9
  <2>10. CASE p \in Names /\ getter' = Moved(c.pc, c.held, c.ttl, p)
    BY Zenon, <1>1, <1>5, <1>7, <2>1, <2>10
  <2> QED  BY Zenon, <2>4, <2>6, <2>7, <2>8, <2>9, <2>10
<1>10. CASE GetLive(g)
  <2>1. c.pc = "check" /\ UNCHANGED <<entries, evictQ, now, nextId, sweeper, flusher>>
    BY Zenon, <1>10 DEF GetLive
  <2>2. c.held \in Entry /\ c.held.id \in Nat /\ RemainingTTL(c.held) \in Nat
    BY <1>1, <2>1, RemainingTTLFacts DEF Entry
  <2>3. prefetched' \in SUBSET Nat
    BY Zenon, <1>1, <1>10, <2>2 DEF GetLive
  <2>4. getter' = Answer(g, NoEntry, 0) \/ getter' = Answer(g, c.held, RemainingTTL(c.held))
    BY <1>10 DEF GetLive
  <2>5. /\ Answer(g, NoEntry, 0) = Moved("done", NoEntry, 0, c.cursor)
        /\ Answer(g, c.held, RemainingTTL(c.held)) = Moved("done", c.held, RemainingTTL(c.held), c.cursor)
    BY Zenon, <1>6
  <2> HIDE DEF c, Moved
  <2> QED  BY Zenon, <1>1, <1>5, <1>7, <2>1, <2>2, <2>3, <2>4, <2>5
<1>11. CASE GetExpired(g)
  <2>1. c.pc = "check" /\ UNCHANGED <<entries, evictQ, now, nextId, prefetched, sweeper, flusher>>
    BY Zenon, <1>11 DEF GetExpired
  <2>2. c.held \in Entry
    BY <1>1, <2>1
  <2>3. \/ getter' = Answer(g, NoEntry, 0)
        \/ getter' = Answer(g, c.held, 0)
        \/ getter' = [getter EXCEPT ![g].pc = "delete"]
    BY <1>11 DEF GetExpired
  <2>4. /\ Answer(g, NoEntry, 0) = Moved("done", NoEntry, 0, c.cursor)
        /\ Answer(g, c.held, 0) = Moved("done", c.held, 0, c.cursor)
    BY Zenon, <1>6
  <2>5. [getter EXCEPT ![g].pc = "delete"] = Moved("delete", c.held, c.ttl, c.cursor)
    BY Zenon, <1>1 DEF Getter
  <2> HIDE DEF c, Moved
  <2>6. CASE getter' = Moved("done", NoEntry, 0, c.cursor)
    BY Zenon, <1>1, <1>5, <2>1, <2>6
  <2>7. CASE getter' = Moved("done", c.held, 0, c.cursor)
    BY Zenon, <1>1, <1>5, <2>1, <2>2, <2>7
  <2>8. CASE getter' = Moved("delete", c.held, c.ttl, c.cursor)
    BY Zenon, <1>1, <1>5, <1>7, <2>1, <2>2, <2>8
  <2> QED  BY <2>3, <2>4, <2>5, <2>6, <2>7, <2>8
<1>12. CASE GetDelete(g)
  <2>1. /\ c.pc = "delete"
        /\ entries' = [entries EXCEPT ![c.held.key] = NoEntry]
        /\ getter' = Answer(g, NoEntry, 0)
        /\ UNCHANGED <<evictQ, now, nextId, prefetched, sweeper, flusher>>
    BY Zenon, <1>12 DEF GetDelete
  <2> DEFINE d == [c EXCEPT !.pc = "done", !.held = NoEntry, !.ttl = 0, !.cursor = c.cursor]
  <2>2. getter' = [getter EXCEPT ![g] = d]
    BY Zenon, <1>6, <2>1
  <2>3. d \in Getter /\ d.name \in Names /\ d.cursor \in Names /\ d.pc = "done"
    BY Zenon, <1>1, <2>1 DEF Getter
  <2>4. entries' \in [cacheKey -> Entry \cup {NoEntry}]
    BY Zenon, <1>1, <2>1
  <2> HIDE DEF d
  <2>5. TypeOK'
    BY Zenon, <1>1, <2>1, <2>2, <2>3, <2>4 DEF IInv, TypeOK
  <2>6. LookupOK'
    BY Zenon, <1>1, <2>2, <2>3 DEF IInv, LookupOK
  <2>7. SweepPast'
    BY Zenon, <2>1 DEF IInv, SweepPast
  <2>8. \A k \in cacheKey : entries'[k] = NoEntry \/ entries'[k] = entries[k]
    BY Zenon, <1>1, <2>1
  <2>9. \A k \in cacheKey : entries'[k] # NoEntry => entries[k] \in evictQ'[shardIndex(k)]
    BY Zenon, <2>1, <2>8 DEF IInv, HeapCovers
  <2> QED  BY Zenon, <2>1, <2>5, <2>6, <2>7, <2>8, <2>9, RemovalKeepsInvariant
<1> QED  BY Zenon, <1>3, <1>4, <1>8, <1>9, <1>10, <1>11, <1>12 DEF GetStep

\* The stores and Delete keep the invariant.
LEMMA UpdateKeepsInvariant ==
    ASSUME IInv, NEW n \in Names, NEW t \in QTypes, Update(n, t)
    PROVE  IInv'
<1>1. /\ entries \in [cacheKey -> Entry \cup {NoEntry}]
      /\ key(n, t) \in cacheKey /\ key(n, NXType) \in cacheKey
      /\ \A ecs \in ECSPrefixes \cup {NoECS} : [name |-> n, qtype |-> t, ecs |-> ecs] \in cacheKey
      /\ InsertTimes \subseteq Nat
  BY DEF IInv, TypeOK, key, cacheKey, InsertTimes
<1>2. NegativeType = {"positive", "nxdomain", "nodata", "servfail"}
  BY DEF NegativeType
<1>3. ASSUME NEW ecs \in ECSPrefixes \cup {NoECS}, StoreWithStatus(n, t, ecs) PROVE IInv'
  <2>1. PICK ttl \in WireTTLs \cup {MinTTL}, at \in InsertTimes :
           insert([name |-> n, qtype |-> t, ecs |-> ecs], "positive", clampTTL(ttl), at)
    BY <1>3 DEF StoreWithStatus
  <2>2. clampTTL(ttl) \in Nat
    BY Zenon, ClampType, TTLAssumption
  <2> QED  BY Zenon, <1>1, <1>2, <2>1, <2>2, InsertKeepsInvariant
<1>4. ASSUME NEW kind \in {"nxdomain", "nodata"}, StoreNegative(n, t, kind) PROVE IInv'
  <2>1. PICK ttl \in WireTTLs, at \in InsertTimes :
           insert(key(n, IF kind = "nxdomain" THEN NXType ELSE t), kind, clampNegativeTTL(ttl), at)
    BY <1>4 DEF StoreNegative
  <2>2. clampNegativeTTL(ttl) \in Nat
    BY ClampType, TTLAssumption
  <2>3. key(n, IF kind = "nxdomain" THEN NXType ELSE t) \in cacheKey
    BY <1>1
  <2> QED  BY <1>1, <1>2, <2>1, <2>2, <2>3, InsertKeepsInvariant
<1>5. CASE StoreFailure(n, t, DefaultFailureTTL)
  <2>1. PICK at \in InsertTimes : insert(key(n, t), "servfail", clampFailureTTL(DefaultFailureTTL), at)
    BY <1>5 DEF StoreFailure
  <2>2. clampFailureTTL(DefaultFailureTTL) \in Nat
    BY Zenon, ClampType, TTLAssumption
  <2> QED  BY <1>1, <1>2, <2>1, <2>2, InsertKeepsInvariant
<1>6. CASE Delete(n, t)
  <2>1. /\ entries' = [entries EXCEPT ![key(n, t)] = NoEntry]
        /\ UNCHANGED <<evictQ, now, nextId, prefetched, getter, sweeper, flusher>>
    BY <1>6 DEF Delete
  <2>2. entries' \in [cacheKey -> Entry \cup {NoEntry}]
    BY Zenon, <1>1, <2>1
  <2>3. TypeOK' /\ LookupOK' /\ SweepPast'
    BY Zenon, <2>1, <2>2 DEF IInv, TypeOK, LookupOK, SweepPast
  <2>4. \A k \in cacheKey : entries'[k] = NoEntry \/ entries'[k] = entries[k]
    BY Zenon, <1>1, <2>1
  <2>5. \A k \in cacheKey : entries'[k] # NoEntry => entries[k] \in evictQ'[shardIndex(k)]
    BY Zenon, <2>1, <2>4 DEF IInv, HeapCovers
  <2> QED  BY Zenon, <2>1, <2>3, <2>4, <2>5, RemovalKeepsInvariant
<1> QED  BY Zenon, <1>3, <1>4, <1>5, <1>6 DEF Update

\* What SweepShard does, once the heap is known to cover the map: it removes
\* entries that have expired, and every entry that had expired at its start.
LEMMA SweepShardFacts ==
    ASSUME IInv, SweepShard
    PROVE  /\ sweeper.shard \in Shards
           /\ entries' \in [cacheKey -> Entry \cup {NoEntry}]
           /\ \A k \in cacheKey : entries'[k] = entries[k] \/ (entries'[k] = NoEntry /\ RemainingTTL(entries[k]) = 0)
           /\ \A k \in InShard(entries', sweeper.shard) : expiresAt(entries'[k]) > sweeper.now
<1> DEFINE s       == sweeper.shard
           popped  == {i \in evictQ[s] : expiresAt(i) <= sweeper.now}
           expired == {i.key : i \in {j \in Current(entries, popped) : RemainingTTL(j) = 0}}
           kept    == [k \in cacheKey |-> IF k \in expired THEN NoEntry ELSE entries[k]]
           orphans == IF popped = evictQ[s] THEN {k \in InShard(kept, s) : RemainingTTL(kept[k]) = 0} ELSE {}
<1>1. /\ entries \in [cacheKey -> Entry \cup {NoEntry}] /\ evictQ \in [Shards -> SUBSET Entry]
      /\ now \in Nat /\ sweeper.now \in Nat /\ sweeper.now <= now
      /\ sweeper.shard \in 0 .. ShardCount
  BY DEF IInv, TypeOK, SweepPast
<1>2. /\ s # Idle
      /\ entries' = [k \in cacheKey |-> IF k \in orphans THEN NoEntry ELSE kept[k]]
  BY Zenon DEF SweepShard
<1>3. s \in Shards
  BY <1>1, <1>2, ShardAssumption DEF Idle, Shards
<1>4. \A k \in expired : k \in cacheKey /\ RemainingTTL(entries[k]) = 0
  BY <1>1, <1>3 DEF Current, Entry
<1>5. \A k \in orphans : k \in cacheKey /\ (k \in expired \/ RemainingTTL(entries[k]) = 0)
  BY Zenon DEF InShard
<1>6. \A k \in cacheKey : entries'[k] = IF k \in orphans \/ k \in expired THEN NoEntry ELSE entries[k]
  BY Zenon, <1>2
<1>7. ASSUME NEW k \in InShard(entries', s) PROVE expiresAt(entries'[k]) > sweeper.now
  <2>1. k \in cacheKey /\ shardIndex(k) = s /\ entries'[k] = entries[k] /\ entries[k] # NoEntry /\ k \notin expired
    BY Zenon, <1>6 DEF InShard
  <2>2. entries[k] \in evictQ[s] /\ entries[k].key = k /\ entries[k] \in Entry
    BY Zenon, <1>1, <2>1 DEF IInv, HeapCovers
  <2>3. SUFFICES ASSUME ~(expiresAt(entries[k]) > sweeper.now) PROVE FALSE
    BY Zenon, <2>1
  <2>4. expiresAt(entries[k]) \in Nat
    BY <2>2 DEF expiresAt, Entry
  <2>5. expiresAt(entries[k]) <= sweeper.now /\ expiresAt(entries[k]) <= now
    BY <1>1, <2>3, <2>4
  <2>6. RemainingTTL(entries[k]) = 0
    BY Zenon, <1>1, <2>2, <2>5, RemainingTTLFacts
  <2>7. entries[k] \in Current(entries, popped)
    BY Zenon, <2>2, <2>5 DEF Current
  <2>8. k \in expired
    BY Zenon, <2>2, <2>6, <2>7
  <2> QED  BY Zenon, <2>1, <2>8
<1>8. entries' \in [cacheKey -> Entry \cup {NoEntry}]
  BY Zenon, <1>1, <1>2
<1>9. \A k \in cacheKey : entries'[k] = entries[k] \/ (entries'[k] = NoEntry /\ RemainingTTL(entries[k]) = 0)
  <2> HIDE DEF expired, orphans
  <2> QED  BY <1>4, <1>5, <1>6
<1> QED  BY <1>3, <1>7, <1>8, <1>9

\* The sweeper, Flush and the clock keep the invariant.
LEMMA BackgroundKeepsInvariant ==
    ASSUME IInv, Sweep \/ Flush \/ Tick
    PROVE  IInv'
<1>1. /\ entries \in [cacheKey -> Entry \cup {NoEntry}] /\ evictQ \in [Shards -> SUBSET Entry]
      /\ now \in Nat /\ nextId \in Nat /\ sweeper \in [shard : 0 .. ShardCount, now : Nat]
      /\ flusher \in [shard : 0 .. ShardCount, ids : Nat]
      /\ ShardCount \in Nat \ {0} /\ Idle = ShardCount
      /\ \A k \in cacheKey : shardIndex(k) \in Shards
  BY Zenon, ShardAssumption DEF IInv, TypeOK, Idle, shardIndex, Shards, cacheKey
<1>2. ASSUME UNCHANGED <<entries, evictQ, getter>>, TypeOK', SweepPast' PROVE IInv'
  <2>1. LookupOK'
    BY <1>2 DEF IInv, LookupOK
  <2>2. \A k \in cacheKey : entries'[k] # NoEntry => entries[k] \in evictQ'[shardIndex(k)]
    BY <1>2 DEF IInv, HeapCovers
  <2> QED  BY Zenon, <1>2, <2>1, <2>2, RemovalKeepsInvariant
<1>3. CASE SweepStart
  <2>1. /\ sweeper' = [shard |-> 0, now |-> now]
        /\ UNCHANGED <<entries, evictQ, now, nextId, prefetched, getter, flusher>>
    BY Zenon, <1>3 DEF SweepStart
  <2>2. TypeOK' /\ SweepPast'
    BY <1>1, <2>1 DEF IInv, TypeOK, SweepPast
  <2> QED  BY <1>2, <2>1, <2>2
<1>4. CASE FlushStart
  <2>1. /\ flusher' = [shard |-> 0, ids |-> nextId]
        /\ UNCHANGED <<entries, evictQ, now, nextId, prefetched, getter, sweeper>>
    BY Zenon, <1>4 DEF FlushStart
  <2>2. TypeOK' /\ SweepPast'
    BY <1>1, <2>1 DEF IInv, TypeOK, SweepPast
  <2> QED  BY <1>2, <2>1, <2>2
<1>5. CASE Tick
  <2>1. now' \in Nat /\ now' >= now /\ UNCHANGED <<entries, evictQ, nextId, prefetched, getter, sweeper, flusher>>
    BY <1>1, <1>5, BoundAssumption DEF Tick
  <2>2. TypeOK'
    BY Zenon, <1>1, <2>1 DEF IInv, TypeOK
  <2>3. SweepPast'
    <3>1. sweeper.now \in Nat /\ now \in Nat /\ sweeper.now <= now /\ sweeper' = sweeper
      BY <2>1 DEF IInv, TypeOK, SweepPast
    <3> QED BY <2>1, <3>1 DEF SweepPast
  <2> QED  BY Zenon, <1>2, <2>1, <2>2, <2>3
<1>6. CASE FlushShard
  <2> DEFINE s == flusher.shard
  <2>1. /\ s # Idle
        /\ entries' = [k \in cacheKey |-> IF shardIndex(k) = s THEN NoEntry ELSE entries[k]]
        /\ evictQ' = [evictQ EXCEPT ![s] = {}]
        /\ flusher' = [flusher EXCEPT !.shard = s + 1]
        /\ UNCHANGED <<now, nextId, prefetched, getter, sweeper>>
    BY <1>6 DEF FlushShard
  <2>2. s \in Shards /\ s + 1 \in 0 .. ShardCount
    BY <1>1, <2>1 DEF Shards
  <2>3. entries' \in [cacheKey -> Entry \cup {NoEntry}] /\ evictQ' \in [Shards -> SUBSET Entry]
    BY Zenon, <1>1, <2>1
  <2>4. flusher' \in [shard : 0 .. ShardCount, ids : Nat]
    BY <1>1, <2>1, <2>2
  <2>5. TypeOK' /\ LookupOK' /\ SweepPast'
    BY <2>1, <2>3, <2>4 DEF IInv, TypeOK, LookupOK, SweepPast
  <2>6. \A k \in cacheKey : entries'[k] = NoEntry \/ entries'[k] = entries[k]
    BY <2>1
  <2>7. \A r \in Shards : evictQ'[r] \subseteq evictQ[r]
    BY <1>1, <2>1
  <2>8. \A k \in cacheKey : entries'[k] # NoEntry => entries[k] \in evictQ'[shardIndex(k)]
    BY ZenonT(40), <1>1, <2>1 DEF IInv, HeapCovers
  <2> QED  BY Zenon, <2>5, <2>6, <2>7, <2>8, RemovalKeepsInvariant
<1>7. CASE SweepShard
  <2> DEFINE s      == sweeper.shard
             popped == {i \in evictQ[s] : expiresAt(i) <= sweeper.now}
  <2>1. /\ evictQ' = [evictQ EXCEPT ![s] = @ \ popped]
        /\ sweeper' = IF s = ShardCount - 1 THEN [shard |-> Idle, now |-> 0] ELSE [sweeper EXCEPT !.shard = s + 1]
        /\ UNCHANGED <<now, nextId, prefetched, getter, flusher>>
    BY Zenon, <1>7 DEF SweepShard
  <2>2. /\ s \in Shards
        /\ entries' \in [cacheKey -> Entry \cup {NoEntry}]
        /\ \A k \in cacheKey : entries'[k] = NoEntry \/ entries'[k] = entries[k]
        /\ \A k \in InShard(entries', s) : expiresAt(entries'[k]) > sweeper.now
    BY <1>7, SweepShardFacts
  <2>3. sweeper' \in [shard : 0 .. ShardCount, now : Nat] /\ sweeper'.now <= now
    <3>1. s \in 0 .. ShardCount - 1 /\ ShardCount \in Nat /\ sweeper.now \in Nat /\ now \in Nat /\ sweeper.now <= now
      BY <1>1, <2>2, ShardAssumption DEF Shards, IInv, SweepPast, TypeOK
    <3>2. s + 1 \in 0 .. ShardCount \/ s = ShardCount - 1
      BY <3>1
    <3>3. sweeper \in [shard : 0 .. ShardCount, now : Nat]
      BY Zenon DEF IInv, TypeOK
    <3> HIDE DEF s
    <3> QED BY <2>1, <3>1, <3>2, <3>3 DEF Idle
  <2>4. evictQ' \in [Shards -> SUBSET Entry] /\ \A r \in Shards : evictQ'[r] \subseteq evictQ[r]
    BY Zenon, <1>1, <2>1
  <2>5. TypeOK' /\ LookupOK' /\ SweepPast'
    BY <2>1, <2>2, <2>3, <2>4 DEF IInv, TypeOK, LookupOK, SweepPast
  <2>6. ASSUME NEW k \in cacheKey, entries'[k] # NoEntry PROVE entries[k] \in evictQ'[shardIndex(k)]
    <3>1. entries'[k] = entries[k] /\ entries[k] \in evictQ[shardIndex(k)]
      BY <2>2, <2>6 DEF IInv, HeapCovers
    <3>2. CASE shardIndex(k) # s
      BY <1>1, <2>1, <3>1, <3>2
    <3>3. CASE shardIndex(k) = s
      <4>1. k \in InShard(entries', s)
        BY Zenon, <2>6, <3>3 DEF InShard
      <4>2. expiresAt(entries[k]) > sweeper.now
        BY Zenon, <2>2, <3>1, <4>1
      <4>3. entries[k] \in Entry /\ expiresAt(entries[k]) \in Nat /\ sweeper.now \in Nat
        BY <1>1, <2>2, <2>6, <3>1 DEF expiresAt, Entry
      <4>4. entries[k] \notin popped
        BY <4>2, <4>3
      <4> QED  BY Zenon, <1>1, <2>1, <2>2, <3>1, <3>3, <4>4
    <3> QED  BY Zenon, <3>2, <3>3
  <2> QED  BY <2>2, <2>4, <2>5, <2>6, RemovalKeepsInvariant
<1> QED  BY Zenon, <1>3, <1>4, <1>5, <1>6, <1>7 DEF Sweep, Flush

-----------------------------------------------------------------------------
(* Theorems.                                                                  *)

\* The invariant holds in every reachable state.
THEOREM Invariant == Spec => []IInv
<1>1. IInv /\ UNCHANGED vars => IInv'
  <2>1. SUFFICES ASSUME IInv, UNCHANGED vars PROVE IInv'
    BY Zenon
  <2>2. TypeOK' /\ LookupOK'
    BY Zenon, <2>1 DEF IInv, TypeOK, LookupOK, vars
  <2>3. HeapCovers'
    BY Zenon, <2>1 DEF IInv, HeapCovers, vars, InShard, shardIndex
  <2>4. HeapLocal'
    BY Zenon, <2>1 DEF IInv, HeapLocal, vars, shardIndex
  <2>5. SweepPast' /\ WithinLimit'
    BY Zenon, <2>1 DEF IInv, SweepPast, WithinLimit, vars, InShard, shardIndex
  <2> QED  BY <2>2, <2>3, <2>4, <2>5 DEF IInv
<1>2. IInv /\ Next => IInv'
  BY LookupKeepsInvariant, UpdateKeepsInvariant, BackgroundKeepsInvariant DEF Next
<1>3. IInv /\ [Next]_vars => IInv'
  BY <1>1, <1>2
<1> QED  BY <1>3, InitInvariant, PTL DEF Spec

\* Types are kept by every step, for any constants.
THEOREM TypeCorrect == Spec => []TypeOK
<1>1. IInv => TypeOK
  BY DEF IInv
<1> QED  BY <1>1, Invariant, PTL

\* No shard ever holds more than its share of the capacity plus one.
THEOREM CapacityHolds == Spec => []WithinLimit
<1>1. IInv => WithinLimit
  BY DEF IInv
<1> QED  BY <1>1, Invariant, PTL

\* Every cached entry has its item in the heap of its shard: neither the
\* sweeper nor the eviction ever falls back to scanning the map.
THEOREM HeapIsComplete == Spec => []HeapCovers
<1>1. IInv => HeapCovers
  BY DEF IInv
<1> QED  BY <1>1, Invariant, PTL

\* Which steps move the sweeper and which allocate an entry.
LEMMA WhoMoves ==
    ASSUME Next
    PROVE  /\ sweeper' # sweeper => SweepStart \/ SweepShard
           /\ nextId' # nextId => \E n \in Names, t \in QTypes : Update(n, t) /\ ~Delete(n, t)
<1>1. ASSUME NEW g \in Getters, GetStep(g) \/ Return(g) PROVE UNCHANGED <<sweeper, nextId>>
  BY <1>1 DEF GetStep, Return, GetNX, checkParentNXDomain, GetLive, GetExpired, GetDelete
<1>2. ASSUME NEW g \in Getters, NEW n \in Names, NEW t \in QTypes, Call(g, n, t) PROVE UNCHANGED <<sweeper, nextId>>
  BY Zenon, <1>2 DEF Call, Get, Lookup, GetWithECS, GetStale, Begin
<1>3. ASSUME NEW n \in Names, NEW t \in QTypes, Update(n, t)
      PROVE  UNCHANGED sweeper /\ (Delete(n, t) => UNCHANGED nextId)
  <2>1. ASSUME NEW k, NEW kind, NEW ttl, NEW at, insert(k, kind, ttl, at) PROVE UNCHANGED sweeper
    BY <2>1 DEF insert
  <2>2. Delete(n, t) => UNCHANGED <<sweeper, nextId>>
    BY DEF Delete
  <2> QED  BY Zenon, <1>3, <2>1, <2>2 DEF Update, StoreWithStatus, StoreNegative, StoreFailure
<1>4. SweepStart \/ SweepShard => UNCHANGED nextId
  BY DEF SweepStart, SweepShard
<1>5. Flush \/ Tick => UNCHANGED <<sweeper, nextId>>
  BY DEF Flush, FlushStart, FlushShard, Tick
<1> QED  BY Zenon, <1>1, <1>2, <1>3, <1>4, <1>5 DEF Next, Sweep

\* A sweep removes from a shard every entry that had expired when it started,
\* and nothing that is still live, whatever is inserted while it runs.
THEOREM SweepIsExact == Spec => SweepExact
<1>1. ASSUME IInv, [Next]_vars, sweeper.shard # Idle, sweeper' # sweeper
      PROVE  /\ \A k \in InShard(entries', sweeper.shard) : expiresAt(entries'[k]) > sweeper.now
             /\ \A k \in cacheKey : entries'[k] # entries[k] => RemainingTTL(entries[k]) = 0
  <2>1. Next
    BY <1>1 DEF vars
  <2>2. SweepShard
    BY <1>1, <2>1, WhoMoves DEF SweepStart
  <2> QED  BY <1>1, <2>2, SweepShardFacts
<1> QED  BY <1>1, Invariant, PTL DEF Spec, SweepExact

\* An insertion evicts, of the shard that overflows, an entry that expires no
\* later than any the shard keeps.
THEOREM EvictionOrder == Spec => EvictsSoonest
<1>1. ASSUME IInv, NEW k \in cacheKey, NEW kind \in NegativeType, NEW ttl \in Nat, NEW at \in Nat,
             insert(k, kind, ttl, at),
             NEW x \in cacheKey, NEW l \in cacheKey,
             entries[x] # NoEntry, entries'[x] = NoEntry,
             shardIndex(l) = shardIndex(x), entries'[l] # NoEntry
      PROVE  expiresAt(entries[x]) <= expiresAt(entries'[l])
  <2> DEFINE e    == [id |-> nextId, key |-> k, kind |-> kind, at |-> at, ttl |-> ttl]
             s    == shardIndex(k)
             ents == [entries EXCEPT ![k] = e]
             q    == evictQ[s] \cup {e}
  <2>1. /\ nextId \in Nat /\ entries \in [cacheKey -> Entry \cup {NoEntry}] /\ evictQ \in [Shards -> SUBSET Entry]
        /\ s \in Shards
    BY Zenon, <1>1, ShardAssumption DEF IInv, TypeOK, shardIndex, Shards, cacheKey
  <2>2. e \in Entry /\ e # NoEntry /\ e.key = k /\ ents \in [cacheKey -> Entry \cup {NoEntry}] /\ ents[k] = e
    BY <2>1, NilAssumption DEF Entry
  <2>3. q \in SUBSET Entry /\ \A i \in q : shardIndex(i.key) = s
    BY Zenon, <1>1, <2>1, <2>2 DEF IInv, HeapLocal
  <2>4. e \in Current(ents, q)
    BY Zenon, <2>2 DEF Current
  <2>5. OverLimit(ents, s)
    <3>1. SUFFICES ASSUME ~OverLimit(ents, s) PROVE FALSE
      BY Zenon
    <3>2. entries' = ents
      BY <1>1, <3>1 DEF insert
    <3> QED  BY Zenon, <1>1, <2>1, <2>2, <3>2
  <2>6. PICK v \in nextEvictionKeys(ents, q, s) : entries' = [ents EXCEPT ![v] = NoEntry]
    BY <1>1, <2>5, ZenonT(60) DEF insert
  <2>7. /\ v \in InShard(ents, s)
        /\ \A i \in Current(ents, q) : expiresAt(ents[v]) <= expiresAt(i)
    <3> HIDE DEF e, s, ents, q
    <3> QED  BY Zenon, <2>1, <2>2, <2>3, <2>4, EvictionKeyFacts
  <2>8. x = v /\ l # v /\ shardIndex(l) = s /\ entries'[l] = ents[l]
    <3>1. \A y \in cacheKey : y # v => entries'[y] = ents[y]
      BY Zenon, <2>2, <2>6
    <3>2. x = v
      BY Zenon, <1>1, <2>1, <2>2, <3>1
    <3> QED  BY Zenon, <1>1, <2>7, <3>1, <3>2 DEF InShard
  <2>9. ents[l] \in Current(ents, q)
    <3>1. CASE l = k
      BY Zenon, <2>2, <2>4, <3>1
    <3>2. CASE l # k
      <4>1. ents[l] = entries[l] /\ entries[l] \in evictQ[s] /\ entries[l].key = l
        BY Zenon, <1>1, <2>1, <2>8, <3>2 DEF IInv, HeapCovers
      <4> QED  BY Zenon, <4>1 DEF Current
    <3> QED  BY Zenon, <3>1, <3>2
  <2>10. expiresAt(ents[v]) <= expiresAt(ents[l])
    BY Zenon, <2>7, <2>9
  <2>11. CASE x # k
    <3>1. ents[x] = entries[x]
      BY Zenon, <2>1, <2>11
    <3> QED  BY Zenon, <2>8, <2>10, <3>1
  \* The victim may be the new entry itself, in place of the one it replaced:
  \* then the shard did not grow and could not overflow.
  <2>12. CASE x = k
    <3>1. InShard(ents, s) = InShard(entries, s)
      BY Zenon, <1>1, <2>1, <2>2, <2>12 DEF InShard
    <3>2. MaxEntries > 0 /\ Cardinality(InShard(entries, s)) <= Limit
      BY Zenon, <1>1, <2>1, <2>5 DEF OverLimit, IInv, WithinLimit
    <3>3. Cardinality(InShard(entries, s)) > Limit
      BY Zenon, <2>5, <3>1 DEF OverLimit
    <3> HIDE DEF e, s, ents, q
    <3>4. Cardinality(InShard(entries, s)) \in Nat
      BY InShardFinite
    <3>5. FALSE
      BY <3>2, <3>3, <3>4, LimitType
    <3> QED  BY <3>5
  <2> QED  BY Zenon, <2>11, <2>12
<1>2. ASSUME NEW n \in Names, NEW t \in QTypes, now \in Nat, Update(n, t), ~Delete(n, t)
      PROVE  \E k \in cacheKey, kind \in NegativeType, ttl \in Nat, at \in Nat : insert(k, kind, ttl, at)
  <2>1. /\ key(n, t) \in cacheKey /\ key(n, NXType) \in cacheKey
        /\ \A ecs \in ECSPrefixes \cup {NoECS} : [name |-> n, qtype |-> t, ecs |-> ecs] \in cacheKey
        /\ InsertTimes \subseteq Nat
    BY <1>2 DEF key, cacheKey, InsertTimes
  <2>2. /\ \A ttl \in WireTTLs \cup {MinTTL} : clampTTL(ttl) \in Nat
        /\ \A ttl \in WireTTLs : clampNegativeTTL(ttl) \in Nat
        /\ clampFailureTTL(DefaultFailureTTL) \in Nat
    BY ClampType, TTLAssumption
  <2>3. "positive" \in NegativeType /\ "servfail" \in NegativeType /\ {"nxdomain", "nodata"} \subseteq NegativeType
    BY Zenon DEF NegativeType
  <2>4. ASSUME NEW ecs \in ECSPrefixes \cup {NoECS}, StoreWithStatus(n, t, ecs)
        PROVE  \E k \in cacheKey, kind \in NegativeType, ttl \in Nat, at \in Nat : insert(k, kind, ttl, at)
    BY Zenon, <2>1, <2>2, <2>3, <2>4 DEF StoreWithStatus
  <2>5. ASSUME NEW kind \in {"nxdomain", "nodata"}, StoreNegative(n, t, kind)
        PROVE  \E k \in cacheKey, kd \in NegativeType, ttl \in Nat, at \in Nat : insert(k, kd, ttl, at)
    <3>1. key(n, IF kind = "nxdomain" THEN NXType ELSE t) \in cacheKey
      BY Zenon, <2>1
    <3> QED  BY Zenon, <2>1, <2>2, <2>3, <2>5, <3>1 DEF StoreNegative
  <2>6. CASE StoreFailure(n, t, DefaultFailureTTL)
    BY <2>1, <2>2, <2>3, <2>6 DEF StoreFailure
  <2> QED  BY Zenon, <1>2, <2>4, <2>5, <2>6 DEF Update
<1>3. ASSUME IInv, [Next]_vars, nextId' > nextId,
             NEW x \in cacheKey, NEW l \in cacheKey,
             entries[x] # NoEntry, entries'[x] = NoEntry,
             shardIndex(l) = shardIndex(x), entries'[l] # NoEntry
      PROVE  expiresAt(entries[x]) <= expiresAt(entries'[l])
  <2>1. nextId \in Nat /\ now \in Nat
    BY <1>3 DEF IInv, TypeOK
  <2>2. Next /\ nextId' # nextId
    BY <1>3, <2>1 DEF vars
  <2>3. PICK k \in cacheKey, kind \in NegativeType, ttl \in Nat, at \in Nat : insert(k, kind, ttl, at)
    BY Zenon, <1>2, <2>1, <2>2, WhoMoves
  <2> QED  BY Zenon, <1>1, <1>3, <2>3
<1>4. IInv /\ [Next]_vars =>
        [nextId' > nextId =>
            \A k, l \in cacheKey :
                /\ entries[k] # NoEntry /\ entries'[k] = NoEntry
                /\ shardIndex(l) = shardIndex(k) /\ entries'[l] # NoEntry
                => expiresAt(entries[k]) <= expiresAt(entries'[l])]_vars
  BY <1>3
<1> QED  BY <1>4, Invariant, PTL DEF Spec, EvictsSoonest


-----------------------------------------------------------------------------
(* Flush.                                                                     *)

\* What FlushClears needs to be inductive: entries inserted from now on are
\* newer than the ones Flush has to remove.
FlushInv == flusher.ids <= nextId /\ FlushClears

\* A step that is not Flush's removes entries, keeps them or puts new ones in.
LEMMA NewOrKept ==
    ASSUME IInv, Next
    PROVE  \/ FlushStart
           \/ FlushShard
           \/ /\ UNCHANGED flusher /\ nextId' \in {nextId, nextId + 1}
              /\ \A k \in cacheKey : \/ entries'[k] = NoEntry
                                      \/ entries'[k] = entries[k]
                                      \/ entries'[k].id = nextId
<1>1. entries \in [cacheKey -> Entry \cup {NoEntry}] /\ nextId \in Nat
  BY Zenon DEF IInv, TypeOK
<1>2. ASSUME NEW g \in Getters, GetStep(g) \/ Return(g)
      PROVE  /\ UNCHANGED <<flusher, nextId>>
             /\ \A k \in cacheKey : entries'[k] = NoEntry \/ entries'[k] = entries[k]
  BY <1>1, <1>2 DEF GetStep, Return, GetNX, checkParentNXDomain, GetLive, GetExpired, GetDelete
<1>3. ASSUME NEW g \in Getters, NEW n \in Names, NEW t \in QTypes, Call(g, n, t)
      PROVE  UNCHANGED <<flusher, nextId, entries>>
  BY Zenon, <1>3 DEF Call, Get, Lookup, GetWithECS, GetStale, Begin
<1>4. ASSUME NEW k, NEW kind, NEW ttl, NEW at, insert(k, kind, ttl, at)
      PROVE  /\ UNCHANGED flusher /\ nextId' \in {nextId, nextId + 1}
             /\ \A l \in cacheKey : \/ entries'[l] = NoEntry
                                     \/ entries'[l] = entries[l]
                                     \/ entries'[l].id = nextId
  <2> DEFINE e    == [id |-> nextId, key |-> k, kind |-> kind, at |-> at, ttl |-> ttl]
             ents == [entries EXCEPT ![k] = e]
  <2>1. UNCHANGED flusher /\ nextId' = nextId + 1 /\ (entries' = ents \/ \E v : entries' = [ents EXCEPT ![v] = NoEntry])
    BY Zenon, <1>4 DEF insert
  <2>2. e.id = nextId
    OBVIOUS
  <2>3. \A l \in cacheKey : ents[l] = entries[l] \/ ents[l] = e
    <3> HIDE DEF e
    <3> QED  BY <1>1
  <2>4. \A l \in cacheKey : entries'[l] = NoEntry \/ entries'[l] = ents[l]
    <3> HIDE DEF e
    <3> QED  BY Zenon, <1>1, <2>1
  <2> HIDE DEF e, ents
  <2> QED  BY Zenon, <1>1, <2>1, <2>2, <2>3, <2>4
<1>5. ASSUME NEW n \in Names, NEW t \in QTypes, Delete(n, t)
      PROVE  /\ UNCHANGED <<flusher, nextId>>
             /\ \A k \in cacheKey : entries'[k] = NoEntry \/ entries'[k] = entries[k]
  BY Zenon, <1>1, <1>5 DEF Delete
<1>6. SweepShard => /\ UNCHANGED <<flusher, nextId>>
                    /\ \A k \in cacheKey : entries'[k] = NoEntry \/ entries'[k] = entries[k]
  BY Zenon, SweepShardFacts DEF SweepShard
<1>7. SweepStart \/ Tick => UNCHANGED <<flusher, nextId, entries>>
  BY DEF SweepStart, Tick
<1>8. ASSUME NEW n \in Names, NEW t \in QTypes, Update(n, t)
      PROVE  Delete(n, t) \/ \E k, kind, ttl, at : insert(k, kind, ttl, at)
  BY Zenon, <1>8 DEF Update, StoreWithStatus, StoreNegative, StoreFailure
<1> QED  BY Zenon, <1>1, <1>2, <1>3, <1>4, <1>5, <1>6, <1>7, <1>8 DEF Next, Sweep, Flush

\* Once Flush has passed a shard nothing older than the call is left in it,
\* whatever is inserted before and behind it.
THEOREM FlushIsComplete == Spec => []FlushClears
<1>1. IInv /\ Init => FlushInv
  BY DEF Init, FlushInv, FlushClears
<1>2. ASSUME IInv, FlushInv, [Next]_vars PROVE FlushInv'
  <2>1. /\ entries \in [cacheKey -> Entry \cup {NoEntry}] /\ nextId \in Nat
        /\ flusher \in [shard : 0 .. ShardCount, ids : Nat]
        /\ \A k \in cacheKey : shardIndex(k) \in 0 .. ShardCount - 1 /\ ShardCount \in Nat
    BY Zenon, <1>2, ShardAssumption DEF IInv, TypeOK, shardIndex, cacheKey, Shards
  <2>2. CASE FlushStart
    <3>1. flusher'.shard = 0 /\ flusher'.ids = nextId /\ UNCHANGED <<entries, nextId>>
      BY Zenon, <2>2 DEF FlushStart
    <3> QED  BY <2>1, <3>1 DEF FlushInv, FlushClears, shardIndex
  <2>3. CASE FlushShard
    <3>1. /\ flusher'.shard = flusher.shard + 1 /\ flusher'.ids = flusher.ids /\ UNCHANGED nextId
          /\ \A k \in cacheKey : entries'[k] = IF shardIndex(k) = flusher.shard THEN NoEntry ELSE entries[k]
      BY Zenon, <2>1, <2>3 DEF FlushShard
    <3> QED  BY <1>2, <2>1, <3>1 DEF FlushInv, FlushClears, shardIndex
  <2>4. CASE /\ UNCHANGED flusher /\ nextId' \in {nextId, nextId + 1}
             /\ \A k \in cacheKey : \/ entries'[k] = NoEntry
                                     \/ entries'[k] = entries[k]
                                     \/ entries'[k].id = nextId
    <3>1. flusher'.shard = flusher.shard /\ flusher'.ids = flusher.ids /\ flusher.ids \in Nat /\ flusher.ids <= nextId
      BY Zenon, <1>2, <2>1, <2>4 DEF FlushInv
    <3>2. flusher'.ids <= nextId'
      BY <2>1, <2>4, <3>1
    <3>3. ASSUME NEW k \in cacheKey, entries'[k] # NoEntry, shardIndex(k) < flusher.shard
          PROVE  entries'[k].id >= flusher.ids
      <4>1. CASE entries'[k] = entries[k]
        BY Zenon, <1>2, <3>3, <4>1 DEF FlushInv, FlushClears
      <4>2. CASE entries'[k].id = nextId
        BY Zenon, <2>1, <3>1, <4>2
      <4> QED  BY Zenon, <2>4, <3>3, <4>1, <4>2
    <3> QED  BY Zenon, <3>1, <3>2, <3>3 DEF FlushInv, FlushClears, shardIndex
  <2>5. CASE UNCHANGED vars
    BY <1>2, <2>5 DEF FlushInv, FlushClears, shardIndex, vars
  <2> QED  BY Zenon, <1>2, <2>2, <2>3, <2>4, <2>5, NewOrKept
<1>3. FlushInv => FlushClears
  BY DEF FlushInv
<1> QED  BY <1>1, <1>2, <1>3, Invariant, PTL DEF Spec

\* Eviction, the sweep and Flush remove the right entries.
THEOREM RemovalIsRight == Spec => RemovalIsExact
BY Zenon, EvictionOrder, SweepIsExact, FlushIsComplete DEF RemovalIsExact

-----------------------------------------------------------------------------
(* What lookups return.                                                       *)

\* An entry was stored in the past, under the sentinel type exactly if it is
\* an NXDOMAIN.
Known(e, t) == e.at <= t /\ (e.kind = "nxdomain" <=> e.key.qtype = NXType)

\* HitAnswersQuestion of one call c that has an entry to return at time t.
Hit(c, t) ==
    LET exact == c.held.key.name = c.name /\ c.held.key.qtype = c.qtype
    IN  /\ c.op = "get" =>
              /\ \/ exact /\ c.held.kind # "nxdomain"
                 \/ /\ c.held.kind = "nxdomain"
                    /\ c.held.key.name \in (IF HardenBelowNX THEN SelfAndAncestors(c.name) ELSE {c.name})
              /\ c.ttl \in 1 .. c.held.ttl
        /\ c.op = "lookup" => exact /\ c.ttl \in 1 .. c.held.ttl
        /\ c.op = "stale" => exact /\ expiresAt(c.held) <= t

\* The entry a call has read is the one it was looking for: the exact key's, or
\* for a Get the sentinel's of the same name; its walk stays on the name's
\* ancestors.
CallKnown(c, t) ==
    c.pc # "idle" =>
        /\ c.qtype \in QTypes
        /\ c.cursor \in SelfAndAncestors(c.name)
        /\ c.pc \in {"nx", "walk"} => c.op = "get"
        /\ c.pc = "walk" => HardenBelowNX
        /\ c.pc = "check" =>
             /\ Known(c.held, t)
             /\ c.held.key.name = c.name
             /\ c.held.key.qtype = c.qtype \/ (c.op = "get" /\ c.held.kind = "nxdomain")
        /\ c.pc = "done" /\ c.held # NoEntry => Hit(c, t)

HitInv ==
    /\ \A k \in cacheKey : entries[k] # NoEntry => Known(entries[k], now)
    /\ \A g \in Getters : CallKnown(getter[g], now)

\* A name is among its ancestors, and so is the parent of one of them.
LEMMA Ancestors ==
    ASSUME NEW n \in Names
    PROVE  /\ n \in SelfAndAncestors(n)
           /\ \A a \in SelfAndAncestors(n) : Parent[a] # NoName => Parent[a] \in SelfAndAncestors(n)
<1>1. n \in SelfAndAncestors(n)
  BY DEF SelfAndAncestors
<1>2. ASSUME NEW a \in SelfAndAncestors(n), Parent[a] # NoName PROVE Parent[a] \in SelfAndAncestors(n)
  <2>1. a \in Names /\ Parent[a] \in Names
    BY Zenon, <1>2, KeyAssumption DEF SelfAndAncestors
  <2>2. ASSUME NEW S \in SUBSET Names, n \in S, \A x \in S : Parent[x] \in S \cup {NoName} PROVE Parent[a] \in S
    <3>1. a \in S
      BY <2>2 DEF SelfAndAncestors
    <3> QED  BY Zenon, <1>2, <2>2, <3>1
  <2> QED  BY Zenon, <2>1, <2>2 DEF SelfAndAncestors
<1> QED  BY <1>1, <1>2

\* The remaining TTL of a live entry is within the stored one.
LEMMA LiveTTL ==
    ASSUME NEW e \in Entry, now \in Nat, e.at <= now, RemainingTTL(e) > 0
    PROVE  RemainingTTL(e) \in 1 .. e.ttl
BY DEF RemainingTTL, Entry

\* What is known stays known as time passes.
LEMMA KnownLater ==
    ASSUME NEW c \in Getter, NEW t \in Nat, NEW u \in Nat, t <= u, c.pc = "check" => c.held \in Entry,
           CallKnown(c, t)
    PROVE  CallKnown(c, u)
<1>1. ASSUME NEW e \in Entry PROVE (Known(e, t) => Known(e, u)) /\ (expiresAt(e) <= t => expiresAt(e) <= u)
  BY DEF Known, expiresAt, Entry
<1>2. c.held \in Entry \cup {NoEntry}
  BY Zenon DEF Getter
<1>3. c.held \in Entry /\ Hit(c, t) => Hit(c, u)
  BY Zenon, <1>1 DEF Hit
<1> QED  BY Zenon, <1>1, <1>2, <1>3 DEF CallKnown

\* A step of one call, which may remove entries from the map.
LEMMA HitStep ==
    ASSUME IInv, HitInv, NEW g \in Getters, NEW c, getter' = [getter EXCEPT ![g] = c], CallKnown(c, now),
           \A k \in cacheKey : entries'[k] = NoEntry \/ entries'[k] = entries[k], now' = now
    PROVE  HitInv'
<1>1. getter \in [Getters -> Getter]
  BY Zenon DEF IInv, TypeOK
<1>2. \A h \in Getters : getter'[h] = IF h = g THEN c ELSE getter[h]
  BY Zenon, <1>1
<1> QED  BY Zenon, <1>2 DEF HitInv

LEMMA LookupKeepsHits ==
    ASSUME IInv, HitInv, NEW g \in Getters,
           GetStep(g) \/ Return(g) \/ \E n \in Names, t \in QTypes : Call(g, n, t)
    PROVE  HitInv'
<1> DEFINE c == getter[g]
<1>1. /\ getter \in [Getters -> Getter] /\ c \in Getter /\ c.op \in {"get", "lookup", "stale"}
      /\ entries \in [cacheKey -> Entry \cup {NoEntry}]
      /\ now \in Nat
      /\ c.pc # "idle" => c.name \in Names /\ c.cursor \in Names
      /\ c.pc \in {"check", "delete"} => c.held \in Entry
      /\ CallKnown(c, now)
  BY DEF IInv, TypeOK, LookupOK, HitInv, Getter
<1>2. \A k \in cacheKey : entries[k] # NoEntry => entries[k] \in Entry /\ entries[k].key = k /\ Known(entries[k], now)
  BY Zenon, <1>1 DEF IInv, HeapCovers, HitInv
<1>3. ASSUME NEW op \in {"get", "lookup", "stale"}, NEW k \in cacheKey, k.qtype \in QTypes, Begin(g, op, k)
      PROVE  HitInv'
  <2> DEFINE d == [pc |-> IF entries[k] # NoEntry THEN "check" ELSE IF op = "get" THEN "nx" ELSE "done",
                   op |-> op, name |-> k.name, qtype |-> k.qtype,
                   cursor |-> k.name, held |-> entries[k], ttl |-> 0]
  <2>1. getter' = [getter EXCEPT ![g] = d] /\ UNCHANGED <<entries, now>>
    BY Zenon, <1>3 DEF Begin
  <2>2. k.name \in SelfAndAncestors(k.name)
    BY Zenon, Ancestors DEF cacheKey
  <2>3. CallKnown(d, now)
    BY Zenon, <1>2, <1>3, <2>2 DEF CallKnown
  <2> HIDE DEF d
  <2> QED  BY Zenon, <2>1, <2>3, HitStep
<1>4. ASSUME NEW n \in Names, NEW t \in QTypes, Call(g, n, t) PROVE HitInv'
  <2>1. key(n, t) \in cacheKey /\ key(n, t).qtype \in QTypes
    BY Zenon DEF key, cacheKey
  <2>2. \A ecs \in ECSPrefixes :
           [name |-> n, qtype |-> t, ecs |-> ecs] \in cacheKey /\ [name |-> n, qtype |-> t, ecs |-> ecs].qtype \in QTypes
    BY DEF cacheKey
  <2> QED  BY Zenon, <1>3, <1>4, <2>1, <2>2 DEF Call, Get, Lookup, GetWithECS, GetStale
<1>5. CASE Return(g)
  <2>1. getter' = [getter EXCEPT ![g] = IdleGetter] /\ UNCHANGED <<entries, now>>
    BY <1>5 DEF Return
  <2>2. CallKnown(IdleGetter, now)
    BY Zenon DEF CallKnown, IdleGetter
  <2> QED  BY Zenon, <2>1, <2>2, HitStep
\* A call that ends returns nothing, or a hit.
<1> DEFINE Ended(e, ttl) == [c EXCEPT !.pc = "done", !.held = e, !.ttl = ttl]
<1>6. ASSUME NEW e, NEW ttl, getter' = Answer(g, e, ttl), c.pc # "idle", e # NoEntry => Hit(Ended(e, ttl), now),
             \A k \in cacheKey : entries'[k] = NoEntry \/ entries'[k] = entries[k], now' = now
      PROVE  HitInv'
  <2> DEFINE d == Ended(e, ttl)
  <2>1. getter' = [getter EXCEPT ![g] = d]
    BY Zenon, <1>1, <1>6 DEF Answer, Getter
  <2>2. /\ d.pc = "done" /\ d.held = e /\ d.qtype = c.qtype /\ d.cursor = c.cursor /\ d.name = c.name
    BY <1>1 DEF Getter
  <2>3. CallKnown(d, now)
    <3> HIDE DEF d
    <3>1. d.held # NoEntry => Hit(d, now)
      BY <1>6, <2>2 DEF d
    <3> QED  BY <1>1, <1>6, <2>2, <3>1 DEF CallKnown
  <2> HIDE DEF d
  <2> QED  BY Zenon, <1>6, <2>1, <2>3, HitStep
<1>7. ASSUME NEW e, NEW ttl
      PROVE  LET d == Ended(e, ttl)
             IN  d.held = e /\ d.ttl = ttl /\ d.op = c.op /\ d.name = c.name /\ d.qtype = c.qtype
  BY Zenon, <1>1 DEF Getter
<1>8. CASE GetNX(g)
  <2> DEFINE k == key(c.name, NXType)
             e == entries[k]
  <2>1. c.pc = "nx" /\ c.op = "get" /\ c.qtype \in QTypes /\ UNCHANGED <<entries, now>>
    BY <1>1, <1>8 DEF GetNX, CallKnown
  <2>2. k \in cacheKey /\ k.name = c.name /\ k.qtype = NXType
    BY Zenon, <1>1, <2>1 DEF key, cacheKey
  <2>3. CASE e # NoEntry /\ getter' = [getter EXCEPT ![g].pc = "check", ![g].held = e]
    <3> DEFINE d == [c EXCEPT !.pc = "check", !.held = e]
    <3>1. getter' = [getter EXCEPT ![g] = d]
      BY Zenon, <1>1, <2>3 DEF Getter
    <3>2. d.pc = "check" /\ d.held = e /\ d.op = c.op /\ d.name = c.name /\ d.qtype = c.qtype /\ d.cursor = c.cursor
      BY <1>1 DEF Getter
    <3>3. e.key = k /\ Known(e, now)
      BY <1>2, <2>2, <2>3
    <3> HIDE DEF d, e, k
    <3>4. CallKnown(d, now)
      BY Zenon, <1>1, <2>1, <2>2, <3>2, <3>3 DEF CallKnown, Known
    <3> QED  BY Zenon, <2>1, <3>1, <3>4, HitStep
  <2>4. CASE HardenBelowNX /\ getter' = [getter EXCEPT ![g].pc = "walk"]
    <3> DEFINE d == [c EXCEPT !.pc = "walk"]
    <3>1. getter' = [getter EXCEPT ![g] = d]
      BY <1>1, <2>4 DEF Getter
    <3>2. d.pc = "walk" /\ d.op = c.op /\ d.name = c.name /\ d.qtype = c.qtype /\ d.cursor = c.cursor
      BY <1>1 DEF Getter
    <3> HIDE DEF d
    <3>3. CallKnown(d, now)
      BY <1>1, <2>1, <2>4, <3>2 DEF CallKnown
    <3> QED  BY Zenon, <2>1, <3>1, <3>3, HitStep
  <2>5. CASE getter' = Answer(g, NoEntry, 0)
    BY ZenonT(40), <1>6, <2>1, <2>5
  <2> QED  BY <1>8, <2>3, <2>4, <2>5 DEF GetNX
<1>9. CASE checkParentNXDomain(g)
  <2> DEFINE p == Parent[c.cursor]
             k == key(p, NXType)
             e == entries[k]
  <2>1. /\ c.pc = "walk" /\ c.op = "get" /\ HardenBelowNX /\ c.cursor \in SelfAndAncestors(c.name)
        /\ UNCHANGED <<entries, now>>
    BY <1>1, <1>9 DEF checkParentNXDomain, CallKnown
  <2>2. p # NoName => p \in Names /\ p \in SelfAndAncestors(c.name)
    BY Zenon, <1>1, <2>1, KeyAssumption, Ancestors
  <2>3. p # NoName => k \in cacheKey /\ k.name = p /\ k.qtype = NXType
    BY Zenon, <2>2 DEF key, cacheKey
  <2>4. CASE getter' = Answer(g, NoEntry, 0)
    BY Zenon, <1>6, <2>1, <2>4
  <2>5. CASE p # NoName /\ e # NoEntry /\ RemainingTTL(e) > 0 /\ getter' = Answer(g, e, RemainingTTL(e))
    <3>1. e \in Entry /\ e.key = k /\ Known(e, now)
      BY Zenon, <1>2, <2>3, <2>5
    <3>2. RemainingTTL(e) \in 1 .. e.ttl
      BY Zenon, <1>1, <2>5, <3>1, LiveTTL DEF Known
    <3>3. e.kind = "nxdomain" /\ e.key.name \in SelfAndAncestors(c.name)
      BY Zenon, <2>2, <2>3, <2>5, <3>1 DEF Known
    <3>4. Hit(Ended(e, RemainingTTL(e)), now)
      <4> DEFINE d == Ended(e, RemainingTTL(e))
      <4>1. d.held = e /\ d.ttl = RemainingTTL(e) /\ d.op = c.op /\ d.name = c.name
        BY <1>7
      <4> HIDE DEF d, e, k, p, c
      <4>2. Hit(d, now)
        BY Zenon, <2>1, <3>2, <3>3, <4>1 DEF Hit
      <4> QED  BY <4>2 DEF d
    <3> HIDE DEF Ended, e, k, p, c
    <3> QED  BY <1>6, <2>1, <2>5, <3>4
  <2>6. CASE p # NoName /\ getter' = [getter EXCEPT ![g].cursor = p]
    <3> DEFINE d == [c EXCEPT !.cursor = p]
    <3>1. getter' = [getter EXCEPT ![g] = d]
      BY <1>1, <2>6 DEF Getter
    <3>2. d.pc = "walk" /\ d.op = c.op /\ d.name = c.name /\ d.qtype = c.qtype /\ d.cursor = p
      BY <1>1, <2>1 DEF Getter
    <3> HIDE DEF d, p, e, k
    <3>3. CallKnown(d, now)
      BY Zenon, <1>1, <2>1, <2>2, <2>6, <3>2 DEF CallKnown
    <3> QED  BY Zenon, <2>1, <3>1, <3>3, HitStep
  <2> QED  BY <1>9, <2>4, <2>5, <2>6 DEF checkParentNXDomain
<1>10. CASE GetLive(g)
  <2> DEFINE e == c.held
  <2>1. /\ c.pc = "check" /\ RemainingTTL(e) > 0 /\ UNCHANGED <<entries, now>>
        /\ getter' = IF c.op = "stale" THEN Answer(g, NoEntry, 0) ELSE Answer(g, e, RemainingTTL(e))
    BY Zenon, <1>10 DEF GetLive
  <2>2. CASE c.op = "stale"
    BY Zenon, <1>6, <2>1, <2>2
  <2>3. CASE c.op # "stale"
    <3>1. e \in Entry /\ Known(e, now) /\ e.key.name = c.name /\ c.qtype \in QTypes
          /\ (e.key.qtype = c.qtype \/ (c.op = "get" /\ e.kind = "nxdomain"))
      BY Zenon, <1>1, <2>1 DEF CallKnown
    <3>2. RemainingTTL(e) \in 1 .. e.ttl
      BY Zenon, <1>1, <2>1, <3>1, LiveTTL DEF Known
    <3>3. c.name \in SelfAndAncestors(c.name)
      BY Zenon, <1>1, <2>1, Ancestors
    <3>4. e.key.qtype = c.qtype => e.kind # "nxdomain"
      BY Zenon, <3>1, KeyAssumption DEF Known
    <3>5. Hit(Ended(e, RemainingTTL(e)), now)
      <4> DEFINE d == Ended(e, RemainingTTL(e))
      <4>1. d.held = e /\ d.ttl = RemainingTTL(e) /\ d.op = c.op /\ d.name = c.name /\ d.qtype = c.qtype
        BY <1>7
      <4> HIDE DEF d, e, c
      <4>2. Hit(d, now)
        BY Zenon, <2>3, <3>1, <3>2, <3>3, <3>4, <4>1 DEF Hit
      <4> QED  BY <4>2 DEF d
    <3> HIDE DEF Ended, e, c
    <3> QED  BY <1>6, <2>1, <2>3, <3>5
  <2> QED  BY <2>2, <2>3
<1>11. CASE GetExpired(g)
  <2> DEFINE e == c.held
  <2>1. /\ c.pc = "check" /\ RemainingTTL(e) = 0 /\ UNCHANGED <<entries, now>>
    BY <1>11 DEF GetExpired
  <2>2. CASE getter' = Answer(g, NoEntry, 0)
    BY Zenon, <1>6, <2>1, <2>2
  <2>3. CASE c.op = "stale" /\ getter' = Answer(g, e, 0)
    <3>1. e \in Entry /\ e.key.name = c.name /\ e.key.qtype = c.qtype
      BY Zenon, <1>1, <2>1, <2>3 DEF CallKnown
    <3>2. expiresAt(e) <= now
      BY Zenon, <1>1, <2>1, <3>1, RemainingTTLFacts
    <3>3. Hit(Ended(e, 0), now)
      <4> DEFINE d == Ended(e, 0)
      <4>1. d.held = e /\ d.op = c.op /\ d.name = c.name /\ d.qtype = c.qtype
        BY <1>7
      <4> HIDE DEF d, e, c
      <4>2. Hit(d, now)
        BY Zenon, <2>3, <3>1, <3>2, <4>1 DEF Hit
      <4> QED  BY <4>2 DEF d
    <3> HIDE DEF Ended, e, c
    <3> QED  BY <1>6, <2>1, <2>3, <3>3
  <2>4. CASE getter' = [getter EXCEPT ![g].pc = "delete"]
    <3> DEFINE d == [c EXCEPT !.pc = "delete"]
    <3>1. getter' = [getter EXCEPT ![g] = d]
      BY <1>1, <2>4 DEF Getter
    <3>2. d.pc = "delete" /\ d.name = c.name /\ d.qtype = c.qtype /\ d.cursor = c.cursor
      BY <1>1 DEF Getter
    <3> HIDE DEF d
    <3>3. CallKnown(d, now)
      BY Zenon, <1>1, <2>1, <3>2 DEF CallKnown
    <3> QED  BY Zenon, <2>1, <3>1, <3>3, HitStep
  <2> QED  BY <1>11, <2>2, <2>3, <2>4 DEF GetExpired
<1>12. CASE GetDelete(g)
  <2>1. c.pc = "delete" /\ getter' = Answer(g, NoEntry, 0) /\ now' = now
    BY Zenon, <1>12 DEF GetDelete
  <2>2. \A k \in cacheKey : entries'[k] = NoEntry \/ entries'[k] = entries[k]
    BY Zenon, <1>1, <1>12 DEF GetDelete
  <2> QED  BY Zenon, <1>6, <2>1, <2>2
<1> QED  BY ZenonT(40), <1>4, <1>5, <1>8, <1>9, <1>10, <1>11, <1>12 DEF GetStep

\* An insertion of an entry that is known.
LEMMA InsertKeepsHits ==
    ASSUME IInv, HitInv, NEW k, NEW kind, NEW ttl, NEW at, insert(k, kind, ttl, at),
           at <= now, kind = "nxdomain" <=> k.qtype = NXType
    PROVE  HitInv'
<1> DEFINE e    == [id |-> nextId, key |-> k, kind |-> kind, at |-> at, ttl |-> ttl]
           ents == [entries EXCEPT ![k] = e]
<1>1. entries \in [cacheKey -> Entry \cup {NoEntry}] /\ UNCHANGED <<now, getter>>
  BY Zenon DEF IInv, TypeOK, insert
<1>2. entries' = ents \/ \E v : entries' = [ents EXCEPT ![v] = NoEntry]
  BY Zenon DEF insert
<1>3. Known(e, now)
  BY DEF Known
<1> HIDE DEF e
<1>4. \A l \in cacheKey : entries'[l] \in {NoEntry, e, entries[l]}
  BY Zenon, <1>1, <1>2
<1> QED  BY <1>1, <1>3, <1>4 DEF HitInv

LEMMA UpdateKeepsHits ==
    ASSUME IInv, HitInv, NEW n \in Names, NEW t \in QTypes, Update(n, t)
    PROVE  HitInv'
<1>1. /\ entries \in [cacheKey -> Entry \cup {NoEntry}]
      /\ NXType \notin QTypes
      /\ \A u : key(n, u).qtype = u
      /\ now \in Nat
  BY KeyAssumption DEF IInv, TypeOK, key
<1>2. \A at \in InsertTimes : at <= now
  BY <1>1 DEF InsertTimes
<1>3. ASSUME NEW ecs \in ECSPrefixes \cup {NoECS}, StoreWithStatus(n, t, ecs) PROVE HitInv'
  <2>1. PICK ttl \in WireTTLs \cup {MinTTL}, at \in InsertTimes :
           insert([name |-> n, qtype |-> t, ecs |-> ecs], "positive", clampTTL(ttl), at)
    BY Zenon, <1>3 DEF StoreWithStatus
  <2>2. "positive" = "nxdomain" <=> [name |-> n, qtype |-> t, ecs |-> ecs].qtype = NXType
    BY Zenon, <1>1
  <2> QED  BY Zenon, <1>2, <2>1, <2>2, InsertKeepsHits
<1>4. ASSUME NEW kind \in {"nxdomain", "nodata"}, StoreNegative(n, t, kind) PROVE HitInv'
  <2> DEFINE k == key(n, IF kind = "nxdomain" THEN NXType ELSE t)
  <2>1. PICK ttl \in WireTTLs, at \in InsertTimes : insert(k, kind, clampNegativeTTL(ttl), at)
    BY Zenon, <1>4 DEF StoreNegative
  <2>2. kind = "nxdomain" <=> k.qtype = NXType
    BY Zenon, <1>1
  <2> HIDE DEF k
  <2> QED  BY Zenon, <1>2, <2>1, <2>2, InsertKeepsHits
<1>5. CASE StoreFailure(n, t, DefaultFailureTTL)
  <2>1. PICK at \in InsertTimes : insert(key(n, t), "servfail", clampFailureTTL(DefaultFailureTTL), at)
    BY <1>5 DEF StoreFailure
  <2>2. "servfail" = "nxdomain" <=> key(n, t).qtype = NXType
    BY <1>1
  <2> QED  BY Zenon, <1>2, <2>1, <2>2, InsertKeepsHits
<1>6. CASE Delete(n, t)
  <2>1. UNCHANGED <<now, getter>> /\ \A k \in cacheKey : entries'[k] = NoEntry \/ entries'[k] = entries[k]
    BY <1>1, <1>6 DEF Delete
  <2> QED  BY Zenon, <2>1 DEF HitInv
<1> QED  BY Zenon, <1>3, <1>4, <1>5, <1>6 DEF Update

LEMMA BackgroundKeepsHits ==
    ASSUME IInv, HitInv, Sweep \/ Flush \/ Tick
    PROVE  HitInv'
<1>1. /\ entries \in [cacheKey -> Entry \cup {NoEntry}] /\ now \in Nat /\ getter \in [Getters -> Getter]
      /\ \A g \in Getters : getter[g].pc \in {"check", "delete"} => getter[g].held \in Entry
  BY Zenon DEF IInv, TypeOK, LookupOK
<1>2. CASE Tick
  <2>1. now' \in Nat /\ now <= now' /\ UNCHANGED <<entries, getter>>
    BY <1>1, <1>2, BoundAssumption DEF Tick
  <2>2. ASSUME NEW g \in Getters PROVE CallKnown(getter'[g], now')
    BY ZenonT(40), <1>1, <2>1, KnownLater DEF HitInv
  <2>3. ASSUME NEW k \in cacheKey, entries'[k] # NoEntry PROVE Known(entries'[k], now')
    BY <1>1, <2>1, <2>3 DEF HitInv, Known, Entry
  <2> QED  BY Zenon, <2>2, <2>3 DEF HitInv
<1>3. CASE Sweep \/ Flush
  <2>1. UNCHANGED <<now, getter>> /\ \A k \in cacheKey : entries'[k] = NoEntry \/ entries'[k] = entries[k]
    BY Zenon, <1>3, SweepShardFacts DEF Sweep, Flush, SweepStart, SweepShard, FlushStart, FlushShard
  <2> QED  BY Zenon, <2>1 DEF HitInv
<1> QED  BY Zenon, <1>2, <1>3

\* A lookup returns the entry of its own key or, for a Get, an NXDOMAIN of the
\* name or of one above it, with a TTL the entry still has, although the map and
\* the clock move between the steps of the call.
THEOREM HitsAnswer == Spec => []HitAnswersQuestion
<1>1. IInv /\ Init => HitInv
  <2> SUFFICES ASSUME Init PROVE HitInv
    BY Zenon
  <2>1. IdleGetter.pc = "idle"
    BY DEF IdleGetter
  <2>2. \A g \in Getters : getter[g].pc = "idle"
    BY Zenon, <2>1 DEF Init
  <2>3. \A k \in cacheKey : entries[k] = NoEntry
    BY Zenon DEF Init
  <2> QED  BY Zenon, <2>2, <2>3 DEF HitInv, CallKnown
<1>2. IInv /\ HitInv /\ [Next]_vars => HitInv'
  <2>1. IInv /\ HitInv /\ Next => HitInv'
    BY Zenon, LookupKeepsHits, UpdateKeepsHits, BackgroundKeepsHits DEF Next
  <2>2. HitInv /\ UNCHANGED vars => HitInv'
    BY DEF HitInv, vars
  <2> QED  BY Zenon, <2>1, <2>2
<1>3. IInv /\ HitInv => HitAnswersQuestion
  <2> SUFFICES ASSUME IInv, HitInv PROVE HitAnswersQuestion
    BY Zenon
  <2>1. \A g \in Getters : getter[g].op \in {"get", "lookup", "stale"}
    BY DEF IInv, TypeOK, Getter
  <2>2. \A g \in Getters : getter[g].pc = "done" /\ getter[g].held # NoEntry => Hit(getter[g], now)
    BY Zenon DEF HitInv, CallKnown
  <2> QED  BY Zenon, <2>1, <2>2 DEF HitAnswersQuestion, Hit
<1> QED  BY <1>1, <1>2, <1>3, Invariant, PTL DEF Spec
=============================================================================
