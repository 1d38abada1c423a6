------------------------------ MODULE Inflight ------------------------------
(* inflight.do of package resolver: concurrent callers of one key share one   *)
(* run of fn.  The mutex protects the map only; fn runs, wg.Done is called    *)
(* and the map entry is deleted in separate steps, and callers arrive between *)
(* any two of them.  fn may return a result, an error, or panic.              *)
CONSTANTS
    Callers,    \* goroutines that call do
    Keys,       \* map keys: name, type and class of a question
    Results,    \* what fn may return
    Error,      \* an error returned by fn, or made of a panic it recovers from
    Ids,        \* addresses of call objects, reused once no one refers to them
    Nil         \* nil

ASSUME ResultAssumption == Nil \notin Results \cup {Error} \cup Ids \cup Keys

Values == Results \cup {Error}

VARIABLES
    calls,      \* inf.calls: [Keys -> Ids or Nil]
    callObjects,       \* the call objects: [Ids -> [result, done]]
    goroutine   \* each goroutine: where it is in do, for which key and call

inflightVars == <<calls, callObjects, goroutine>>

IdleProc == [pc |-> "idle", key |-> Nil, id |-> Nil, ret |-> Nil]

InflightInit ==
    /\ calls = [k \in Keys |-> Nil]
    /\ callObjects = [i \in Ids |-> [result |-> Nil, done |-> FALSE]]
    /\ goroutine = [p \in Callers |-> IdleProc]

Unused(i) == (\A k \in Keys : calls[k] # i) /\ (\A p \in Callers : goroutine[p].id # i)

NewCall == [result |-> Nil, done |-> FALSE]

\* The lookup and the registration under two locks: a caller that saw no call
\* registers its own over one registered since.
Register_Racy(p, k, i) ==
    /\ goroutine[p].pc = "idle"
    /\ Unused(i)
    /\ calls' = [calls EXCEPT ![k] = i]
    /\ callObjects' = [callObjects EXCEPT ![i] = NewCall]
    /\ goroutine' = [goroutine EXCEPT ![p] = [pc |-> "run", key |-> k, id |-> i, ret |-> Nil]]

\* Under the mutex: no call is registered for the key, register a new one.
Register(p, k, i) ==
    /\ goroutine[p].pc = "idle"
    /\ calls[k] = Nil
    /\ Unused(i)
    /\ calls' = [calls EXCEPT ![k] = i]
    /\ callObjects' = [callObjects EXCEPT ![i] = NewCall]
    /\ goroutine' = [goroutine EXCEPT ![p] = [pc |-> "run", key |-> k, id |-> i, ret |-> Nil]]

\* Under the mutex: a call is registered, wait for it.
Join(p, k) ==
    /\ goroutine[p].pc = "idle"
    /\ calls[k] # Nil
    /\ goroutine' = [goroutine EXCEPT ![p] = [pc |-> "wait", key |-> k, id |-> calls[k], ret |-> Nil]]
    /\ UNCHANGED <<calls, callObjects>>

\* The panic unwinds do itself: no Done, no delete.
Panic_Unrecovered(p, v) ==
    /\ goroutine[p].pc = "run"
    /\ \/ /\ v # Error
          /\ callObjects' = [callObjects EXCEPT ![goroutine[p].id].result = v]
          /\ goroutine' = [goroutine EXCEPT ![p].pc = "ran"]
       \/ /\ v = Error
          /\ goroutine' = [goroutine EXCEPT ![p].pc = "returned", ![p].ret = Error]
          /\ UNCHANGED callObjects
    /\ UNCHANGED calls

\* fn returns v; a panic is recovered and becomes an error.
RunFn(p, v) ==
    /\ goroutine[p].pc = "run"
    /\ callObjects' = [callObjects EXCEPT ![goroutine[p].id].result = v]
    /\ goroutine' = [goroutine EXCEPT ![p].pc = "ran"]
    /\ UNCHANGED calls

\* c.wg.Done(): the waiters may go on.
Done(p) ==
    /\ goroutine[p].pc = "ran"
    /\ callObjects' = [callObjects EXCEPT ![goroutine[p].id].done = TRUE]
    /\ goroutine' = [goroutine EXCEPT ![p].pc = "done"]
    /\ UNCHANGED calls

\* Under the mutex: delete(inf.calls, key); then return.
Remove(p) ==
    /\ goroutine[p].pc = "done"
    /\ calls' = [calls EXCEPT ![goroutine[p].key] = Nil]
    /\ goroutine' = [goroutine EXCEPT ![p].pc = "returned", ![p].ret = callObjects[goroutine[p].id].result]
    /\ UNCHANGED callObjects

\* c.wg.Wait() returns.
Wake(p) ==
    /\ goroutine[p].pc = "wait"
    /\ callObjects[goroutine[p].id].done
    /\ goroutine' = [goroutine EXCEPT ![p].pc = "returned", ![p].ret = callObjects[goroutine[p].id].result]
    /\ UNCHANGED <<calls, callObjects>>

\* The caller is done with the result.
Leave(p) ==
    /\ goroutine[p].pc = "returned"
    /\ goroutine' = [goroutine EXCEPT ![p] = IdleProc]
    /\ UNCHANGED <<calls, callObjects>>

CallStep(p) == (\E v \in Values : RunFn(p, v)) \/ Done(p) \/ Remove(p) \/ Wake(p)

InflightNext ==
    \/ \E p \in Callers, k \in Keys : Join(p, k) \/ \E i \in Ids : Register(p, k, i)
    \/ \E p \in Callers : CallStep(p) \/ Leave(p)

InflightSpec == InflightInit /\ [][InflightNext]_inflightVars

\* fn ends: upstream queries have timeouts and the iteration has a bound.  A
\* goroutine that can run is run.  Nobody is made to call.
InflightFairSpec == InflightSpec /\ \A p \in Callers : WF_inflightVars(CallStep(p))

-----------------------------------------------------------------------------
\* Every variable has its type.
InflightTypeOK ==
    /\ calls \in [Keys -> Ids \cup {Nil}]
    /\ callObjects \in [Ids -> [result : Values \cup {Nil}, done : BOOLEAN]]
    /\ goroutine \in [Callers -> [pc : {"idle", "run", "ran", "done", "wait", "returned"},
                             key : Keys \cup {Nil}, id : Ids \cup {Nil}, ret : Values \cup {Nil}]]

Leading(p) == goroutine[p].pc \in {"run", "ran", "done"}

\* "only one upstream resolution runs": two goroutines never lead the same key
\* at once, so the delete of one cannot unregister the call of another.
OneLeader ==
    \A p, q \in Callers : Leading(p) /\ Leading(q) /\ goroutine[p].key = goroutine[q].key => p = q

\* "all waiters share the result": whoever returns from do returns the result
\* of the call it registered or joined, which is not nil and no longer changes.
SharedResult ==
    \A p \in Callers : goroutine[p].pc = "returned" =>
        goroutine[p].ret # Nil /\ goroutine[p].ret = callObjects[goroutine[p].id].result

\* A key is registered only while its leader is inside do: nothing is left in
\* the map that no one would ever delete.
NoOrphan ==
    \A k \in Keys : calls[k] # Nil => \E p \in Callers : Leading(p) /\ goroutine[p].key = k /\ goroutine[p].id = calls[k]

\* Every caller of do returns, also when fn panics.
EveryCallerReturns == \A p \in Callers : (goroutine[p].pc # "idle") ~> (goroutine[p].pc = "returned")

\* The coalescer this implements: a call's outcome is published by wg.Done,
\* and the leader forgets the key and takes its answer in one step.
Abs == INSTANCE Coalescer WITH
    None <- Nil,
    Outcomes <- Values,
    current <- calls,
    outcome <- [i \in Ids |-> IF callObjects[i].done THEN callObjects[i].result ELSE Nil],
    caller <- [p \in Callers |->
        [state |-> IF goroutine[p].pc = "idle" THEN "idle" ELSE IF goroutine[p].pc = "returned" THEN "answered" ELSE "asked",
         id |-> goroutine[p].id, got |-> goroutine[p].ret]]

\* do implements the abstract coalescer: every step is a step of it or none.
Coalesces == Abs!ASpec
=============================================================================
