----------------------------- MODULE Coalescer -----------------------------
(* What request coalescing promises its callers: at most one computation per  *)
(* key is under way, everyone who asks while it is registered is given its    *)
(* outcome, and only that.                                                    *)
CONSTANTS
    Callers,    \* goroutines that ask
    Keys,       \* questions
    Outcomes,   \* what a computation may produce
    Ids,        \* identities of computations, reused once no one refers to them
    None        \* no computation, no outcome

VARIABLES
    current,    \* [Keys -> Ids or None]: the computation new callers join
    outcome,    \* [Ids -> Outcomes or None]: None until it is published
    caller      \* each caller: the computation it waits for or was answered by

avars == <<current, outcome, caller>>

IdleCaller == [state |-> "idle", id |-> None, got |-> None]

AInit ==
    /\ current = [k \in Keys |-> None]
    /\ outcome = [i \in Ids |-> None]
    /\ caller = [p \in Callers |-> IdleCaller]

Unused(i) == (\A k \in Keys : current[k] # i) /\ (\A p \in Callers : caller[p].id # i)

\* A caller starts the computation of a key that has none.
Start(p, k, i) ==
    /\ caller[p].state = "idle"
    /\ current[k] = None
    /\ Unused(i)
    /\ caller' = [caller EXCEPT ![p] = [state |-> "asked", id |-> i, got |-> None]]
    /\ current' = [current EXCEPT ![k] = i]
    /\ outcome' = [outcome EXCEPT ![i] = None]

\* A caller joins the computation of its key.
Attach(p, k) ==
    /\ caller[p].state = "idle"
    /\ current[k] # None
    /\ caller' = [caller EXCEPT ![p] = [state |-> "asked", id |-> current[k], got |-> None]]
    /\ UNCHANGED <<current, outcome>>

\* A computation publishes its outcome, once.
Publish(k, v) ==
    /\ current[k] # None
    /\ outcome[current[k]] = None
    /\ outcome' = [outcome EXCEPT ![current[k]] = v]
    /\ UNCHANGED <<current, caller>>

\* Later callers start anew.
Forget(k) ==
    /\ current[k] # None
    /\ outcome[current[k]] # None
    /\ current' = [current EXCEPT ![k] = None]

AnswerCaller(p) ==
    /\ caller[p].state = "asked"
    /\ outcome[caller[p].id] # None
    /\ caller' = [caller EXCEPT ![p] =
           [state |-> "answered", id |-> caller[p].id, got |-> outcome[caller[p].id]]]

Leave(p) ==
    /\ caller[p].state = "answered"
    /\ caller' = [caller EXCEPT ![p] = IdleCaller]
    /\ UNCHANGED <<current, outcome>>

ANext ==
    \/ \E p \in Callers, k \in Keys : Attach(p, k) \/ \E i \in Ids : Start(p, k, i)
    \/ \E k \in Keys, v \in Outcomes : Publish(k, v)
    \/ \E p \in Callers : AnswerCaller(p) /\ UNCHANGED <<current, outcome>>
    \/ \E k \in Keys, p \in Callers : Forget(k) /\ AnswerCaller(p) /\ UNCHANGED outcome
    \/ \E p \in Callers : Leave(p)

ASpec == AInit /\ [][ANext]_avars
=============================================================================
