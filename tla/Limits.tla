------------------------------- MODULE Limits -------------------------------
(* RateLimiter and RRL of package security: token buckets, one per client     *)
(* address for queries and one per (network, name, rcode) for responses.      *)
(*                                                                            *)
(* Time is counted in ticks and tokens in Units, so that a tick may be worth  *)
(* less than a token, as the float64 fields of the code allow.                *)
EXTENDS Integers

CONSTANTS
    Clients,        \* client addresses
    Keys,           \* rrlKey: what AllowResponse distinguishes
    Unit,           \* one token
    Rate, Burst,    \* RateLimiter: units per tick, tokens in a full bucket
    Cleanup,        \* RateLimiter.cleanup, in ticks
    RespRate,       \* RRL: units per tick
    RespBurst,      \* RRL: tokens in a full bucket (responsesPerSecond)
    SlipRatio,
    MaxTime,        \* bound on the clock
    None

ASSUME UnitAssumption == Unit \in Nat \ {0} /\ Burst \in Nat \ {0} /\ RespBurst \in Nat \ {0}
ASSUME RateAssumption == Rate \in Nat /\ RespRate \in Nat /\ SlipRatio \in Nat /\ MaxTime \in Nat
\* A bucket idle for rl.cleanup is full again: 5 minutes at the configured rate.
ASSUME CleanupAssumption == Cleanup \in Nat /\ Cleanup * Rate >= Burst * Unit
\* A nil map entry is not a bucket.
ASSUME NoneAssumption ==
    None \notin [tokens : Int, lastTime : Int] \cup [tokens : Int, lastTime : Int, slipCount : Int]

VARIABLES
    now,
    clients,        \* RateLimiter.clients
    entries,        \* RRL.entries
    since,          \* history: the start of an interval, picked at any time
    admitted,       \* history: queries let in since then, per client
    responded,      \* history: full responses let out since then, per key
    droppedInARow   \* history: responses dropped since the last one that went out, per key

limits == <<now, clients, entries, since, admitted, responded, droppedInARow>>

\* The bucket b holds when it is looked at.
Refill(b, rate, cap) ==
    LET t == b.tokens + (now - b.lastTime) * rate IN IF t > cap * Unit THEN cap * Unit ELSE t

\* The first query of a client is free.
Allow_FirstFree(c, ok) ==
    /\ ok \in BOOLEAN
    /\ IF clients[c] = None
       THEN ok /\ clients' = [clients EXCEPT ![c] = [tokens |-> Burst * Unit, lastTime |-> now]]
       ELSE LET t == Refill(clients[c], Rate, Burst) IN
            /\ ok = (t >= Unit)
            /\ clients' = [clients EXCEPT ![c] = [tokens |-> IF ok THEN t - Unit ELSE t,
                                                  lastTime |-> now]]
    /\ admitted' = [admitted EXCEPT ![c] = IF ok THEN @ + 1 ELSE @]
    /\ UNCHANGED <<now, entries, since, responded, droppedInARow>>

\* RateLimiter.Allow(c) returns ok.
Allow(c, ok) ==
    /\ ok \in BOOLEAN
    /\ IF clients[c] = None
       THEN ok /\ clients' = [clients EXCEPT ![c] = [tokens |-> (Burst - 1) * Unit, lastTime |-> now]]
       ELSE LET t == Refill(clients[c], Rate, Burst) IN
            /\ ok = (t >= Unit)
            /\ clients' = [clients EXCEPT ![c] = [tokens |-> IF ok THEN t - Unit ELSE t,
                                                  lastTime |-> now]]
    /\ admitted' = [admitted EXCEPT ![c] = IF ok THEN @ + 1 ELSE @]
    /\ UNCHANGED <<now, entries, since, responded, droppedInARow>>

\* What becomes of a response without a token, and slipCount modulo SlipRatio.
Limited(e) ==
    LET n == (e.slipCount + 1) % SlipRatio
    IN  IF SlipRatio = 0 THEN <<"drop", 0>> ELSE IF n = 0 THEN <<"slip", 0>> ELSE <<"drop", n>>

\* RRL.AllowResponse for key k returns act.
AllowResponse(k, act) ==
    /\ IF entries[k] = None
       THEN /\ act = "allow"
            /\ entries' = [entries EXCEPT ![k] = [tokens |-> (RespBurst - 1) * Unit,
                                                  lastTime |-> now, slipCount |-> 0]]
       ELSE LET t == Refill(entries[k], RespRate, RespBurst) IN
            \/ /\ t >= Unit /\ act = "allow"
               /\ entries' = [entries EXCEPT ![k].tokens = t - Unit, ![k].lastTime = now]
            \/ /\ t < Unit /\ act = Limited(entries[k])[1]
               /\ entries' = [entries EXCEPT ![k] = [tokens |-> t, lastTime |-> now,
                                                     slipCount |-> Limited(@)[2]]]
    /\ responded' = [responded EXCEPT ![k] = IF act = "allow" THEN @ + 1 ELSE @]
    /\ droppedInARow' = [droppedInARow EXCEPT ![k] = IF act = "drop" /\ SlipRatio > 0 THEN @ + 1 ELSE 0]
    /\ UNCHANGED <<now, clients, since, admitted>>

\* A turn of RateLimiter.StartCleanup; its ticker may be late.
StartCleanup ==
    /\ clients' = [c \in Clients |->
           IF clients[c] # None /\ clients[c].lastTime < now - Cleanup THEN None ELSE clients[c]]
    /\ UNCHANGED <<now, entries, since, admitted, responded, droppedInARow>>

Tick == /\ now < MaxTime
        /\ now' = now + 1
        /\ UNCHANGED <<clients, entries, since, admitted, responded, droppedInARow>>

\* The observer starts counting again: what is claimed holds of every interval.
Observe == /\ since' = now
           /\ admitted' = [c \in Clients |-> 0]
           /\ responded' = [k \in Keys |-> 0]
           /\ UNCHANGED <<now, clients, entries, droppedInARow>>

LimitsInit ==
    /\ now = 0 /\ since = 0
    /\ clients = [c \in Clients |-> None] /\ admitted = [c \in Clients |-> 0]
    /\ entries = [k \in Keys |-> None] /\ responded = [k \in Keys |-> 0]
    /\ droppedInARow = [k \in Keys |-> 0]

LimitsNext == \/ \E c \in Clients, ok \in BOOLEAN : Allow(c, ok)
              \/ \E k \in Keys, act \in {"allow", "drop", "slip"} : AllowResponse(k, act)
              \/ StartCleanup \/ Tick \/ Observe

\* All the handler does to the two limiters, from whatever goroutine, is call
\* Allow and AllowResponse: what is proved of LimitsSpec holds in the handler.
LimitsSpec == LimitsInit /\ [][LimitsNext]_limits

-----------------------------------------------------------------------------
\* Buckets hold between none and a full bucket of tokens.
LimitsTypeOK ==
    /\ now \in 0 .. MaxTime /\ since \in 0 .. now
    /\ clients \in [Clients -> [tokens : 0 .. Burst * Unit, lastTime : 0 .. now] \cup {None}]
    /\ entries \in [Keys -> [tokens : 0 .. RespBurst * Unit, lastTime : 0 .. now,
                             slipCount : Nat] \cup {None}]
    /\ admitted \in [Clients -> Nat]
    /\ responded \in [Keys -> Nat]
    /\ droppedInARow \in [Keys -> Nat]

\* RateLimiter.Allow: in no interval does a client get more queries in than a
\* full bucket and what the rate adds, idle clients being forgotten included.
AdmittedBound ==
    \A c \in Clients : admitted[c] * Unit <= Burst * Unit + (now - since) * Rate

\* RRL.AllowResponse: nor do more full responses of one kind go to one network.
RespondedBound ==
    \A k \in Keys : responded[k] * Unit <= RespBurst * Unit + (now - since) * RespRate

\* Both limiters keep to their rates, in every interval (Allow, AllowResponse).
RatesAreKept == AdmittedBound /\ RespondedBound

\* RRL.AllowResponse: of any SlipRatio limited responses in a row one goes out
\* truncated, so a client behind a limited network can always fall back to TCP.
SlipKeepsWayOpen == SlipRatio > 0 => \A k \in Keys : droppedInARow[k] < SlipRatio
=============================================================================
