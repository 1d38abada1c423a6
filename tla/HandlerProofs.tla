---------------------------- MODULE HandlerProofs ----------------------------
(* The bounds of the two limiters, for every rate, burst, slip ratio and set   *)
(* of clients.  What is inductive is a budget: the tokens a bucket would hold   *)
(* now and the tokens spent since the interval began are together no more than  *)
(* a full bucket and what the rate has added.                                   *)
(*                                                                              *)
(* Handle keeps the scope, the validation verdict, the private address filter  *)
(* and the access lists for every set of queries, results and goroutines, and  *)
(* uses the limiters as LimitsSpec says.  The inductive invariant says of each *)
(* cache entry and of each result in a goroutine's hands what the properties   *)
(* say of the responses made of them.                                          *)
(*                                                                             *)
(* The blocklist manager, for any lists, names, rules and goroutines.          *)
EXTENDS Handler, Blocklist, TLAPS

\* Time for the provers on a machine that is busy.
USE SMTT(30), ZenonT(30)

-----------------------------------------------------------------------------
(* The limiters.                                                               *)


\* What Refill gives at time t, and the budget, at time t and for an interval
\* that began at s, of a bucket b that let n through since then.
Level(b, t, rate, cap) ==
    LET l == b.tokens + (t - b.lastTime) * rate IN IF l > cap * Unit THEN cap * Unit ELSE l

Budget(b, n, rate, cap, t, s) ==
    IF b = None THEN n * Unit <= (t - s) * rate
    ELSE Level(b, t, rate, cap) + n * Unit <= cap * Unit + (t - s) * rate

\* The responses dropped in a row are among those slipCount has counted.
SlipCounted(e, n) == SlipRatio > 0 => IF e = None THEN n = 0 ELSE n <= e.slipCount /\ e.slipCount < SlipRatio

LimitsInv ==
    /\ LimitsTypeOK
    /\ \A c \in Clients : Budget(clients[c], admitted[c], Rate, Burst, now, since)
    /\ \A k \in Keys : Budget(entries[k], responded[k], RespRate, RespBurst, now, since)
    /\ \A k \in Keys : SlipCounted(entries[k], droppedInARow[k])

-----------------------------------------------------------------------------
\* A longer time adds no less (the elapsed.Seconds() * rate of both limiters).
LEMMA Monotone == ASSUME NEW x \in Int, NEW y \in Int, NEW r \in Nat, x <= y PROVE x * r <= y * r
  <1>1. (y - x) \in Nat
    OBVIOUS
  <1>2. \A u, v \in Nat : u * v >= 0
    BY Z3
  <1>3. (y - x) * r >= 0
    BY <1>1, <1>2
  <1>4. (y - x) * r = y * r - x * r
    BY Z3
  <1> QED BY <1>3, <1>4

\* A product of natural numbers is one.
LEMMA ProductNat == ASSUME NEW x \in Nat, NEW y \in Nat PROVE x * y \in Nat
  <1>1. x * y >= 0
    BY Z3
  <1> QED BY <1>1

\* A bucket never holds more than a full one, nor less than nothing.
LEMMA LevelType ==
  ASSUME NEW b, NEW t \in Nat, NEW rate \in Nat, NEW cap \in Nat \ {0},
         b.tokens \in 0 .. cap * Unit, b.lastTime \in 0 .. t
  PROVE  Level(b, t, rate, cap) \in 0 .. cap * Unit
  <1>1. cap * Unit \in Nat /\ (t - b.lastTime) \in Nat
    BY ProductNat, UnitAssumption
  <1>2. (t - b.lastTime) * rate \in Nat
    BY <1>1, ProductNat
  <1> QED BY <1>1, <1>2 DEF Level

\* A bucket just written holds what was written (lastTime = now).
LEMMA LevelNow ==
  ASSUME NEW b, NEW t \in Nat, NEW rate \in Nat, NEW cap \in Nat \ {0},
         b.tokens \in 0 .. cap * Unit, b.lastTime = t
  PROVE  Level(b, t, rate, cap) = b.tokens
  <1>1. cap * Unit \in Nat
    BY ProductNat, UnitAssumption
  <1>2. (t - b.lastTime) * rate = 0
    BY Z3
  <1> QED BY <1>1, <1>2 DEF Level

\* A tick adds at most the rate to a bucket, so the budget lasts (Tick).
LEMMA BudgetTick ==
  ASSUME NEW b, NEW n \in Nat, NEW rate \in Nat, NEW cap \in Nat \ {0}, NEW t \in Nat, NEW s \in 0 .. t,
         b # None => b.tokens \in 0 .. cap * Unit /\ b.lastTime \in 0 .. t,
         Budget(b, n, rate, cap, t, s)
  PROVE  Budget(b, n, rate, cap, t + 1, s)
  <1>1. cap * Unit \in Nat /\ n * Unit \in Nat
    BY ProductNat, UnitAssumption
  <1>2. (t + 1 - s) * rate = (t - s) * rate + rate /\ (t - s) * rate \in Int
    BY Z3
  <1>3. CASE b = None
    BY <1>1, <1>2, <1>3 DEF Budget
  <1>4. CASE b # None
    <2>1. (t + 1 - b.lastTime) * rate = (t - b.lastTime) * rate + rate /\ (t - b.lastTime) * rate \in Int
      BY <1>4, Z3
    <2>2. Level(b, t + 1, rate, cap) <= Level(b, t, rate, cap) + rate /\ Level(b, t + 1, rate, cap) \in Int /\ Level(b, t, rate, cap) \in Int
      BY <1>1, <1>4, <2>1 DEF Level
    <2> QED BY <1>1, <1>2, <1>4, <2>2 DEF Budget
  <1> QED BY <1>3, <1>4

\* A token is taken for what is let through, from a new bucket or from one that
\* has a token; nothing is taken for what is refused (Allow, AllowResponse).
LEMMA BudgetSpend ==
  ASSUME NEW b, NEW d, NEW ok \in BOOLEAN, NEW n \in Nat, NEW rate \in Nat, NEW cap \in Nat \ {0}, NEW t \in Nat, NEW s \in 0 .. t,
         b # None => b.tokens \in 0 .. cap * Unit /\ b.lastTime \in 0 .. t,
         d # None, d.lastTime = t,
         b = None => ok /\ d.tokens = (cap - 1) * Unit,
         b # None => /\ ok = (Level(b, t, rate, cap) >= Unit)
                     /\ d.tokens = IF ok THEN Level(b, t, rate, cap) - Unit ELSE Level(b, t, rate, cap),
         Budget(b, n, rate, cap, t, s)
  PROVE  /\ d.tokens \in 0 .. cap * Unit
         /\ Budget(d, IF ok THEN n + 1 ELSE n, rate, cap, t, s)
  <1>1. cap * Unit \in Nat /\ n * Unit \in Nat /\ (cap - 1) * Unit \in Nat
    BY ProductNat, UnitAssumption
  <1>2. (t - s) * rate \in Int /\ (n + 1) * Unit = n * Unit + Unit /\ (cap - 1) * Unit = cap * Unit - Unit
    BY UnitAssumption, Z3
  <1>3. b # None => Level(b, t, rate, cap) \in 0 .. cap * Unit
    BY Zenon, LevelType
  <1>4. d.tokens \in 0 .. cap * Unit
    BY <1>1, <1>2, <1>3, UnitAssumption
  <1>5. Level(d, t, rate, cap) = d.tokens
    BY <1>4, LevelNow
  <1>6. d.tokens + (IF ok THEN n + 1 ELSE n) * Unit <= cap * Unit + (t - s) * rate
    <2>1. CASE b = None
      BY <1>1, <1>2, <2>1, UnitAssumption DEF Budget
    <2>2. CASE b # None /\ ok
      BY <1>1, <1>2, <1>3, <2>2, UnitAssumption DEF Budget
    <2>3. CASE b # None /\ ~ok
      BY <1>1, <1>2, <1>3, <2>3, UnitAssumption DEF Budget
    <2> QED BY <2>1, <2>2, <2>3
  <1> QED BY <1>4, <1>5, <1>6 DEF Budget

\* A bucket forgotten was full, and a new one is (StartCleanup).
LEMMA BudgetForget ==
  ASSUME NEW b, NEW n \in Nat, NEW t \in Nat, NEW s \in 0 .. t, b # None,
         b.tokens \in 0 .. Burst * Unit, b.lastTime \in 0 .. t, b.lastTime < t - Cleanup,
         Budget(b, n, Rate, Burst, t, s)
  PROVE  Budget(None, n, Rate, Burst, t, s)
  <1>1. Cleanup * Rate <= (t - b.lastTime) * Rate
    BY Monotone, RateAssumption, CleanupAssumption
  <1>2. Burst * Unit \in Nat /\ Cleanup * Rate \in Nat /\ n * Unit \in Nat
    BY ProductNat, UnitAssumption, RateAssumption, CleanupAssumption
  <1>3. (t - b.lastTime) * Rate \in Int /\ (t - s) * Rate \in Int
    BY RateAssumption, Z3
  <1>4. Level(b, t, Rate, Burst) = Burst * Unit
    BY <1>1, <1>2, <1>3, CleanupAssumption DEF Level
  <1> QED BY <1>2, <1>3, <1>4 DEF Budget

\* The count of limited responses goes up by one to the slip (AllowResponse).
LEMMA SlipStep ==
  ASSUME NEW e, NEW n \in Nat, SlipRatio > 0, e.slipCount \in Nat, n <= e.slipCount, e.slipCount < SlipRatio
  PROVE  /\ Limited(e)[2] \in Nat /\ Limited(e)[2] < SlipRatio
         /\ Limited(e)[1] \in {"drop", "slip"}
         /\ Limited(e)[1] = "drop" => n + 1 <= Limited(e)[2]
  <1>1. SlipRatio \in Nat
    BY RateAssumption
  <1>2. CASE e.slipCount + 1 = SlipRatio
    <2>1. (e.slipCount + 1) % SlipRatio = 0
      BY <1>1, <1>2, Z3
    <2> QED BY <1>1, <2>1 DEF Limited
  <1>3. CASE e.slipCount + 1 < SlipRatio
    <2>1. (e.slipCount + 1) % SlipRatio = e.slipCount + 1
      BY <1>1, <1>3, Z3
    <2> QED BY <1>1, <2>1 DEF Limited
  <1> QED BY <1>1, <1>2, <1>3

-----------------------------------------------------------------------------
\* What Refill reads is the level at the present time.
LEMMA RefillIsLevel == ASSUME NEW b, NEW rate, NEW cap PROVE Refill(b, rate, cap) = Level(b, now, rate, cap)
  BY DEF Refill, Level

\* The limiters start with nothing spent (NewRateLimiter, NewRRL).
LEMMA InitInv == LimitsInit => LimitsInv
  <1> SUFFICES ASSUME LimitsInit PROVE LimitsInv
    OBVIOUS
  <1>1. LimitsTypeOK
    BY RateAssumption DEF LimitsInit, LimitsTypeOK
  <1>2. 0 * Unit = 0 /\ (0 - 0) * Rate = 0 /\ (0 - 0) * RespRate = 0
    BY UnitAssumption, RateAssumption, Z3
  <1> QED BY <1>1, <1>2 DEF LimitsInit, LimitsInv, Budget, SlipCounted

\* Allow takes its token from the client's bucket (RateLimiter.Allow).
LEMMA AllowInv ==
  ASSUME LimitsInv, NEW c \in Clients, NEW ok \in BOOLEAN, Allow(c, ok)
  PROVE  LimitsInv'
  <1> DEFINE b == clients[c]
             d == clients'[c]
  <1>1. now' = now /\ since' = since /\ entries' = entries /\ responded' = responded /\ droppedInARow' = droppedInARow
    BY DEF Allow
  <1>2. LimitsTypeOK /\ now \in Nat /\ since \in 0 .. now
    BY RateAssumption DEF LimitsInv, LimitsTypeOK
  <1>3. admitted[c] \in Nat /\ (b # None => b.tokens \in 0 .. Burst * Unit /\ b.lastTime \in 0 .. now)
    BY <1>2 DEF LimitsTypeOK
  <1>4. /\ b = None => ok /\ d = [tokens |-> (Burst - 1) * Unit, lastTime |-> now]
        /\ b # None => /\ ok = (Level(b, now, Rate, Burst) >= Unit)
                       /\ d = [tokens |-> IF ok THEN Level(b, now, Rate, Burst) - Unit ELSE Level(b, now, Rate, Burst),
                               lastTime |-> now]
    BY <1>2, RefillIsLevel DEF Allow, LimitsTypeOK
  <1>5. d = [tokens |-> d.tokens, lastTime |-> now] /\ d.lastTime = now
    BY <1>4
  <1>6. d.tokens \in Int
    <2>1. Burst * Unit \in Nat /\ (Burst - 1) * Unit \in Nat
      BY ProductNat, UnitAssumption
    <2>2. b # None => Level(b, now, Rate, Burst) \in 0 .. Burst * Unit
      BY <1>2, <1>3, LevelType, RateAssumption, UnitAssumption
    <2> QED BY <1>4, <2>1, <2>2, UnitAssumption
  <1>7. d # None
    BY <1>2, <1>5, <1>6, NoneAssumption
  <1>8. Budget(b, admitted[c], Rate, Burst, now, since)
    BY DEF LimitsInv
  <1>9. d.tokens \in 0 .. Burst * Unit /\ Budget(d, IF ok THEN admitted[c] + 1 ELSE admitted[c], Rate, Burst, now, since)
    <2>1. /\ b = None => ok /\ d.tokens = (Burst - 1) * Unit
          /\ b # None => /\ ok = (Level(b, now, Rate, Burst) >= Unit)
                         /\ d.tokens = IF ok THEN Level(b, now, Rate, Burst) - Unit ELSE Level(b, now, Rate, Burst)
      BY <1>4
    <2> HIDE DEF b, d
    <2> QED BY Zenon, <1>2, <1>3, <1>5, <1>7, <1>8, <2>1, BudgetSpend, RateAssumption, UnitAssumption
  <1>10. clients' = [clients EXCEPT ![c] = d] /\ admitted' = [admitted EXCEPT ![c] = IF ok THEN @ + 1 ELSE @]
    BY <1>2 DEF Allow, LimitsTypeOK
  <1>11. LimitsTypeOK'
    <2>1. d \in [tokens : 0 .. Burst * Unit, lastTime : 0 .. now]
      BY <1>2, <1>5, <1>9
    <2> HIDE DEF d
    <2> QED BY <1>1, <1>2, <1>10, <2>1 DEF LimitsTypeOK
  <1>12. ASSUME NEW e \in Clients PROVE Budget(clients[e], admitted[e], Rate, Burst, now, since)'
    <2>1. CASE e = c
      <3>1. admitted'[c] = IF ok THEN admitted[c] + 1 ELSE admitted[c]
        BY <1>2, <1>10 DEF LimitsTypeOK
      <3> QED BY <1>1, <1>9, <2>1, <3>1 DEF Budget, Level
    <2>2. CASE e # c
      <3>1. clients'[e] = clients[e] /\ admitted'[e] = admitted[e]
        BY <1>2, <1>10, <2>2 DEF LimitsTypeOK
      <3>2. Budget(clients[e], admitted[e], Rate, Burst, now, since)
        BY Zenon DEF LimitsInv
      <3> QED BY <1>1, <3>1, <3>2 DEF Budget, Level
    <2> QED BY <2>1, <2>2
  <1>13. \A k \in Keys : Budget(entries[k], responded[k], RespRate, RespBurst, now, since)' /\ SlipCounted(entries[k], droppedInARow[k])'
    BY Zenon, <1>1 DEF LimitsInv, Budget, Level, SlipCounted
  <1> QED BY <1>11, <1>12, <1>13 DEF LimitsInv

\* AllowResponse takes its token from the bucket of the response's key, and
\* counts the responses it limits (RRL.AllowResponse).
LEMMA AllowResponseInv ==
  ASSUME LimitsInv, NEW k \in Keys, NEW act \in {"allow", "drop", "slip"}, AllowResponse(k, act)
  PROVE  LimitsInv'
  <1> DEFINE b == entries[k]
             d == entries'[k]
             lev == Level(b, now, RespRate, RespBurst)
             ok == act = "allow"
  <1>1. now' = now /\ since' = since /\ clients' = clients /\ admitted' = admitted
    BY DEF AllowResponse
  <1>2. LimitsTypeOK /\ now \in Nat /\ since \in 0 .. now
    BY RateAssumption DEF LimitsInv, LimitsTypeOK
  <1>3. /\ responded[k] \in Nat /\ droppedInARow[k] \in Nat
        /\ b # None => b \in [tokens : 0 .. RespBurst * Unit, lastTime : 0 .. now, slipCount : Nat]
    BY <1>2 DEF LimitsTypeOK
  <1>4. b # None => lev \in 0 .. RespBurst * Unit /\ lev = Refill(b, RespRate, RespBurst)
    BY Zenon, <1>2, <1>3, LevelType, RefillIsLevel, RateAssumption, UnitAssumption
  <1>5. /\ b = None => act = "allow" /\ d = [tokens |-> (RespBurst - 1) * Unit, lastTime |-> now, slipCount |-> 0]
        /\ b # None => \/ /\ lev >= Unit /\ act = "allow"
                          /\ d = [tokens |-> lev - Unit, lastTime |-> now, slipCount |-> b.slipCount]
                       \/ /\ lev < Unit /\ act = Limited(b)[1]
                          /\ d = [tokens |-> lev, lastTime |-> now, slipCount |-> Limited(b)[2]]
    BY <1>2, <1>3, <1>4 DEF AllowResponse, LimitsTypeOK
  <1>6. Limited(b)[1] \in {"drop", "slip"}
    BY Zenon DEF Limited
  <1>7. /\ b = None => ok /\ d.tokens = (RespBurst - 1) * Unit
        /\ b # None => ok = (lev >= Unit) /\ d.tokens = IF ok THEN lev - Unit ELSE lev
        /\ d = [tokens |-> d.tokens, lastTime |-> now, slipCount |-> d.slipCount]
    BY <1>4, <1>5, <1>6, UnitAssumption
  <1>8. d.tokens \in Int
    <2>1. RespBurst * Unit \in Nat /\ (RespBurst - 1) * Unit \in Nat
      <3>1. RespBurst \in Nat /\ RespBurst - 1 \in Nat /\ Unit \in Nat
        BY UnitAssumption
      <3> QED BY Zenon, <3>1, ProductNat
    <2> QED BY <1>4, <1>7, <2>1, UnitAssumption
  <1>9. d.slipCount \in Nat
    <2>1. b # None => (b.slipCount + 1) % SlipRatio \in Nat \/ SlipRatio = 0
      BY <1>3, RateAssumption
    <2> QED BY <1>3, <1>5, <2>1 DEF Limited
  <1>10. d # None
    BY <1>2, <1>7, <1>8, <1>9, NoneAssumption
  <1>11. Budget(b, responded[k], RespRate, RespBurst, now, since) /\ SlipCounted(b, droppedInARow[k])
    BY DEF LimitsInv
  <1>12. d.tokens \in 0 .. RespBurst * Unit /\ Budget(d, IF ok THEN responded[k] + 1 ELSE responded[k], RespRate, RespBurst, now, since)
    <2>1. ok \in BOOLEAN /\ d.lastTime = now /\ (b # None => b.tokens \in 0 .. RespBurst * Unit /\ b.lastTime \in 0 .. now)
      BY <1>3, <1>7
    <2>2. b # None => ok = (Level(b, now, RespRate, RespBurst) >= Unit) /\ d.tokens = IF ok THEN Level(b, now, RespRate, RespBurst) - Unit ELSE Level(b, now, RespRate, RespBurst)
      BY <1>7
    <2> HIDE DEF b, d, ok, lev
    <2> QED BY Zenon, <1>2, <1>3, <1>7, <1>10, <1>11, <2>1, <2>2, BudgetSpend, RateAssumption, UnitAssumption
  <1>13. /\ entries' = [entries EXCEPT ![k] = d]
         /\ responded' = [responded EXCEPT ![k] = IF ok THEN @ + 1 ELSE @]
         /\ droppedInARow' = [droppedInARow EXCEPT ![k] = IF act = "drop" /\ SlipRatio > 0 THEN @ + 1 ELSE 0]
    BY Zenon, <1>2 DEF AllowResponse, LimitsTypeOK
  <1>14. LimitsTypeOK'
    <2>1. d \in [tokens : 0 .. RespBurst * Unit, lastTime : 0 .. now, slipCount : Nat]
      BY <1>2, <1>7, <1>9, <1>12
    <2> HIDE DEF d
    <2> QED BY <1>1, <1>2, <1>13, <2>1 DEF LimitsTypeOK
  <1>15. SlipCounted(d, IF act = "drop" /\ SlipRatio > 0 THEN droppedInARow[k] + 1 ELSE 0)
    <2> SUFFICES ASSUME SlipRatio > 0
                 PROVE  (IF act = "drop" THEN droppedInARow[k] + 1 ELSE 0) <= d.slipCount /\ d.slipCount < SlipRatio
      BY Zenon, <1>10 DEF SlipCounted
    <2>1. CASE b = None
      BY <1>5, <2>1, RateAssumption
    <2>2. CASE b # None
      <3>1. droppedInARow[k] <= b.slipCount /\ b.slipCount < SlipRatio /\ b.slipCount \in Nat
        BY Zenon, <1>3, <1>11, <2>2 DEF SlipCounted
      <3>2. /\ Limited(b)[2] \in Nat /\ Limited(b)[2] < SlipRatio
            /\ Limited(b)[1] = "drop" => droppedInARow[k] + 1 <= Limited(b)[2]
        <4> HIDE DEF b
        <4> QED BY Zenon, <1>3, <3>1, SlipStep
      <3> QED BY <1>5, <2>2, <3>1, <3>2
    <2> QED BY <2>1, <2>2
  <1>16. ASSUME NEW e \in Keys
         PROVE  Budget(entries[e], responded[e], RespRate, RespBurst, now, since)' /\ SlipCounted(entries[e], droppedInARow[e])'
    <2>1. CASE e = k
      <3>1. /\ responded'[k] = IF ok THEN responded[k] + 1 ELSE responded[k]
            /\ droppedInARow'[k] = IF act = "drop" /\ SlipRatio > 0 THEN droppedInARow[k] + 1 ELSE 0
        BY Zenon, <1>2, <1>13 DEF LimitsTypeOK
      <3>2. Budget(entries[k], responded[k], RespRate, RespBurst, now, since)'
        BY Zenon, <1>1, <1>12, <3>1 DEF Budget, Level
      <3>3. SlipCounted(entries[k], droppedInARow[k])'
        BY Zenon, <1>15, <3>1 DEF SlipCounted
      <3> QED BY Zenon, <2>1, <3>2, <3>3
    <2>2. CASE e # k
      <3>1. entries'[e] = entries[e] /\ responded'[e] = responded[e] /\ droppedInARow'[e] = droppedInARow[e]
        BY Zenon, <1>2, <1>13, <2>2 DEF LimitsTypeOK
      <3>2. Budget(entries[e], responded[e], RespRate, RespBurst, now, since) /\ SlipCounted(entries[e], droppedInARow[e])
        BY Zenon DEF LimitsInv
      <3> QED BY Zenon, <1>1, <3>1, <3>2 DEF Budget, Level, SlipCounted
    <2> QED BY Zenon, <2>1, <2>2
  <1>17. \A c \in Clients : Budget(clients[c], admitted[c], Rate, Burst, now, since)'
    BY Zenon, <1>1 DEF LimitsInv, Budget, Level
  <1> QED BY <1>14, <1>16, <1>17 DEF LimitsInv

\* A client that is forgotten gets no more than it was due (StartCleanup).
LEMMA CleanupInv == ASSUME LimitsInv, StartCleanup PROVE LimitsInv'
  <1>1. /\ now' = now /\ since' = since /\ entries' = entries /\ admitted' = admitted
        /\ responded' = responded /\ droppedInARow' = droppedInARow
    BY Zenon DEF StartCleanup
  <1>2. LimitsTypeOK /\ now \in Nat /\ since \in 0 .. now
    BY RateAssumption DEF LimitsInv, LimitsTypeOK
  <1>3. ASSUME NEW c \in Clients
        PROVE  /\ clients'[c] \in {clients[c], None}
               /\ clients'[c] # clients[c] => clients[c] # None /\ clients[c].lastTime < now - Cleanup
    BY DEF StartCleanup
  <1>4. LimitsTypeOK'
    <2>1. clients' \in [Clients -> [tokens : 0 .. Burst * Unit, lastTime : 0 .. now] \cup {None}]
      BY Zenon, <1>2 DEF StartCleanup, LimitsTypeOK
    <2> QED BY Zenon, <1>1, <1>2, <2>1 DEF LimitsTypeOK
  <1>5. ASSUME NEW c \in Clients PROVE Budget(clients[c], admitted[c], Rate, Burst, now, since)'
    <2>1. Budget(clients[c], admitted[c], Rate, Burst, now, since) /\ admitted[c] \in Nat
      BY Zenon, <1>2 DEF LimitsInv, LimitsTypeOK
    <2>2. CASE clients'[c] = clients[c]
      BY Zenon, <1>1, <2>1, <2>2 DEF Budget, Level
    <2>3. CASE clients'[c] # clients[c]
      <3>1. /\ clients'[c] = None /\ clients[c] # None /\ clients[c].lastTime < now - Cleanup
            /\ clients[c].tokens \in 0 .. Burst * Unit /\ clients[c].lastTime \in 0 .. now
        BY Zenon, <1>2, <1>3, <2>3 DEF LimitsTypeOK
      <3>2. Budget(None, admitted[c], Rate, Burst, now, since)
        BY Zenon, <1>2, <2>1, <3>1, BudgetForget
      <3> QED BY Zenon, <1>1, <3>1, <3>2 DEF Budget, Level
    <2> QED BY Zenon, <2>2, <2>3
  <1>6. \A k \in Keys : Budget(entries[k], responded[k], RespRate, RespBurst, now, since)' /\ SlipCounted(entries[k], droppedInARow[k])'
    BY <1>1 DEF LimitsInv, Budget, Level, SlipCounted
  <1> QED BY Zenon, <1>4, <1>5, <1>6 DEF LimitsInv

\* Time passes, for the buckets and for the interval alike (now in both limiters).
LEMMA TickInv == ASSUME LimitsInv, Tick PROVE LimitsInv'
  <1>1. /\ now' = now + 1 /\ now < MaxTime /\ since' = since /\ entries' = entries /\ clients' = clients
        /\ admitted' = admitted /\ responded' = responded /\ droppedInARow' = droppedInARow
    BY Zenon DEF Tick
  <1>2. LimitsTypeOK /\ now \in Nat /\ since \in 0 .. now
    BY RateAssumption DEF LimitsInv, LimitsTypeOK
  <1>3. LimitsTypeOK'
    <2>1. now' \in 0 .. MaxTime /\ since' \in 0 .. now' /\ 0 .. now \subseteq 0 .. now'
      BY <1>1, <1>2, RateAssumption
    <2>2. clients' \in [Clients -> [tokens : 0 .. Burst * Unit, lastTime : 0 .. now'] \cup {None}]
      BY Zenon, <1>1, <1>2, <2>1 DEF LimitsTypeOK
    <2>3. entries' \in [Keys -> [tokens : 0 .. RespBurst * Unit, lastTime : 0 .. now', slipCount : Nat] \cup {None}]
      BY Zenon, <1>1, <1>2, <2>1 DEF LimitsTypeOK
    <2> QED BY <1>1, <1>2, <2>1, <2>2, <2>3 DEF LimitsTypeOK
  <1>4. ASSUME NEW c \in Clients PROVE Budget(clients[c], admitted[c], Rate, Burst, now, since)'
    <2>1. /\ Budget(clients[c], admitted[c], Rate, Burst, now, since) /\ admitted[c] \in Nat
          /\ clients[c] # None => clients[c].tokens \in 0 .. Burst * Unit /\ clients[c].lastTime \in 0 .. now
      BY <1>2 DEF LimitsInv, LimitsTypeOK
    <2>2. Budget(clients[c], admitted[c], Rate, Burst, now + 1, since)
      BY Zenon, <1>2, <2>1, BudgetTick, RateAssumption, UnitAssumption
    <2> QED BY Zenon, <1>1, <2>2 DEF Budget, Level
  <1>5. ASSUME NEW k \in Keys PROVE Budget(entries[k], responded[k], RespRate, RespBurst, now, since)'
    <2>1. /\ Budget(entries[k], responded[k], RespRate, RespBurst, now, since) /\ responded[k] \in Nat
          /\ entries[k] # None => entries[k].tokens \in 0 .. RespBurst * Unit /\ entries[k].lastTime \in 0 .. now
      BY <1>2 DEF LimitsInv, LimitsTypeOK
    <2>2. Budget(entries[k], responded[k], RespRate, RespBurst, now + 1, since)
      BY Zenon, <1>2, <2>1, BudgetTick, RateAssumption, UnitAssumption
    <2> QED BY Zenon, <1>1, <2>2 DEF Budget, Level
  <1>6. \A k \in Keys : SlipCounted(entries[k], droppedInARow[k])'
    BY ZenonT(40), <1>1 DEF LimitsInv, SlipCounted
  <1> QED BY Zenon, <1>3, <1>4, <1>5, <1>6 DEF LimitsInv

\* A bucket is within its budget at the start of every interval.
LEMMA ObserveInv == ASSUME LimitsInv, Observe PROVE LimitsInv'
  <1>1. /\ now' = now /\ since' = now /\ entries' = entries /\ clients' = clients /\ droppedInARow' = droppedInARow
        /\ admitted' = [c \in Clients |-> 0] /\ responded' = [k \in Keys |-> 0]
    BY Zenon DEF Observe
  <1>2. LimitsTypeOK /\ now \in Nat
    BY RateAssumption DEF LimitsInv, LimitsTypeOK
  <1>3. LimitsTypeOK'
    BY <1>1, <1>2 DEF LimitsTypeOK
  <1>4. 0 * Unit = 0 /\ (now - now) * Rate = 0 /\ (now - now) * RespRate = 0
    BY <1>2, UnitAssumption, RateAssumption, Z3
  <1>5. Burst * Unit \in Nat /\ RespBurst * Unit \in Nat
    BY Zenon, ProductNat, UnitAssumption
  <1>6. ASSUME NEW c \in Clients PROVE Budget(clients[c], admitted[c], Rate, Burst, now, since)'
    <2>a. clients[c] # None => clients[c].tokens \in 0 .. Burst * Unit /\ clients[c].lastTime \in 0 .. now
      BY Zenon, <1>2 DEF LimitsTypeOK
    <2>1. clients[c] # None => Level(clients[c], now, Rate, Burst) \in 0 .. Burst * Unit
      BY Zenon, <1>2, <2>a, LevelType, RateAssumption, UnitAssumption
    <2>2. Budget(clients[c], 0, Rate, Burst, now, now)
      BY <1>4, <1>5, <2>1 DEF Budget
    <2> QED BY Zenon, <1>1, <2>2 DEF Budget, Level
  <1>7. ASSUME NEW k \in Keys PROVE Budget(entries[k], responded[k], RespRate, RespBurst, now, since)'
    <2>a. entries[k] # None => entries[k].tokens \in 0 .. RespBurst * Unit /\ entries[k].lastTime \in 0 .. now
      BY <1>2 DEF LimitsTypeOK
    <2>1. entries[k] # None => Level(entries[k], now, RespRate, RespBurst) \in 0 .. RespBurst * Unit
      BY Zenon, <1>2, <2>a, LevelType, RateAssumption, UnitAssumption
    <2>2. Budget(entries[k], 0, RespRate, RespBurst, now, now)
      BY <1>4, <1>5, <2>1 DEF Budget
    <2> QED BY <1>1, <2>2 DEF Budget, Level
  <1>8. \A k \in Keys : SlipCounted(entries[k], droppedInARow[k])'
    BY <1>1 DEF LimitsInv, SlipCounted
  <1> QED BY <1>3, <1>6, <1>7, <1>8 DEF LimitsInv

-----------------------------------------------------------------------------
\* The budgets and the slip count hold whatever calls the limiters.
THEOREM LimitsInvariant == LimitsSpec => []LimitsInv
  <1>1. ASSUME LimitsInv, LimitsNext PROVE LimitsInv'
    BY ZenonT(40), <1>1, AllowInv, AllowResponseInv, CleanupInv, TickInv, ObserveInv DEF LimitsNext
  <1>2. ASSUME LimitsInv, UNCHANGED limits PROVE LimitsInv'
    BY <1>2 DEF limits, LimitsInv, LimitsTypeOK, Budget, Level, SlipCounted
  <1>3. LimitsInv /\ [LimitsNext]_limits => LimitsInv'
    BY <1>1, <1>2
  <1> QED BY <1>3, InitInv, PTL DEF LimitsSpec

\* RateLimiter.Allow: for every rate, burst and set of clients, no client gets
\* more queries in, in any interval, than a full bucket and what the rate adds.
THEOREM AdmittedWithinRate == LimitsSpec => []AdmittedBound
  <1>1. LimitsInv => AdmittedBound
    <2> SUFFICES ASSUME LimitsInv, NEW c \in Clients
                 PROVE  admitted[c] * Unit <= Burst * Unit + (now - since) * Rate
      BY Zenon DEF AdmittedBound
    <2>1. /\ now \in Nat /\ since \in 0 .. now /\ admitted[c] \in Nat
          /\ clients[c] # None => clients[c].tokens \in 0 .. Burst * Unit /\ clients[c].lastTime \in 0 .. now
      BY RateAssumption DEF LimitsInv, LimitsTypeOK
    <2>2. clients[c] # None => Level(clients[c], now, Rate, Burst) \in 0 .. Burst * Unit
      BY Zenon, <2>1, LevelType, RateAssumption, UnitAssumption
    <2>3. Burst * Unit \in Nat /\ admitted[c] * Unit \in Nat /\ (now - since) * Rate \in Nat
      BY <2>1, ProductNat, RateAssumption, UnitAssumption
    <2> QED BY <2>2, <2>3 DEF LimitsInv, Budget
  <1> QED BY <1>1, LimitsInvariant, PTL

\* RRL.AllowResponse: nor do more full responses of one kind go to one network.
THEOREM RespondedWithinRate == LimitsSpec => []RespondedBound
  <1>1. LimitsInv => RespondedBound
    <2> SUFFICES ASSUME LimitsInv, NEW k \in Keys
                 PROVE  responded[k] * Unit <= RespBurst * Unit + (now - since) * RespRate
      BY Zenon DEF RespondedBound
    <2>1. /\ now \in Nat /\ since \in 0 .. now /\ responded[k] \in Nat
          /\ entries[k] # None => entries[k].tokens \in 0 .. RespBurst * Unit /\ entries[k].lastTime \in 0 .. now
      BY RateAssumption DEF LimitsInv, LimitsTypeOK
    <2>2. entries[k] # None => Level(entries[k], now, RespRate, RespBurst) \in 0 .. RespBurst * Unit
      BY Zenon, <2>1, LevelType, RateAssumption, UnitAssumption
    <2>3. RespBurst * Unit \in Nat /\ responded[k] * Unit \in Nat /\ (now - since) * RespRate \in Nat
      BY <2>1, ProductNat, RateAssumption, UnitAssumption
    <2> QED BY <2>2, <2>3 DEF LimitsInv, Budget
  <1> QED BY <1>1, LimitsInvariant, PTL

\* Allow, AllowResponse: both limiters keep to their rates.
THEOREM RatesHold == LimitsSpec => []RatesAreKept
  <1>1. AdmittedBound /\ RespondedBound => RatesAreKept
    BY Zenon DEF RatesAreKept
  <1> QED BY <1>1, AdmittedWithinRate, RespondedWithinRate, PTL

\* RRL.AllowResponse: for every slip ratio, fewer than SlipRatio responses are
\* dropped between two that go out.
THEOREM SlipLeavesAWay == LimitsSpec => []SlipKeepsWayOpen
  <1>1. LimitsInv => SlipKeepsWayOpen
    <2> SUFFICES ASSUME LimitsInv, SlipRatio > 0, NEW k \in Keys PROVE droppedInARow[k] < SlipRatio
      BY Zenon DEF SlipKeepsWayOpen
    <2>1. /\ SlipCounted(entries[k], droppedInARow[k]) /\ droppedInARow[k] \in Nat
          /\ entries[k] # None => entries[k].slipCount \in Nat
      BY Zenon DEF LimitsInv, LimitsTypeOK
    <2> QED BY <2>1, RateAssumption DEF SlipCounted
  <1> QED BY <1>1, LimitsInvariant, PTL

-----------------------------------------------------------------------------
(* Handle.                                                                     *)


\* Records have the fields their constructors gave them.
IsReq(r) == r = [pc |-> r.pc, q |-> r.q, out |-> r.out, got |-> r.got, resp |-> r.resp]
IsEntry(e) == e = [rcode |-> e.rcode, answers |-> e.answers, status |-> e.status, verdict |-> e.verdict, for |-> e.for, fresh |-> e.fresh]
IsResult(e) == e = [rcode |-> e.rcode, answers |-> e.answers, status |-> e.status, err |-> e.err, verdict |-> e.verdict, scope |-> e.scope, for |-> e.for]

Rcodes == {r.rcode : r \in Results} \cup {"NOERROR"}
NoPrivate(rrs) == \A rr \in rrs : ~isPrivateAddressRecord(rr)

\* A status is the verdict of the resolution or nothing.
Honest(e) == e.rcode \in Rcodes /\ (e.status = "secure" => e.verdict = "secure")
\* The records may be given to a client although they come from the cache.
Public(e, off) == ~off /\ e.verdict # "glue" => NoPrivate(e.answers)
\* The records are meant for the network asked about.
Fits(e, out) == e.answers # {} /\ e.for # None => out # None /\ TruncateIP(out.addr, e.for.len) = e.for.addr
\* An entry with a scope is under the key of that scope.
Filed(e, k) == e.answers # {} /\ e.for # None => k[3] = <<e.for.addr, e.for.len>>

EntryInv(e, k, off) == e # None => IsEntry(e) /\ Honest(e) /\ Public(e, off) /\ Filed(e, k)

CacheInv ==
    /\ cache = [k \in CacheKeys |-> cache[k]]
    /\ \A k \in CacheKeys : EntryInv(cache[k], k, everOff)

Active == PCs \ {"idle", "sent"}

ReqInv(r, off) ==
    /\ IsReq(r) /\ r.pc \in PCs
    /\ r.pc # "idle" => r.q \in Queries
    /\ r.pc \in Active => /\ Permitted(r.q.client, r.q.name) /\ r.q.name \notin Blocked
                          /\ r.out # None => CacheKey(r.out) \in ECSKeys
    /\ r.pc = "lookupECS" => r.out # None
    /\ r.pc = "hit" => IsEntry(r.got) /\ Public(r.got, off)
    /\ r.pc \in {"failed", "error", "store", "respond"} =>
           /\ IsResult(r.got)
           /\ r.got.for = Scope(r.out, r.got.scope)
    /\ r.pc \in {"hit", "failed", "error", "store", "respond"} => Honest(r.got) /\ Fits(r.got, r.out)

\* What the properties say of one response.
RespInv(r, off) ==
    r.pc = "sent" /\ r.resp # None =>
        /\ r.resp.ad => r.resp.verdict = "secure" /\ r.resp.from # "stale" /\ ~r.q.cd
        /\ r.resp.from \in {"cache", "stale", "resolver"} /\ r.resp.answers # {} =>
              /\ Permitted(r.q.client, r.q.name) /\ r.q.name \notin Blocked
              /\ Fits(r.resp, r.out)
              /\ Public(r.resp, off)

HandlerInv ==
    /\ everOff \in BOOLEAN /\ privateFilter \in BOOLEAN /\ (~everOff => privateFilter)
    /\ CacheInv
    /\ req = [w \in Workers |-> req[w]]
    /\ \A w \in Workers : ReqInv(req[w], everOff) /\ RespInv(req[w], everOff)

-----------------------------------------------------------------------------
\* The inductive invariant says what the properties say (responses of Handle).
LEMMA InvImplies == HandlerInv => AnswersInScope /\ AuthenticDataIsValidated /\ PrivateStaysOut /\ OnlyPermittedAnswers
  <1> SUFFICES ASSUME HandlerInv, NEW w \in Workers
               PROVE  /\ FromData(w) /\ req[w].resp.for # None =>
                            req[w].out # None /\ TruncateIP(req[w].out.addr, req[w].resp.for.len) = req[w].resp.for.addr
                      /\ req[w].pc = "sent" /\ req[w].resp # None /\ req[w].resp.ad =>
                            req[w].resp.verdict = "secure" /\ req[w].resp.from # "stale" /\ ~req[w].q.cd
                      /\ ~everOff => (FromData(w) /\ req[w].resp.verdict # "glue" =>
                            \A rr \in req[w].resp.answers : ~isPrivateAddressRecord(rr))
                      /\ FromData(w) => Permitted(req[w].q.client, req[w].q.name) /\ req[w].q.name \notin Blocked
    BY DEF AnswersInScope, AuthenticDataIsValidated, PrivateStaysOut, OnlyPermittedAnswers
  <1>1. RespInv(req[w], everOff)
    BY DEF HandlerInv
  <1> QED BY Zenon, <1>1 DEF RespInv, FromData, Answers, Fits, Public, NoPrivate

\* Equal pairs have equal components.
LEMMA PairsEqual == ASSUME NEW a, NEW b, NEW c, NEW d, <<a, b>> = <<c, d>> PROVE a = c /\ b = d
  OBVIOUS

\* An entry is found by those whose own prefix is its scope (CacheKey).
LEMMA KeyOfScope ==
  ASSUME NEW out, NEW a, NEW n, CacheKey(out) = <<a, n>>
  PROVE  TruncateIP(out.addr, n) = a
  <1>1. <<a, n>> # Global
    BY DEF Global
  <1>2. <<TruncateIP(out.addr, out.len), out.len>> = <<a, n>>
    BY <1>1 DEF CacheKey
  <1>3. TruncateIP(out.addr, out.len) = a /\ out.len = n
    BY <1>2, PairsEqual
  <1> QED BY <1>3

\* Shortening an address twice shortens it once (TruncateIP).
LEMMA TruncateTwice == ASSUME NEW a, NEW n PROVE TruncateIP(TruncateIP(a, n), n) = TruncateIP(a, n)
  BY Zenon DEF TruncateIP

\* The rules of the most specific zone decide (CheckWithZone, after Check).
LEMMA ListsPermit ==
  ASSUME NEW c, NEW n, Check(c), CheckWithZone(c, n)
  PROVE  Permitted(c, n)
  BY DEF Permitted, Check, CheckWithZone, checkNets, matchZone

\* A response keeps or drops its records (maybeTruncateUDP, buildCacheResponse).
LEMMA AssembleKeeps ==
  ASSUME NEW q, NEW from, NEW e
  PROVE  LET r == Assemble(q, from, e)
         IN  /\ r.from = from /\ r.answers \subseteq e.answers /\ r.verdict = e.verdict /\ r.for = e.for
             /\ r.ad = (e.status = "secure" /\ ~q.cd)
             /\ r = [from |-> r.from, rcode |-> r.rcode, answers |-> r.answers, ad |-> r.ad, tc |-> r.tc, verdict |-> r.verdict, for |-> r.for]
  BY Zenon DEF Assemble, maybeTruncateUDP, stripDNSSECRRs

\* Only the call of goroutine w has changed, to r.
Becomes(w, r) ==
    /\ req' = [v \in Workers |-> req'[v]] /\ req'[w] = r
    /\ \A v \in Workers \ {w} : req'[v] = req[v]

Call(pc, q, out, got, resp) == [pc |-> pc, q |-> q, out |-> out, got |-> got, resp |-> resp]

\* The steps of a call change the record of one goroutine (req).
LEMMA OneCall ==
  ASSUME req = [w \in Workers |-> req[w]], NEW w \in Workers, IsReq(req[w]), NEW p, NEW e, NEW q
  PROVE  /\ Goto(w, p) => Becomes(w, Call(p, req[w].q, req[w].out, req[w].got, req[w].resp))
         /\ Got(w, p, e) => Becomes(w, Call(p, req[w].q, req[w].out, e, req[w].resp))
         /\ Send(w, e) => Becomes(w, Call("sent", req[w].q, req[w].out, None, e))
         /\ Reject(w, q, e) => Becomes(w, Call("sent", q, None, None, e))
  BY Zenon DEF Goto, Got, Send, Reject, Idle, IsReq, Becomes, Call

\* A step that leaves the configuration alone and one call in order.
LEMMA CallStep ==
  ASSUME HandlerInv, NEW w \in Workers, NEW r, Becomes(w, r), ReqInv(r, everOff), RespInv(r, everOff),
         everOff' = everOff, privateFilter' = privateFilter, CacheInv'
  PROVE  HandlerInv'
  <1>1. ASSUME NEW v \in Workers PROVE ReqInv(req'[v], everOff) /\ RespInv(req'[v], everOff)
    BY DEF HandlerInv, Becomes
  <1>2. req' = [v \in Workers |-> req'[v]]
    BY DEF Becomes
  <1>3. \A v \in Workers : ReqInv(req[v], everOff)' /\ RespInv(req[v], everOff)'
    BY <1>1
  <1> QED BY <1>2, <1>3 DEF HandlerInv

\* An entry is put under a key, or taken away.
LEMMA CacheStep ==
  ASSUME CacheInv, everOff' = everOff, NEW k, NEW e, k \in CacheKeys => EntryInv(e, k, everOff),
         cache' = [cache EXCEPT ![k] = e]
  PROVE  CacheInv'
  <1>1. cache' = [l \in CacheKeys |-> cache'[l]] /\ \A l \in CacheKeys : cache'[l] = IF l = k THEN e ELSE cache[l]
    BY DEF CacheInv
  <1>2. \A l \in CacheKeys : EntryInv(cache'[l], l, everOff)
    BY <1>1 DEF CacheInv
  <1>3. \A l \in CacheKeys : EntryInv(cache[l], l, everOff)'
    BY <1>2
  <1> QED BY <1>1, <1>3 DEF CacheInv

\* A step that leaves the cache alone keeps what is known of it.
LEMMA CacheSame == ASSUME CacheInv, everOff' = everOff, cache' = cache PROVE CacheInv'
  <1>1. \A l \in CacheKeys : EntryInv(cache[l], l, everOff)'
    BY DEF CacheInv
  <1> QED BY <1>1 DEF CacheInv

\* An empty place of the cache satisfies what is asked of entries.
LEMMA NoneIsNoEntry == ASSUME NEW k, NEW off PROVE EntryInv(None, k, off)
  BY Zenon DEF EntryInv

\* The keys Handle looks entries up and stores them under are keys of the cache.
LEMMA GlobalKey == ASSUME NEW q \in Queries PROVE Key(q, Global) \in CacheKeys /\ Key(q, Global)[3] = Global
  BY DEF CacheKeys, ECSKeys, Key

\* The key of a query in a client scope is a cache key with that scope (cacheKey).
LEMMA ScopedKey == ASSUME NEW q \in Queries, NEW e \in ECSKeys PROVE Key(q, e) \in CacheKeys /\ Key(q, e)[3] = e
  BY DEF CacheKeys, Key

-----------------------------------------------------------------------------
(* The steps of Handle.                                                        *)

\* What is in the hands of a goroutine, and of the cache, to begin with (NewMainHandler).
LEMMA HandlerInit == Init => HandlerInv
  <1> SUFFICES ASSUME Init PROVE HandlerInv
    OBVIOUS
  <1>1. everOff \in BOOLEAN /\ privateFilter \in BOOLEAN /\ (~everOff => privateFilter)
    BY Zenon, InputAssumption DEF Init
  <1>2. CacheInv
    BY NoneIsNoEntry DEF Init, CacheInv
  <1>3. ReqInv(Idle, everOff) /\ RespInv(Idle, everOff)
    BY Zenon DEF ReqInv, RespInv, Idle, IsReq, PCs, Active
  <1> QED BY <1>1, <1>2, <1>3 DEF HandlerInv, Init

\* An error, a blocked name, ANY: responses that are made of no records of others.
LEMMA OwnResponse ==
  ASSUME NEW q \in Queries, NEW off, NEW r,
         r = None \/ (r.ad = FALSE /\ r.from \notin {"cache", "stale", "resolver"})
  PROVE  ReqInv(Call("sent", q, None, None, r), off) /\ RespInv(Call("sent", q, None, None, r), off)
  BY Zenon DEF ReqInv, RespInv, Call, IsReq, PCs, Active

\* The responses the handler makes itself never have the AD bit (buildError and its like).
LEMMA OwnResponses ==
  ASSUME NEW q
  PROVE  /\ \A rc : buildError(rc).ad = FALSE /\ buildError(rc).from = "error"
         /\ buildBadVersResponse.ad = FALSE /\ buildBadVersResponse.from = "error"
         /\ buildBlockedResponse(q).ad = FALSE /\ buildBlockedResponse(q).from = "blocklist"
         /\ buildMinimalANYResponse(q).ad = FALSE /\ buildMinimalANYResponse(q).from = "any"
         /\ buildSlipResponse.ad = FALSE /\ buildSlipResponse.from = "slip"
         /\ \A rc : buildErrorWithEDE(rc).ad = FALSE /\ buildErrorWithEDE(rc).from = "error"
  <1>1. \A rc : buildError(rc).ad = FALSE /\ buildError(rc).from = "error"
    BY DEF buildError
  <1>2. buildBlockedResponse(q).ad = FALSE /\ buildBlockedResponse(q).from = "blocklist"
    BY DEF buildBlockedResponse, buildError
  <1>3. buildMinimalANYResponse(q).ad = FALSE /\ buildMinimalANYResponse(q).from = "any"
    BY DEF buildMinimalANYResponse, maybeTruncateUDP, buildError
  <1>4. buildSlipResponse.ad = FALSE /\ buildSlipResponse.from = "slip"
    BY Zenon DEF buildSlipResponse, buildError
  <1> QED BY Zenon, <1>1, <1>2, <1>3, <1>4 DEF buildBadVersResponse, buildErrorWithEDE

\* The option sent upstream has a key in the cache (buildOutboundECS).
LEMMA OutboundKey ==
  ASSUME NEW q \in Queries, buildOutboundECS(q) # None
  PROVE  CacheKey(buildOutboundECS(q)) \in ECSKeys
  <1> DEFINE n == IF q.ecs.len > MaxPrefix THEN MaxPrefix ELSE q.ecs.len
             short == [addr |-> TruncateIP(q.ecs.addr, n), len |-> n]
  <1>1. q.ecs # None /\ q.ecs.len \in Nat /\ MaxPrefix \in Nat
    BY Zenon, InputAssumption DEF buildOutboundECS
  <1>2. CASE q.ecs.len = 0
    <2>1. buildOutboundECS(q) = q.ecs
      BY Zenon, <1>2 DEF buildOutboundECS
    <2> QED BY <1>2, <2>1 DEF CacheKey, ECSKeys
  <1>3. CASE q.ecs.len # 0
    <2>1. buildOutboundECS(q) = short
      BY <1>3 DEF buildOutboundECS
    <2>2. n \in 0 .. MaxPrefix
      BY <1>1
    <2>3. CacheKey([addr |-> TruncateIP(TruncateIP(q.ecs.addr, n), n), len |-> n]) \in ECSKeys
      <3> HIDE DEF n
      <3> QED BY <1>1, <2>2 DEF ECSKeys
    <2> QED BY Zenon, <2>1, <2>3, TruncateTwice
  <1> QED BY Zenon, <1>2, <1>3

\* The checks before the cache (Handle up to its step 2).
LEMMA ReceiveStep ==
  ASSUME HandlerInv, NEW w \in Workers, NEW q \in Queries, Receive(w, q)
  PROVE  HandlerInv'
  <1>1. everOff' = everOff /\ privateFilter' = privateFilter /\ cache' = cache
    BY DEF Receive
  <1>2. CacheInv'
    BY Zenon, <1>1, CacheSame DEF HandlerInv
  <1>3. req = [v \in Workers |-> req[v]] /\ IsReq(req[w])
    BY Zenon DEF HandlerInv, ReqInv
  <1>4. ASSUME NEW r, r = None \/ (r.ad = FALSE /\ r.from \notin {"cache", "stale", "resolver"}), Reject(w, q, r)
        PROVE  HandlerInv'
    <2>1. Becomes(w, Call("sent", q, None, None, r))
      BY <1>3, <1>4, OneCall
    <2>2. ReqInv(Call("sent", q, None, None, r), everOff) /\ RespInv(Call("sent", q, None, None, r), everOff)
      BY Zenon, <1>4, OwnResponse
    <2> QED BY Zenon, <1>1, <1>2, <2>1, <2>2, CallStep
  <1>5. ASSUME Check(q.client), Screen(w, q) PROVE HandlerInv'
    <2>1. CASE \E r : (r = None \/ (r.ad = FALSE /\ r.from \notin {"cache", "stale", "resolver"})) /\ Reject(w, q, r)
      BY Zenon, <1>4, <2>1
    <2>2. CASE /\ CheckWithZone(q.client, q.name) /\ q.name \notin Blocked
               /\ req' = [req EXCEPT ![w] = [Idle EXCEPT !.pc = IF bypassCache(q) THEN "resolve" ELSE "lookup",
                                                         !.q = q, !.out = buildOutboundECS(q)]]
      <3> DEFINE p == IF bypassCache(q) THEN "resolve" ELSE "lookup"
                 r == Call(p, q, buildOutboundECS(q), None, None)
      <3>1. Becomes(w, r)
        BY Zenon, <1>3, <2>2 DEF Becomes, Call, Idle
      <3>2. Permitted(q.client, q.name) /\ (buildOutboundECS(q) # None => CacheKey(buildOutboundECS(q)) \in ECSKeys)
        BY <1>5, <2>2, ListsPermit, OutboundKey
      <3>3. ReqInv(r, everOff) /\ RespInv(r, everOff)
        <4> HIDE DEF p
        <4>1. p \in {"resolve", "lookup"}
          BY DEF p
        <4> QED BY <2>2, <3>2, <4>1 DEF ReqInv, RespInv, Call, IsReq, PCs, Active
      <3> QED BY <1>1, <1>2, <3>1, <3>3, CallStep
    <2>3. \/ \E r : (r = None \/ (r.ad = FALSE /\ r.from \notin {"cache", "stale", "resolver"})) /\ Reject(w, q, r)
          \/ /\ CheckWithZone(q.client, q.name) /\ q.name \notin Blocked
             /\ req' = [req EXCEPT ![w] = [Idle EXCEPT !.pc = IF bypassCache(q) THEN "resolve" ELSE "lookup",
                                                       !.q = q, !.out = buildOutboundECS(q)]]
      BY Zenon, <1>5, OwnResponses DEF Screen
    <2> QED BY Zenon, <2>1, <2>2, <2>3
  <1> QED BY Zenon, <1>4, <1>5, OwnResponses DEF Receive

\* An entry found in the cache may be handed on; an expired one may go (Cache.Get).
LEMMA LookupStep ==
  ASSUME HandlerInv, NEW w \in Workers, Lookup(w) \/ LookupECS(w)
  PROVE  HandlerInv'
  <1> DEFINE r == req[w]
             k == IF r.pc = "lookup" THEN Key(r.q, Global) ELSE Key(r.q, CacheKey(r.out))
  <1>1. everOff' = everOff /\ privateFilter' = privateFilter
    BY Zenon DEF Lookup, LookupECS
  <1>2. /\ req = [v \in Workers |-> req[v]] /\ IsReq(r) /\ ReqInv(r, everOff) /\ r.pc \in {"lookup", "lookupECS"}
        /\ r.q \in Queries /\ Permitted(r.q.client, r.q.name) /\ r.q.name \notin Blocked
        /\ r.out # None => CacheKey(r.out) \in ECSKeys
    BY Zenon DEF HandlerInv, ReqInv, Lookup, LookupECS, Active, PCs
  <1>3. CacheInv'
    <2>1. cache' = cache \/ cache' = [cache EXCEPT ![k] = None]
      BY Zenon, <1>2 DEF Lookup, LookupECS, CacheGet
    <2> QED BY Zenon, <1>1, <2>1, CacheSame, CacheStep, NoneIsNoEntry DEF HandlerInv
  <1>4. ASSUME NEW p, p \in {"lookupECS", "resolve"}, p = "lookupECS" => r.out # None, Goto(w, p) PROVE HandlerInv'
    <2>1. Becomes(w, Call(p, r.q, r.out, r.got, r.resp))
      BY <1>2, <1>4, OneCall
    <2>2. ReqInv(Call(p, r.q, r.out, r.got, r.resp), everOff) /\ RespInv(Call(p, r.q, r.out, r.got, r.resp), everOff)
      <3> HIDE DEF r
      <3> QED BY Zenon, <1>2, <1>4 DEF ReqInv, RespInv, Call, IsReq, PCs, Active
    <2> QED BY Zenon, <1>1, <1>3, <2>1, <2>2, CallStep
  <1>5. ASSUME Fresh(k), Got(w, "hit", cache[k]), r.pc = "lookupECS" => r.out # None PROVE HandlerInv'
    <2> DEFINE e == cache[k]
    <2>1. k \in CacheKeys /\ (k[3] = Global \/ (r.out # None /\ k[3] = CacheKey(r.out)))
      BY Zenon, <1>2, <1>5, GlobalKey, ScopedKey
    <2>2. e # None /\ EntryInv(e, k, everOff)
      BY Zenon, <1>5, <2>1 DEF Fresh, HandlerInv, CacheInv
    <2>3. Fits(e, r.out)
      <3> SUFFICES ASSUME e.answers # {}, e.for # None PROVE r.out # None /\ TruncateIP(r.out.addr, e.for.len) = e.for.addr
        BY Zenon DEF Fits
      <3>1. k[3] = <<e.for.addr, e.for.len>>
        BY Zenon, <2>2 DEF EntryInv, Filed
      <3>2. <<e.for.addr, e.for.len>> # Global
        BY Zenon DEF Global
      <3>3. r.out # None /\ CacheKey(r.out) = <<e.for.addr, e.for.len>>
        BY Zenon, <2>1, <3>1, <3>2
      <3>5. TruncateIP(r.out.addr, e.for.len) = e.for.addr
        <4> HIDE DEF r, k, e
        <4> QED BY Zenon, <3>3, KeyOfScope
      <3> QED BY Zenon, <3>3, <3>5
    <2>4. Becomes(w, Call("hit", r.q, r.out, e, r.resp))
      BY <1>2, <1>5, OneCall
    <2>5. ReqInv(Call("hit", r.q, r.out, e, r.resp), everOff) /\ RespInv(Call("hit", r.q, r.out, e, r.resp), everOff)
      <3> HIDE DEF r, k, e
      <3> QED BY Zenon, <1>2, <2>2, <2>3 DEF ReqInv, RespInv, Call, IsReq, PCs, Active, EntryInv
    <2> QED BY Zenon, <1>1, <1>3, <2>4, <2>5, CallStep
  <1>6. r.pc = "lookupECS" => r.out # None
    BY Zenon, <1>2 DEF ReqInv
  <1> QED BY <1>2, <1>4, <1>5, <1>6 DEF Lookup, LookupECS

\* A response made of records, from the cache or from the resolver, that are
\* in order (buildCacheResponse, buildResponse).
LEMMA MadeOf ==
  ASSUME NEW r, NEW off, NEW from \in {"cache", "resolver"}, NEW e, r.q \in Queries,
         Permitted(r.q.client, r.q.name), r.q.name \notin Blocked,
         Honest(e), Fits(e, r.out), Public(e, off)
  PROVE  LET s == Call("sent", r.q, r.out, None, Assemble(r.q, from, e)) IN ReqInv(s, off) /\ RespInv(s, off)
  <1> DEFINE p == Assemble(r.q, from, e)
             s == Call("sent", r.q, r.out, None, p)
  <1>1. /\ p.from = from /\ p.answers \subseteq e.answers /\ p.verdict = e.verdict /\ p.for = e.for
        /\ p.ad = (e.status = "secure" /\ ~r.q.cd)
    BY AssembleKeeps
  <1> HIDE DEF p
  <1>2. Fits(p, r.out) /\ Public(p, off)
    BY Zenon, <1>1 DEF Fits, Public, NoPrivate
  <1>3. p.ad => p.verdict = "secure" /\ p.from # "stale" /\ ~r.q.cd
    BY Zenon, <1>1 DEF Honest
  <1>4. ReqInv(s, off)
    BY DEF ReqInv, Call, IsReq, PCs, Active
  <1>5. RespInv(s, off)
    BY Zenon, <1>2, <1>3 DEF RespInv, Call
  <1> QED BY Zenon, <1>4, <1>5 DEF p

\* What the rate limiter of responses lets out is the response, an empty one or
\* none (AllowResponse in Handle).
LEMMA GateStep ==
  ASSUME HandlerInv, NEW w \in Workers, NEW p, NEW rc, Gate(w, p, rc),
         everOff' = everOff, privateFilter' = privateFilter, cache' = cache,
         LET s == Call("sent", req[w].q, req[w].out, None, p) IN ReqInv(s, everOff) /\ RespInv(s, everOff)
  PROVE  HandlerInv'
  <1>1. req = [v \in Workers |-> req[v]] /\ IsReq(req[w])
    BY Zenon DEF HandlerInv, ReqInv
  <1>2. CacheInv'
    BY Zenon, CacheSame DEF HandlerInv
  <1>3. ASSUME NEW x \in {p, None, buildSlipResponse}, Send(w, x) PROVE HandlerInv'
    <2> DEFINE s == Call("sent", req[w].q, req[w].out, None, x)
    <2>1. Becomes(w, s)
      BY <1>1, <1>3, OneCall
    <2>2. ReqInv(s, everOff)
      BY Zenon DEF ReqInv, Call, IsReq, PCs, Active
    <2>3. RespInv(s, everOff)
      <3>1. CASE x = p
        BY <3>1
      <3>2. CASE x # p
        BY Zenon, <3>2, OwnResponses DEF RespInv, Call
      <3> QED BY Zenon, <3>1, <3>2
    <2> HIDE DEF s
    <2> QED BY Zenon, <1>2, <2>1, <2>2, <2>3, CallStep
  <1> QED BY <1>3 DEF Gate

\* handleQuery answers from the cache.
LEMMA HitStep == ASSUME HandlerInv, NEW w \in Workers, Hit(w) PROVE HandlerInv'
  <1> DEFINE r == req[w]
  <1>1. /\ r.pc = "hit" /\ ReqInv(r, everOff)
        /\ everOff' = everOff /\ privateFilter' = privateFilter /\ cache' = cache
    BY DEF Hit, HandlerInv
  <1>2. /\ r.q \in Queries /\ Permitted(r.q.client, r.q.name) /\ r.q.name \notin Blocked
        /\ Honest(r.got) /\ Fits(r.got, r.out) /\ Public(r.got, everOff)
    BY Zenon, <1>1 DEF ReqInv, Active, PCs
  <1>3. LET s == Call("sent", r.q, r.out, None, Assemble(r.q, "cache", r.got)) IN ReqInv(s, everOff) /\ RespInv(s, everOff)
    BY Zenon, <1>2, MadeOf
  <1> QED BY Zenon, <1>1, <1>3, GateStep DEF Hit, buildCacheResponse

\* handleQuery answers what it resolved.
LEMMA RespondStep == ASSUME HandlerInv, NEW w \in Workers, Respond(w) PROVE HandlerInv'
  <1> DEFINE r == req[w]
             e == [r.got EXCEPT !.answers = IF privateFilter THEN FilterPrivateAddresses(@) ELSE @]
  <1>1. /\ r.pc = "respond" /\ ReqInv(r, everOff) /\ (~everOff => privateFilter)
        /\ everOff' = everOff /\ privateFilter' = privateFilter /\ cache' = cache
    BY DEF Respond, HandlerInv
  <1>2. /\ r.q \in Queries /\ Permitted(r.q.client, r.q.name) /\ r.q.name \notin Blocked
        /\ IsResult(r.got) /\ Honest(r.got) /\ Fits(r.got, r.out)
    BY Zenon, <1>1 DEF ReqInv, Active, PCs
  <1>3. /\ e.rcode = r.got.rcode /\ e.status = r.got.status /\ e.verdict = r.got.verdict /\ e.for = r.got.for
        /\ e.answers = IF privateFilter THEN FilterPrivateAddresses(r.got.answers) ELSE r.got.answers
    BY <1>2 DEF IsResult
  <1>4. Honest(e) /\ Fits(e, r.out) /\ Public(e, everOff)
    <2> HIDE DEF e, r
    <2>1. e.answers \subseteq r.got.answers /\ (~everOff => NoPrivate(e.answers))
      BY Zenon, <1>1, <1>3 DEF FilterPrivateAddresses, NoPrivate
    <2> QED BY Zenon, <1>2, <1>3, <2>1 DEF Honest, Fits, Public
  <1>5. LET s == Call("sent", r.q, r.out, None, Assemble(r.q, "resolver", e)) IN ReqInv(s, everOff) /\ RespInv(s, everOff)
    <2> HIDE DEF e
    <2> QED BY Zenon, <1>2, <1>4, MadeOf
  <1> QED BY Zenon, <1>1, <1>5, GateStep DEF Respond, buildResponse

\* A result is for the networks its scope says (ResolveWithECS returns).
LEMMA ResolveStep == ASSUME HandlerInv, NEW w \in Workers, NEW x \in Results, Resolve(w, x) PROVE HandlerInv'
  <1> DEFINE r == req[w]
             e == [rcode |-> x.rcode, answers |-> x.answers, status |-> x.status, err |-> x.err,
                   verdict |-> x.status, scope |-> x.scope, for |-> Scope(r.out, x.scope)]
             p == IF resolveOK(x) THEN "store" ELSE "failed"
             s == Call(p, r.q, r.out, e, r.resp)
  <1>1. /\ r.pc = "resolve" /\ ReqInv(r, everOff) /\ req = [v \in Workers |-> req[v]] /\ IsReq(r)
        /\ everOff' = everOff /\ privateFilter' = privateFilter /\ cache' = cache
    BY Zenon DEF Resolve, HandlerInv, ReqInv
  <1>2. Becomes(w, s)
    BY <1>1, OneCall DEF Resolve
  <1>3. IsResult(e) /\ Honest(e) /\ e.for = Scope(r.out, e.scope)
    BY Zenon DEF IsResult, Honest, Rcodes
  <1>4. Fits(e, r.out)
    BY Zenon DEF Fits, Scope
  <1>5. p \in {"store", "failed"}
    OBVIOUS
  <1>6. ReqInv(s, everOff) /\ RespInv(s, everOff)
    <2> HIDE DEF e, p, r
    <2> QED BY Zenon, <1>1, <1>3, <1>4, <1>5 DEF ReqInv, RespInv, Call, IsReq, PCs, Active
  <1>7. CacheInv'
    BY <1>1, CacheSame DEF HandlerInv
  <1> HIDE DEF s
  <1> QED BY <1>1, <1>2, <1>6, <1>7, CallStep

\* A step on with the same result in hand.
LEMMA GotoResult ==
  ASSUME NEW r, NEW off, ReqInv(r, off), r.pc \in {"failed", "store"}, NEW p \in {"error", "store", "respond"}
  PROVE  LET s == Call(p, r.q, r.out, r.got, r.resp) IN ReqInv(s, off) /\ RespInv(s, off)
  BY Zenon DEF ReqInv, RespInv, Call, IsReq, PCs, Active

\* The response is an error of the server's own.
LEMMA SendOwn ==
  ASSUME HandlerInv, NEW w \in Workers, req[w].q \in Queries, NEW x, x.ad = FALSE,
         x.from \notin {"cache", "stale", "resolver"}, Send(w, x),
         everOff' = everOff, privateFilter' = privateFilter, CacheInv'
  PROVE  HandlerInv'
  <1> DEFINE s == Call("sent", req[w].q, req[w].out, None, x)
  <1>1. req = [v \in Workers |-> req[v]] /\ IsReq(req[w])
    BY Zenon DEF HandlerInv, ReqInv
  <1>2. Becomes(w, s)
    BY <1>1, OneCall
  <1>3. ReqInv(s, everOff) /\ RespInv(s, everOff)
    BY Zenon DEF ReqInv, RespInv, Call, IsReq, PCs, Active
  <1> HIDE DEF s
  <1> QED BY Zenon, <1>2, <1>3, CallStep

\* An expired entry goes out without its verdict (GetStale).
LEMMA FailedStep == ASSUME HandlerInv, NEW w \in Workers, Failed(w) PROVE HandlerInv'
  <1> DEFINE r == req[w]
             k == Key(r.q, Global)
  <1>1. /\ r.pc = "failed" /\ ReqInv(r, everOff) /\ req = [v \in Workers |-> req[v]] /\ IsReq(r)
        /\ everOff' = everOff /\ privateFilter' = privateFilter /\ cache' = cache
    BY Zenon DEF Failed, HandlerInv, ReqInv
  <1>2. r.q \in Queries /\ Permitted(r.q.client, r.q.name) /\ r.q.name \notin Blocked
    BY <1>1 DEF ReqInv, Active, PCs
  <1>3. CacheInv'
    BY Zenon, <1>1, CacheSame DEF HandlerInv
  <1>4. ASSUME NEW e \in GetStale(k), Send(w, [buildCacheResponse(r.q, e) EXCEPT !.from = "stale"]) PROVE HandlerInv'
    <2> DEFINE a == Assemble(r.q, "cache", e)
               p == [a EXCEPT !.from = "stale"]
               s == Call("sent", r.q, r.out, None, p)
    <2>1. k \in CacheKeys /\ k[3] = Global /\ cache[k] # None /\ e = [cache[k] EXCEPT !.status = ""]
      BY Zenon, <1>2, <1>4, GlobalKey DEF GetStale
    <2>2. IsEntry(cache[k]) /\ Honest(cache[k]) /\ Public(cache[k], everOff) /\ Filed(cache[k], k)
      BY Zenon, <2>1 DEF HandlerInv, CacheInv, EntryInv
    <2>3. e.status = "" /\ e.answers = cache[k].answers /\ e.verdict = cache[k].verdict /\ e.for = cache[k].for
      BY Zenon, <2>1, <2>2 DEF IsEntry
    <2>4. e.answers # {} => e.for = None
      <3> SUFFICES ASSUME cache[k].answers # {}, cache[k].for # None PROVE FALSE
        BY Zenon, <2>3
      <3>1. Global = <<cache[k].for.addr, cache[k].for.len>>
        BY Zenon, <2>1, <2>2 DEF Filed
      <3> QED BY Zenon, <3>1 DEF Global
    <2> HIDE DEF k
    <2>5. /\ a.answers \subseteq e.answers /\ a.verdict = e.verdict /\ a.for = e.for
          /\ a.ad = (e.status = "secure" /\ ~r.q.cd)
          /\ a = [from |-> a.from, rcode |-> a.rcode, answers |-> a.answers, ad |-> a.ad, tc |-> a.tc, verdict |-> a.verdict, for |-> a.for]
      BY AssembleKeeps
    <2> HIDE DEF a
    <2>6. p.ad = FALSE /\ p.answers \subseteq e.answers /\ p.verdict = e.verdict /\ p.for = e.for
      BY Zenon, <2>3, <2>5
    <2> HIDE DEF p
    <2>7. Fits(p, r.out) /\ Public(p, everOff)
      BY Zenon, <2>2, <2>3, <2>4, <2>6 DEF Fits, Public, NoPrivate
    <2>8. ReqInv(s, everOff) /\ RespInv(s, everOff)
      <3> HIDE DEF r
      <3> QED BY Zenon, <1>2, <2>6, <2>7 DEF ReqInv, RespInv, Call, IsReq, PCs, Active
    <2>9. Becomes(w, s)
      BY <1>1, <1>4, OneCall DEF p, a, buildCacheResponse
    <2> HIDE DEF s
    <2> QED BY <1>1, <1>3, <2>8, <2>9, CallStep
  <1>5. ASSUME Send(w, buildErrorWithEDE("SERVFAIL")) PROVE HandlerInv'
    BY Zenon, <1>1, <1>2, <1>3, <1>5, OwnResponses, SendOwn
  <1>6. ASSUME NEW p \in {"error", "store"}, Goto(w, p) PROVE HandlerInv'
    <2> DEFINE s == Call(p, r.q, r.out, r.got, r.resp)
    <2>1. Becomes(w, s)
      BY Zenon, <1>1, <1>6, OneCall
    <2>2. ReqInv(s, everOff) /\ RespInv(s, everOff)
      BY <1>1, GotoResult
    <2> HIDE DEF s
    <2> QED BY Zenon, <1>1, <1>3, <2>1, <2>2, CallStep
  <1> QED BY Zenon, <1>4, <1>5, <1>6 DEF Failed

\* Entries are records (cache.Entry).
LEMMA EntryFields ==
  ASSUME NEW a, NEW b, NEW c, NEW d, NEW f, NEW g, NEW h
  PROVE  LET e == [rcode |-> a, answers |-> b, status |-> c, verdict |-> d, for |-> f, fresh |-> g]
         IN  /\ IsEntry(e) /\ e.rcode = a /\ e.answers = b /\ e.status = c /\ e.verdict = d /\ e.for = f
             /\ [e EXCEPT !.fresh = h] = [rcode |-> a, answers |-> b, status |-> c, verdict |-> d, for |-> f, fresh |-> h]
  <1> DEFINE e == [rcode |-> a, answers |-> b, status |-> c, verdict |-> d, for |-> f, fresh |-> g]
  <1>1. e.rcode = a /\ e.answers = b /\ e.status = c /\ e.verdict = d /\ e.for = f /\ e.fresh = g
    BY Zenon
  <1>2. IsEntry(e)
    BY <1>1 DEF IsEntry
  <1>3. [e EXCEPT !.fresh = h] = [rcode |-> a, answers |-> b, status |-> c, verdict |-> d, for |-> f, fresh |-> h]
    OBVIOUS
  <1> QED BY Zenon, <1>1, <1>2, <1>3

\* Negative entries have no records, and no verdict to pass on (StoreFailure, StoreNegative).
LEMMA NegativeEntry ==
  ASSUME NEW e, NEW k, NEW off, IsResult(e), Honest(e)
  PROVE  EntryInv(Negative(e), k, off)
  <1> DEFINE n == [e EXCEPT !.answers = {}, !.status = ""]
  <1>1. n.rcode = e.rcode /\ n.answers = {} /\ n.status = "" /\ n.verdict = e.verdict /\ n.for = e.for
    BY DEF IsResult
  <1> HIDE DEF n
  <1>2. Negative(e) = [rcode |-> n.rcode, answers |-> n.answers, status |-> n.status, verdict |-> n.verdict, for |-> n.for, fresh |-> TRUE]
    BY DEF Negative, Entry, n
  <1> DEFINE m == Negative(e)
  <1>3. m = [rcode |-> e.rcode, answers |-> {}, status |-> "", verdict |-> e.verdict, for |-> e.for, fresh |-> TRUE]
    BY Zenon, <1>1, <1>2
  <1> HIDE DEF m
  <1>4. IsEntry(m) /\ m.rcode = e.rcode /\ m.answers = {} /\ m.status = ""
    BY Zenon, <1>3, EntryFields
  <1>5. EntryInv(m, k, off)
    BY Zenon, <1>4 DEF EntryInv, Honest, Public, NoPrivate, Filed
  <1> QED BY <1>5 DEF m

\* handleQuery after an error of the resolver.
LEMMA ErrorStep == ASSUME HandlerInv, NEW w \in Workers, Error(w) PROVE HandlerInv'
  <1> DEFINE r == req[w]
  <1>1. r.pc = "error" /\ ReqInv(r, everOff) /\ everOff' = everOff /\ privateFilter' = privateFilter
    BY DEF Error, HandlerInv
  <1>2. r.q \in Queries /\ IsResult(r.got) /\ Honest(r.got)
    BY Zenon, <1>1 DEF ReqInv
  <1>3. EntryInv(Negative(r.got), Key(r.q, Global), everOff)
    BY Zenon, <1>2, NegativeEntry
  <1>4. CacheInv'
    BY <1>1, <1>3, CacheSame, CacheStep DEF Error, HandlerInv
  <1>5. \E x \in {buildErrorWithEDE("SERVFAIL"), buildError("SERVFAIL")} : Send(w, x)
    BY Zenon DEF Error
  <1> QED BY Zenon, <1>1, <1>2, <1>4, <1>5, OwnResponses, SendOwn

\* Records are stored filtered, and under the key of their scope (chooseCacheECSKey).
LEMMA StoreStep == ASSUME HandlerInv, NEW w \in Workers, Store(w) PROVE HandlerInv'
  <1> DEFINE r == req[w]
             g == r.got
             k == Key(r.q, chooseCacheECSKey(r.out, g.scope))
             kept == IF privateFilter THEN FilterPrivateAddresses(g.answers) ELSE g.answers
             e == Entry([g EXCEPT !.answers = kept])
             s == Call("respond", r.q, r.out, g, r.resp)
  <1>1. /\ r.pc = "store" /\ ReqInv(r, everOff) /\ req = [v \in Workers |-> req[v]] /\ IsReq(r)
        /\ everOff' = everOff /\ privateFilter' = privateFilter /\ (~everOff => privateFilter)
    BY DEF Store, HandlerInv, ReqInv
  <1>2. r.q \in Queries /\ IsResult(g) /\ Honest(g) /\ g.for = Scope(r.out, g.scope)
    BY Zenon, <1>1 DEF ReqInv
  <1>3. e = [rcode |-> g.rcode, answers |-> kept, status |-> g.status, verdict |-> g.verdict, for |-> g.for, fresh |-> TRUE]
    <2> HIDE DEF kept
    <2> QED BY Zenon, <1>2 DEF IsResult, Entry
  <1>4. ~everOff => NoPrivate(kept)
    BY <1>1 DEF FilterPrivateAddresses, NoPrivate
  <1>5. g.for # None => k[3] = <<g.for.addr, g.for.len>>
    <2> SUFFICES ASSUME g.for # None PROVE chooseCacheECSKey(r.out, g.scope) = <<g.for.addr, g.for.len>>
      BY ZenonT(40) DEF Key
    <2> DEFINE a == TruncateIP(r.out.addr, g.scope)
    <2>1. r.out # None /\ g.scope \notin {None, 0} /\ g.for = [addr |-> a, len |-> g.scope]
      BY <1>2 DEF Scope
    <2>2. chooseCacheECSKey(r.out, g.scope) = CacheKey([addr |-> a, len |-> g.scope])
      BY Zenon, <2>1 DEF chooseCacheECSKey
    <2>3. TruncateIP(a, g.scope) = a
      BY ZenonT(40), TruncateTwice
    <2> HIDE DEF a
    <2>4. CASE [addr |-> a, len |-> g.scope] # None
      BY <2>1, <2>2, <2>3, <2>4 DEF CacheKey
    <2>5. CASE [addr |-> a, len |-> g.scope] = None
      BY <2>1, <2>5
    <2> QED BY Zenon, <2>4, <2>5
  <1>6. EntryInv(e, k, everOff)
    <2> HIDE DEF e, k, kept, g
    <2> QED BY Zenon, <1>2, <1>3, <1>4, <1>5 DEF EntryInv, IsEntry, Honest, Public, Filed
  <1>7. EntryInv(Negative(g), Key(r.q, Global), everOff)
    BY Zenon, <1>2, NegativeEntry
  <1>8. \/ cache' = cache \/ cache' = [cache EXCEPT ![k] = e]
        \/ cache' = [cache EXCEPT ![Key(r.q, Global)] = Negative(g)]
    BY Zenon DEF Store
  <1>9. CacheInv'
    <2> HIDE DEF e, k, g, r
    <2> QED BY Zenon, <1>1, <1>6, <1>7, <1>8, CacheSame, CacheStep DEF HandlerInv
  <1>10. Becomes(w, s)
    BY Zenon, <1>1, OneCall DEF Store
  <1>11. ReqInv(s, everOff) /\ RespInv(s, everOff)
    BY Zenon, <1>1, GotoResult
  <1> HIDE DEF s
  <1> QED BY Zenon, <1>1, <1>9, <1>10, <1>11, CallStep

\* handleQuery returns.
LEMMA DoneStep == ASSUME HandlerInv, NEW w \in Workers, Done(w) PROVE HandlerInv'
  <1>1. everOff' = everOff /\ privateFilter' = privateFilter /\ cache' = cache /\ req = [v \in Workers |-> req[v]]
    BY Zenon DEF Done, HandlerInv
  <1>2. Becomes(w, Idle)
    BY <1>1 DEF Becomes, Done
  <1>3. ReqInv(Idle, everOff) /\ RespInv(Idle, everOff)
    BY Zenon DEF ReqInv, RespInv, Idle, IsReq, PCs, Active
  <1>4. CacheInv'
    BY <1>1, CacheSame DEF HandlerInv
  <1> QED BY Zenon, <1>1, <1>2, <1>3, <1>4, CallStep

\* An entry that runs out of its TTL is still one that may be served stale.
LEMMA ExpiredEntry ==
  ASSUME NEW e, NEW k, NEW off, NEW h, e # None, EntryInv(e, k, off)
  PROVE  EntryInv([e EXCEPT !.fresh = h], k, off)
  <1> DEFINE m == [e EXCEPT !.fresh = h]
  <1>1. IsEntry(e) /\ Honest(e) /\ Public(e, off) /\ Filed(e, k)
    BY DEF EntryInv
  <1>2. m = [rcode |-> e.rcode, answers |-> e.answers, status |-> e.status, verdict |-> e.verdict, for |-> e.for, fresh |-> h]
    <2> DEFINE c == [rcode |-> e.rcode, answers |-> e.answers, status |-> e.status, verdict |-> e.verdict, for |-> e.for, fresh |-> e.fresh]
    <2>1. m = [c EXCEPT !.fresh = h]
      BY <1>1 DEF IsEntry
    <2> QED BY <2>1, EntryFields
  <1>3. /\ IsEntry(m) /\ m.rcode = e.rcode /\ m.answers = e.answers /\ m.status = e.status
        /\ m.verdict = e.verdict /\ m.for = e.for
    <2> HIDE DEF m
    <2> QED BY Zenon, <1>2, EntryFields
  <1> HIDE DEF m
  <1>4. EntryInv(m, k, off)
    BY Zenon, <1>1, <1>3 DEF EntryInv, Honest, Public, Filed
  <1> QED BY <1>4 DEF m

\* Entries expire, go or are glue; no call changes.
LEMMA CacheAround ==
  ASSUME HandlerInv, (\E k \in CacheKeys : Expire(k) \/ Evict(k)) \/ (\E g \in Glue : ResolverStore(g))
  PROVE  HandlerInv'
  <1>1. everOff' = everOff /\ privateFilter' = privateFilter /\ req' = req
    BY Zenon DEF Expire, Evict, ResolverStore
  <1>2. ASSUME NEW k \in CacheKeys, Expire(k) PROVE CacheInv'
    <2> DEFINE e == [cache[k] EXCEPT !.fresh = FALSE]
    <2>1. cache' = [cache EXCEPT ![k] = e] /\ cache[k] # None
      BY <1>2 DEF Expire, Fresh
    <2>2. EntryInv(cache[k], k, everOff)
      BY DEF HandlerInv, CacheInv
    <2>4. EntryInv(e, k, everOff)
      BY <2>1, <2>2, ExpiredEntry
    <2> HIDE DEF e
    <2> QED BY Zenon, <1>1, <2>1, <2>4, CacheStep DEF HandlerInv
  <1>3. ASSUME NEW k \in CacheKeys, Evict(k) PROVE CacheInv'
    BY Zenon, <1>1, <1>3, CacheStep, NoneIsNoEntry DEF Evict, HandlerInv
  <1>4. ASSUME NEW g \in Glue, ResolverStore(g) PROVE CacheInv'
    <2> DEFINE e == [rcode |-> "NOERROR", answers |-> g.answers, status |-> "", verdict |-> "glue",
                     for |-> None, fresh |-> TRUE]
    <2>1. cache' = [cache EXCEPT ![Key(g, Global)] = e]
      BY Zenon, <1>4 DEF ResolverStore
    <2>2. EntryInv(e, Key(g, Global), everOff)
      BY Zenon DEF EntryInv, IsEntry, Honest, Public, Filed, Rcodes
    <2> HIDE DEF e
    <2> QED BY Zenon, <1>1, <2>1, <2>2, CacheStep DEF HandlerInv
  <1>5. CacheInv'
    BY Zenon, <1>2, <1>3, <1>4
  <1> QED BY <1>1, <1>5 DEF HandlerInv

\* A configuration that switches the filter off ends what is claimed of it (SetRuntimeApplier).
LEMMA ConfigStep == ASSUME HandlerInv, NEW c \in Configs, ApplyConfig(c) PROVE HandlerInv'
  <1>1. /\ req' = req /\ cache' = cache /\ privateFilter' = c.filter /\ everOff' = (everOff \/ ~c.filter)
        /\ c.filter \in BOOLEAN /\ everOff \in BOOLEAN
    BY InputAssumption DEF ApplyConfig, HandlerInv
  <1>2. everOff' \in BOOLEAN /\ privateFilter' \in BOOLEAN /\ (~everOff' => privateFilter') /\ (everOff => everOff')
    BY Zenon, <1>1
  <1>3. \A k \in CacheKeys : EntryInv(cache[k], k, everOff')
    BY <1>2 DEF HandlerInv, CacheInv, EntryInv, Public
  <1>4. \A w \in Workers : ReqInv(req[w], everOff') /\ RespInv(req[w], everOff')
    BY Zenon, <1>2 DEF HandlerInv, ReqInv, RespInv, Public
  <1>5. CacheInv'
    BY <1>1, <1>3 DEF CacheInv, HandlerInv
  <1> QED BY Zenon, <1>1, <1>2, <1>4, <1>5 DEF HandlerInv

-----------------------------------------------------------------------------
\* Every step of Next keeps the invariant.
LEMMA HandlerStep == HandlerInv /\ [Next]_vars => HandlerInv'
  <1> SUFFICES ASSUME HandlerInv, [Next]_vars PROVE HandlerInv'
    BY Zenon
  <1>1. ASSUME NEW w \in Workers, Handle(w) PROVE HandlerInv'
    BY Zenon, <1>1, ReceiveStep, LookupStep, HitStep, ResolveStep, FailedStep, ErrorStep, StoreStep, RespondStep, DoneStep DEF Handle
  <1>2. ASSUME UNCHANGED hvars PROVE HandlerInv'
    BY Zenon, <1>2 DEF hvars, HandlerInv, CacheInv
  <1>3. ASSUME Around PROVE HandlerInv'
    BY <1>2, <1>3, CacheAround, ConfigStep DEF Around
  <1> QED BY <1>1, <1>2, <1>3 DEF Next, vars

\* Whatever goroutines, entries and configurations meet, the cache and the
\* calls of Handle stay in order.
THEOREM HandlerInvariant == Spec => []HandlerInv
  BY HandlerInit, HandlerStep, PTL DEF Spec

\* chooseCacheECSKey, CacheKey, GetStale: an answer for one network reaches no
\* client of another.
THEOREM ScopeIsKept == Spec => []AnswersInScope
  BY HandlerInvariant, InvImplies, PTL

\* buildCacheResponse, buildResponse, GetStale: AD says what the resolution found.
THEOREM VerdictIsKept == Spec => []AuthenticDataIsValidated
  BY HandlerInvariant, InvImplies, PTL

\* FilterPrivateAddresses at the store and at the response: while the filter has
\* been on, no private address of a resolution goes out.
THEOREM PrivateAreFiltered == Spec => []PrivateStaysOut
  BY HandlerInvariant, InvImplies, PTL

\* Check, CheckWithZone, IsBlocked: records go to clients the lists permit.
THEOREM ListsAreObeyed == Spec => []OnlyPermittedAnswers
  BY HandlerInvariant, InvImplies, PTL

-----------------------------------------------------------------------------
(* The limiters.                                                               *)

\* A response is counted under a key that RRL knows (rrlKey).
LEMMA GateLimits ==
  ASSUME HandlerInv, NEW w \in Workers, NEW p, req[w].pc \in {"hit", "respond"}, Gate(w, p, req[w].got.rcode)
  PROVE  LimitsNext \/ UNCHANGED limits
  <1>1. req[w].q \in Queries /\ req[w].got.rcode \in Rcodes
    BY DEF HandlerInv, ReqInv, Honest
  <1>2. RRLOn => rrlKey(req[w].q, req[w].got.rcode) \in Keys
    BY Zenon, <1>1, KeysAssumption DEF Rcodes
  <1> QED BY Zenon, <1>2 DEF Gate, LimitsNext

\* Every step of the handler is a step of its limiters, or none.
LEMMA LimitsStep == HandlerInv /\ [Next]_vars => [LimitsNext]_limits
  <1> SUFFICES ASSUME HandlerInv, [Next]_vars PROVE LimitsNext \/ UNCHANGED limits
    OBVIOUS
  <1>1. ASSUME NEW w \in Workers, NEW q \in Queries, Receive(w, q) PROVE LimitsNext \/ UNCHANGED limits
    BY Zenon, <1>1, InputAssumption DEF Receive, LimitsNext
  <1>2. ASSUME NEW w \in Workers, Hit(w) \/ Respond(w) PROVE LimitsNext \/ UNCHANGED limits
    <2>1. CASE Hit(w)
      <3>1. req[w].pc \in {"hit", "respond"}
        BY Zenon, <2>1 DEF Hit
      <3>2. Gate(w, buildCacheResponse(req[w].q, req[w].got), req[w].got.rcode)
        BY Zenon, <2>1 DEF Hit
      <3> QED BY <3>1, <3>2, GateLimits
    <2>2. CASE Respond(w)
      <3>1. req[w].pc \in {"hit", "respond"}
        BY Zenon, <2>2 DEF Respond
      <3>2. Gate(w, buildResponse(req[w].q, req[w].got), req[w].got.rcode)
        BY <2>2 DEF Respond
      <3> QED BY <3>1, <3>2, GateLimits
    <2> QED BY Zenon, <1>2, <2>1, <2>2
  <1>3. ASSUME NEW w \in Workers, Handle(w) PROVE LimitsNext \/ UNCHANGED limits
    BY Zenon, <1>1, <1>2, <1>3 DEF Handle, Lookup, LookupECS, Resolve, Failed, Error, Store, Done
  <1>4. ASSUME Around PROVE LimitsNext \/ UNCHANGED limits
    BY Zenon, <1>4 DEF Around, Expire, Evict, ResolverStore, ApplyConfig, LimitsNext
  <1> QED BY <1>3, <1>4 DEF Next, vars

\* Handle implements LimitsSpec: whatever the queries, it changes the limiters
\* by calls of Allow and AllowResponse alone.
THEOREM HandlerLimits == Spec => LimitsSpec
  <1>1. Init => LimitsInit
    BY DEF Init
  <1> QED BY <1>1, LimitsStep, HandlerInvariant, PTL DEF Spec, LimitsSpec

\* So the rates hold of the handler: of the queries it lets in and of the
\* responses it lets out (Allow, AllowResponse as Handle calls them).
THEOREM HandlerWithinRates == Spec => [](AdmittedBound /\ RespondedBound /\ SlipKeepsWayOpen)
  BY HandlerLimits, AdmittedWithinRate, RespondedWithinRate, SlipLeavesAWay, PTL

-----------------------------------------------------------------------------
(* The blocklist the handler asks.                                            *)


\* The custom rules only ever gain allows, and every matcher a refresh builds
\* holds no allow that is not among them.
BuiltOK ==
    \A r \in Refreshers :
        /\ refresher[r].built.wildcardWhitelist = {} /\ refresher[r].built.wildcards = {}
        /\ refresher[r].built.whitelist \subseteq customAllows
        /\ refresher[r].pc = "swap" => Whitelist \subseteq refresher[r].built.whitelist

\* UnblockDomain records the allow before it touches the matcher.
AdminOK ==
    \A a \in Admins :
        /\ admin[a].pc # "idle" => admin[a].dom \in Domains
        /\ admin[a].pc \in {"addWhitelist", "remove"} => admin[a].dom \in customAllows

\* The configured whitelist is in the custom rules, and in the matcher in use
\* once a refresh has completed; only a response policy zone has wildcards.
AllowsOK ==
    /\ Whitelist \subseteq customAllows
    /\ loaded => Whitelist \subseteq matcher.whitelist
    /\ matcher.wildcards = {}

IInv == TypeOK /\ BuiltOK /\ AdminOK /\ AllowsOK

\* An empty matcher (NewMatcher) is a set of rules.
LEMMA NewMatcherType == NewMatcher \in Rules
BY Zenon DEF NewMatcher, Rules

\* AddRules and Match have the types the invariant needs.
LEMMA RuleTypes ==
    /\ \A m \in Rules, r \in Rules : AddRules(m, r) \in Rules
    /\ \A m \in Rules : \A d : Match(m, d) \in BOOLEAN
BY DEF AddRules, Rules, Match, Covers

\* Initially the invariant holds.
LEMMA InitInvariant == BlocklistInit => IInv
<1> SUFFICES ASSUME BlocklistInit PROVE IInv
  OBVIOUS
<1>1. TypeOK
  BY Zenon, ListAssumption, NewMatcherType DEF BlocklistInit, TypeOK, IdleRefresher, IdleAdmin, IdleQuery
<1>2. BuiltOK /\ AdminOK /\ AllowsOK
  BY Zenon DEF BlocklistInit, BuiltOK, AdminOK, AllowsOK, IdleRefresher, IdleAdmin, NewMatcher
<1> QED BY <1>1, <1>2 DEF IInv

\* The steps of a refresh preserve it.
LEMMA RefreshKeepsInvariant ==
    ASSUME IInv, NEW r \in Refreshers, RefreshStart(r) \/ RefreshStep(r)
    PROVE  IInv'
<1>0. refresher[r] \in [pc : {"idle", "fetch", "swap"}, todo : SUBSET Lists, built : Rules, builtRPZ : Rules]
  BY DEF IInv, TypeOK
<1>1. CASE RefreshStart(r)
  <2>1. /\ refresher' = [refresher EXCEPT ![r] = [pc |-> "fetch", todo |-> sources, built |-> NewMatcher, builtRPZ |-> NewMatcher]]
        /\ UNCHANGED <<sources, customBlocks, customAllows, matcher, rpzMatcher, loaded, admin, query>>
    BY Zenon, <1>1 DEF RefreshStart, IdleRefresher
  <2>2. TypeOK'
    BY Zenon, <2>1, NewMatcherType DEF IInv, TypeOK
  <2>3. BuiltOK' /\ AdminOK' /\ AllowsOK'
    BY Zenon, <2>1 DEF IInv, TypeOK, BuiltOK, AdminOK, AllowsOK, NewMatcher
  <2> QED BY Zenon, <2>2, <2>3 DEF IInv
<1>2. ASSUME NEW l \in Lists, FetchOK(r, l) PROVE IInv'
  <2> DEFINE c == refresher[r]
             b == IF l \in RPZLists THEN c.built ELSE [c.built EXCEPT !.exact = @ \cup Content[l].exact]
             z == IF l \in RPZLists THEN AddRules(c.builtRPZ, Content[l]) ELSE c.builtRPZ
  <2>1. /\ refresher' = [refresher EXCEPT ![r] = [pc |-> "fetch", todo |-> c.todo \ {l}, built |-> b, builtRPZ |-> z]]
        /\ UNCHANGED <<sources, customBlocks, customAllows, matcher, rpzMatcher, loaded, admin, query>>
    BY <1>2 DEF FetchOK
  <2>2. b \in Rules /\ b.whitelist = c.built.whitelist /\ b.wildcardWhitelist = c.built.wildcardWhitelist
        /\ b.wildcards = c.built.wildcards
    BY Zenon, <1>0, ListAssumption DEF Rules
  <2>3. z \in Rules
    BY Zenon, <1>0, ListAssumption, RuleTypes
  <2> HIDE DEF b, z
  <2>4. TypeOK'
    BY Zenon, <1>0, <2>1, <2>2, <2>3 DEF IInv, TypeOK
  <2>5. BuiltOK' /\ AdminOK' /\ AllowsOK'
    BY Zenon, <2>1, <2>2 DEF IInv, TypeOK, BuiltOK, AdminOK, AllowsOK
  <2> QED BY <2>4, <2>5 DEF IInv
<1>3. ASSUME NEW l \in Lists, FetchFailed(r, l) PROVE IInv'
  <2>1. /\ refresher' = [refresher EXCEPT ![r] = [refresher[r] EXCEPT !.todo = refresher[r].todo \ {l}]]
        /\ refresher[r].pc = "fetch"
        /\ UNCHANGED <<sources, customBlocks, customAllows, matcher, rpzMatcher, loaded, admin, query>>
    BY <1>3 DEF FetchFailed
  <2>2. TypeOK'
    BY <1>0, <2>1 DEF IInv, TypeOK
  <2>3. BuiltOK' /\ AdminOK' /\ AllowsOK'
    BY <1>0, <2>1 DEF IInv, TypeOK, BuiltOK, AdminOK, AllowsOK
  <2> QED BY <2>2, <2>3 DEF IInv
<1>4. CASE ApplyCustom(r)
  <2> DEFINE c == refresher[r]
             b == [c.built EXCEPT !.exact = @ \cup customBlocks, !.whitelist = @ \cup customAllows]
  <2>1. /\ refresher' = [refresher EXCEPT ![r] = [pc |-> "swap", todo |-> {}, built |-> b, builtRPZ |-> c.builtRPZ]]
        /\ UNCHANGED <<sources, customBlocks, customAllows, matcher, rpzMatcher, loaded, admin, query>>
    BY <1>4 DEF ApplyCustom
  <2>2. b \in Rules /\ b.whitelist = c.built.whitelist \cup customAllows /\ b.wildcardWhitelist = c.built.wildcardWhitelist
        /\ b.wildcards = c.built.wildcards
    BY Zenon, <1>0 DEF Rules, IInv, TypeOK
  <2> HIDE DEF b
  <2>3. TypeOK'
    BY Zenon, <1>0, <2>1, <2>2 DEF IInv, TypeOK
  <2>4. BuiltOK' /\ AdminOK' /\ AllowsOK'
    BY Zenon, <2>1, <2>2 DEF IInv, TypeOK, BuiltOK, AdminOK, AllowsOK
  <2> QED BY <2>3, <2>4 DEF IInv
<1>5. CASE Swap(r)
  <2>1. TypeOK'
    BY Zenon, <1>0, <1>5, NewMatcherType DEF IInv, TypeOK, Swap, IdleRefresher
  <2>2. BuiltOK' /\ AdminOK' /\ AllowsOK'
    BY Zenon, <1>0, <1>5 DEF IInv, TypeOK, BuiltOK, AdminOK, AllowsOK, Swap, IdleRefresher, NewMatcher
  <2> QED BY <2>1, <2>2 DEF IInv
<1> QED BY Zenon, <1>1, <1>2, <1>3, <1>4, <1>5 DEF RefreshStep

\* So do the steps of the dashboard.
LEMMA AdminKeepsInvariant ==
    ASSUME IInv, NEW a \in Admins,
           AdminStep(a) \/ \E d \in Domains \cup {<< >>} : BlockDomain(a, d) \/ UnblockDomain(a, d)
    PROVE  IInv'
<1>0. /\ admin[a] \in [pc : {"idle", "addExact", "addWhitelist", "remove"}, dom : Domains \cup {<< >>}]
      /\ matcher \in Rules
  BY DEF IInv, TypeOK
<1>1. ASSUME NEW d \in Domains \cup {<< >>}, BlockDomain(a, d) PROVE IInv'
  <2>1. TypeOK'
    BY Zenon, <1>1 DEF IInv, TypeOK, BlockDomain
  <2>2. BuiltOK' /\ AdminOK' /\ AllowsOK'
    BY Zenon, <1>1 DEF IInv, TypeOK, BuiltOK, AdminOK, AllowsOK, BlockDomain
  <2> QED BY Zenon, <2>1, <2>2 DEF IInv
<1>2. ASSUME NEW d \in Domains \cup {<< >>}, UnblockDomain(a, d) PROVE IInv'
  <2>1. TypeOK'
    BY Zenon, <1>2 DEF IInv, TypeOK, UnblockDomain
  <2>2. BuiltOK' /\ AdminOK' /\ AllowsOK'
    BY Zenon, <1>2 DEF IInv, TypeOK, BuiltOK, AdminOK, AllowsOK, UnblockDomain
  <2> QED BY <2>1, <2>2 DEF IInv
<1>3. CASE AddExact(a)
  <2>1. matcher' \in Rules /\ matcher'.whitelist = matcher.whitelist /\ matcher'.wildcards = matcher.wildcards
    <3>1. admin[a].dom \in Domains
      BY <1>3 DEF AddExact, IInv, AdminOK
    <3> QED BY <1>0, <1>3, <3>1 DEF AddExact, Rules
  <2>2. TypeOK'
    BY <1>3, <2>1 DEF IInv, TypeOK, AddExact, IdleAdmin
  <2>3. BuiltOK' /\ AdminOK' /\ AllowsOK'
    BY Zenon, <1>3, <2>1 DEF IInv, TypeOK, BuiltOK, AdminOK, AllowsOK, AddExact, IdleAdmin
  <2> QED BY <2>2, <2>3 DEF IInv
<1>4. CASE AddWhitelist(a)
  <2>1. matcher' \in Rules /\ matcher.whitelist \subseteq matcher'.whitelist /\ matcher'.wildcards = matcher.wildcards
    <3>1. admin[a].dom \in Domains
      BY <1>4 DEF AddWhitelist, IInv, AdminOK
    <3> QED BY <1>0, <1>4, <3>1 DEF AddWhitelist, Rules
  <2>2. TypeOK'
    BY Zenon, <1>0, <1>4, <2>1 DEF IInv, TypeOK, AddWhitelist
  <2>3. BuiltOK' /\ AdminOK' /\ AllowsOK'
    BY <1>4, <2>1 DEF IInv, TypeOK, BuiltOK, AdminOK, AllowsOK, AddWhitelist
  <2> QED BY <2>2, <2>3 DEF IInv
<1>5. CASE Remove(a)
  <2>1. matcher' \in Rules /\ matcher'.whitelist = matcher.whitelist /\ matcher'.wildcards \subseteq matcher.wildcards
    BY Zenon, <1>0, <1>5 DEF Remove, Rules
  <2>2. TypeOK'
    BY <1>5, <2>1 DEF IInv, TypeOK, Remove, IdleAdmin
  <2>3. BuiltOK' /\ AdminOK' /\ AllowsOK'
    BY Zenon, <1>5, <2>1 DEF IInv, TypeOK, BuiltOK, AdminOK, AllowsOK, Remove, IdleAdmin
  <2> QED BY <2>2, <2>3 DEF IInv
<1> QED BY Zenon, <1>1, <1>2, <1>3, <1>4, <1>5 DEF AdminStep

\* Changes of the lists and queries preserve it: they touch none of the rules.
LEMMA OthersKeepInvariant ==
    ASSUME IInv,
           \/ \E l \in Lists : AddList(l) \/ RemoveList(l)
           \/ \E q \in Queriers : IsBlockedByList(q) \/ QueryDone(q) \/ \E d \in Domains : IsBlocked(q, d)
           \/ UNCHANGED blocklistVars
    PROVE  IInv'
<1>1. UNCHANGED <<customBlocks, customAllows, matcher, rpzMatcher, loaded, refresher, admin>>
  BY Zenon DEF AddList, RemoveList, IsBlockedByList, QueryDone, IsBlocked, blocklistVars
<1>2. sources' \subseteq Lists
  BY Zenon DEF IInv, TypeOK, AddList, RemoveList, IsBlockedByList, QueryDone, IsBlocked, blocklistVars
<1> DEFINE Q == [pc : {"idle", "matcher", "done"}, dom : Domains \cup {<< >>}, began : BOOLEAN, blocked : BOOLEAN]
<1>3. query \in [Queriers -> Q]
  BY DEF IInv, TypeOK
<1>4. query' \in [Queriers -> Q]
  <2>1. ASSUME NEW q \in Queriers, NEW d \in Domains, IsBlocked(q, d) PROVE query' \in [Queriers -> Q]
    <3> DEFINE v == [pc |-> IF Match(rpzMatcher, d) THEN "done" ELSE "matcher", dom |-> d,
                     began |-> BlockedNow(d), blocked |-> Match(rpzMatcher, d)]
    <3>1. Match(rpzMatcher, d) \in BOOLEAN /\ BlockedNow(d) \in BOOLEAN
      BY Zenon, RuleTypes DEF IInv, TypeOK, BlockedNow
    <3>2. v \in Q
      BY Zenon, <3>1
    <3>3. query' = [query EXCEPT ![q] = v]
      BY <2>1 DEF IsBlocked
    <3> QED BY Zenon, <1>3, <3>2, <3>3
  <2>2. ASSUME NEW q \in Queriers, IsBlockedByList(q) PROVE query' \in [Queriers -> Q]
    <3> DEFINE b == Match(matcher, query[q].dom)
    <3>1. b \in BOOLEAN
      BY RuleTypes DEF IInv, TypeOK
    <3>2. query' = [query EXCEPT ![q] = [query[q] EXCEPT !.pc = "done", !.blocked = b]]
      BY Zenon, <2>2 DEF IsBlockedByList
    <3> HIDE DEF b
    <3> QED BY Zenon, <1>3, <3>1, <3>2
  <2>3. ASSUME NEW q \in Queriers, QueryDone(q) PROVE query' \in [Queriers -> Q]
    BY Zenon, <1>3, <2>3 DEF QueryDone, IdleQuery
  <2>4. CASE UNCHANGED query
    BY Zenon, <1>3, <2>4
  <2> QED BY Zenon, <2>1, <2>2, <2>3, <2>4 DEF AddList, RemoveList, blocklistVars
<1>5. TypeOK'
  BY Zenon, <1>1, <1>2, <1>4 DEF IInv, TypeOK
<1>6. BuiltOK' /\ AdminOK' /\ AllowsOK'
  BY Zenon, <1>1 DEF IInv, BuiltOK, AdminOK, AllowsOK
<1> QED BY <1>5, <1>6 DEF IInv

\* The invariant is inductive.
THEOREM Invariant == BlocklistSpec => []IInv
<1>1. IInv /\ [BlocklistNext]_blocklistVars => IInv'
  BY RefreshKeepsInvariant, AdminKeepsInvariant, OthersKeepInvariant DEF BlocklistNext
<1> QED BY InitInvariant, <1>1, PTL DEF BlocklistSpec

\* The variables have their types in every reachable state.
THEOREM TypeCorrect == BlocklistSpec => []TypeOK
<1>1. IInv => TypeOK
  BY Zenon DEF IInv
<1> QED BY Invariant, <1>1, PTL

\* Once a refresh has completed, no name of the configured whitelist is blocked
\* by the matcher, however refreshes and custom rules overlap.
THEOREM WhitelistIsHonoured == BlocklistSpec => []WhitelistHolds
<1>1. IInv => WhitelistHolds
  BY DEF IInv, AllowsOK, WhitelistHolds, Match
<1> QED BY Invariant, <1>1, PTL

\* A custom block in force is lost only to the swap of a refresh that had read
\* the custom rules before.
THEOREM LossIsOverlap == BlocklistSpec => LostOnlyToOverlap
<1> DEFINE Lost == \A d \in Domains : CustomBlock(d) /\ CustomBlock(d)' /\ Match(matcher, d) /\ ~Match(matcher, d)' =>
        \E r \in Refreshers : refresher[r].pc = "swap" /\ d \notin refresher[r].built.exact /\ refresher'[r].pc = "idle"
<1>1. IInv /\ [BlocklistNext]_blocklistVars => [Lost]_blocklistVars
  <2> SUFFICES ASSUME IInv, [BlocklistNext]_blocklistVars, NEW d \in Domains,
                      d \in customBlocks, d \notin customAllows, d \in customBlocks', d \notin customAllows',
                      Match(matcher, d), ~Match(matcher', d)
               PROVE  \E r \in Refreshers : refresher[r].pc = "swap" /\ d \notin refresher[r].built.exact /\ refresher'[r].pc = "idle"
    BY DEF CustomBlock, Match, Covers
  <2>1. matcher' # matcher
    BY Zenon
  <2>2. ASSUME NEW r \in Refreshers, Swap(r)
        PROVE  refresher[r].pc = "swap" /\ d \notin refresher[r].built.exact /\ refresher'[r].pc = "idle"
    <3>1. refresher[r].pc = "swap" /\ refresher'[r].pc = "idle" /\ matcher' = refresher[r].built
      BY Zenon, <2>2 DEF Swap, IInv, TypeOK, IdleRefresher
    <3>2. d \notin matcher'.whitelist /\ matcher'.wildcardWhitelist = {}
      BY Zenon, <3>1 DEF IInv, BuiltOK
    <3>3. ~Covers(matcher'.wildcardWhitelist, d)
      BY Zenon, <3>2 DEF Covers
    <3> QED BY Zenon, <3>1, <3>2, <3>3 DEF Match
  <2>3. ASSUME NEW a \in Admins, AdminStep(a) PROVE FALSE
    <3>0. matcher \in Rules
      BY DEF IInv, TypeOK
    <3>1. CASE AddExact(a)
      <4>1. /\ d \in matcher.exact => d \in matcher'.exact
            /\ matcher'.wildcards = matcher.wildcards /\ matcher'.whitelist = matcher.whitelist
            /\ matcher'.wildcardWhitelist = matcher.wildcardWhitelist
        BY Zenon, <3>0, <3>1 DEF AddExact, Rules
      <4> QED BY <4>1 DEF Match
    <3>2. CASE AddWhitelist(a)
      <4>1. admin[a].dom # d
        BY <3>2 DEF AddWhitelist, IInv, AdminOK
      <4>2. /\ matcher'.exact = matcher.exact /\ matcher'.wildcards = matcher.wildcards
            /\ d \notin matcher.whitelist => d \notin matcher'.whitelist
            /\ matcher'.wildcardWhitelist = matcher.wildcardWhitelist
        BY Zenon, <3>0, <3>2, <4>1 DEF AddWhitelist, Rules
      <4> QED BY <4>2 DEF Match
    <3>3. CASE Remove(a)
      <4>1. admin[a].dom # d
        BY <3>3 DEF Remove, IInv, AdminOK
      <4> DEFINE e == admin[a].dom
      <4>2. /\ matcher'.exact = matcher.exact \ {e} /\ matcher'.wildcards = matcher.wildcards \ {e}
            /\ matcher'.whitelist = matcher.whitelist
            /\ matcher'.wildcardWhitelist = matcher.wildcardWhitelist
        BY Zenon, <3>0, <3>3 DEF Remove, Rules
      <4>3. d \in matcher.exact
        BY Zenon DEF Match, IInv, AllowsOK, Covers
      <4>4. d \in matcher'.exact
        BY <4>1, <4>2, <4>3
      <4> QED BY <4>2, <4>4 DEF Match
    <3> QED BY Zenon, <2>3, <3>1, <3>2, <3>3 DEF AdminStep
  <2> QED BY Zenon, <2>1, <2>2, <2>3 DEF BlocklistNext, RefreshStart, RefreshStep, ApplyCustom, FetchOK, FetchFailed,
                                  BlockDomain, UnblockDomain, AddList, RemoveList, IsBlockedByList, QueryDone, IsBlocked, blocklistVars
<1> QED BY Invariant, <1>1, PTL DEF BlocklistSpec, LostOnlyToOverlap

\* A query is blocked only if the matchers blocked its name when it began or
\* block it when it ends, although IsBlocked reads them one after the other
\* while refreshes swap them.
THEOREM ReportIsGrounded == BlocklistSpec => BlockedForAReason
<1> DEFINE Grounded == \A q \in Queriers : query[q].pc # "done" /\ query'[q].pc = "done" /\ query'[q].blocked =>
        BlockedNow(query'[q].dom) \/ query[q].began
<1>1. IInv /\ [BlocklistNext]_blocklistVars => [Grounded]_blocklistVars
  <2> SUFFICES ASSUME IInv, [BlocklistNext]_blocklistVars, NEW q \in Queriers,
                      query[q].pc # "done", query'[q].pc = "done", query'[q].blocked
               PROVE  BlockedNow(query'[q].dom)
    BY Zenon
  <2>1. /\ query \in [Queriers -> [pc : {"idle", "matcher", "done"}, dom : Domains \cup {<< >>},
                                   began : BOOLEAN, blocked : BOOLEAN]]
        /\ query' # query
    BY DEF IInv, TypeOK
  <2>2. PICK p \in Queriers : IsBlockedByList(p) \/ QueryDone(p) \/ \E d \in Domains : IsBlocked(p, d)
    BY Zenon, <2>1 DEF BlocklistNext, RefreshStart, RefreshStep, ApplyCustom, FetchOK, FetchFailed, Swap, AdminStep, AddExact,
                AddWhitelist, Remove, BlockDomain, UnblockDomain, AddList, RemoveList, blocklistVars
  <2>3. ~QueryDone(p)
    BY Zenon, <2>1 DEF QueryDone, IdleQuery
  <2>4. CASE IsBlockedByList(p)
    <3>1. p = q
      BY <2>1, <2>4 DEF IsBlockedByList
    <3>2. query'[q].dom = query[q].dom /\ query'[q].blocked = Match(matcher, query[q].dom)
      BY Zenon, <2>1, <2>4, <3>1 DEF IsBlockedByList
    <3> QED  BY Zenon, <3>2 DEF BlockedNow
  <2>5. ASSUME NEW d \in Domains, IsBlocked(p, d) PROVE BlockedNow(query'[q].dom)
    <3>1. p = q
      BY Zenon, <2>1, <2>5 DEF IsBlocked
    <3>2. query'[q].dom = d /\ query'[q].blocked = Match(rpzMatcher, d)
      BY Zenon, <2>1, <2>5, <3>1 DEF IsBlocked
    <3> QED  BY Zenon, <3>2 DEF BlockedNow
  <2> QED  BY Zenon, <2>2, <2>3, <2>4, <2>5
<1> QED  BY Invariant, <1>1, PTL DEF BlocklistSpec, BlockedForAReason
=============================================================================
