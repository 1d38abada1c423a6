-------------- MODULE LimiterProofs ----------------------------
(* The console's login limiter, for any goroutines and any limits.             *)
EXTENDS Console, FiniteSetTheorems, TLAPS

\* Time for the provers on a machine that is busy.
USE SMTT(30), ZenonT(30)

-----------------------------------------------------------------------------
(* The login limiter.                                                         *)

\* Logins that were let in and have not compared their password.
Trying == {"read", "verify"}
Tried == {w \in Workers : h[w].pc \in Trying}
Others == Cardinality(Workers) - 1

\* The attempts from the lo-th to the hi-th that are in the window that ends now,
\* and all those in the window that ends at t.
Late(lo, hi) == {i \in lo .. hi : tries[i] > now - Window}
Windowed(t) == {i \in 1 .. Len(tries) : t - Window < tries[i] /\ tries[i] <= t}

\* Without a lockout, since the k-th attempt: the limiter remembers all attempts
\* after it that are in the window, and few before it are.
OpenAfter(k) ==
    /\ Cardinality(Late(1, k)) <= Others
    /\ Late(k + 1, Len(tries)) \subseteq limiter.failures
    /\ Cardinality(limiter.failures) < MaxFailures
    /\ \A i \in k + 1 .. Len(tries) : tries[i] <= limiter.lastSeen

\* The k-th attempt armed a lockout: those after it are of goroutines let in
\* before, and nobody is let in before all up to it are out of the window.
ShutAt(k) ==
    /\ Len(tries) - k + Cardinality(Tried) <= Others
    /\ \A i \in 1 .. k : tries[i] + Lockout <= limiter.lockedUntil
    /\ Cardinality(Late(1, k)) <= MaxFailures + Others

LimiterType ==
    /\ now \in Nat \ {0} /\ tries \in Seq(Nat) /\ \A i \in 1 .. Len(tries) : tries[i] <= now
    /\ limiter \in [failures : SUBSET (1 .. Len(tries)), lockedUntil : Nat, lastSeen : Nat]
    /\ limiter.lastSeen <= now

LimiterInv ==
    /\ LimiterType
    /\ \A t \in Nat : Cardinality(Windowed(t)) <= MaxFailures + 2 * Others
    /\ \E k \in 0 .. Len(tries) : IF limiter.lockedUntil = 0 THEN OpenAfter(k) ELSE ShutAt(k)

\* Sets of attempts and of goroutines are finite.
LEMMA Fewer ==
  ASSUME NEW lo \in Int, NEW hi \in Int, NEW S, NEW T, S \subseteq lo .. hi, T \subseteq S
  PROVE  /\ IsFiniteSet(S) /\ IsFiniteSet(T) /\ Cardinality(S) \in Nat /\ Cardinality(T) \in Nat
         /\ Cardinality(T) <= Cardinality(S)
         /\ Cardinality(lo .. hi) = IF lo > hi THEN 0 ELSE hi - lo + 1
         /\ Cardinality(S) <= Cardinality(lo .. hi)
  <1>1. IsFiniteSet(lo .. hi) /\ Cardinality(lo .. hi) = IF lo > hi THEN 0 ELSE hi - lo + 1
    BY FS_Interval
  <1>2. IsFiniteSet(S) /\ Cardinality(S) <= Cardinality(lo .. hi)
    BY Zenon, <1>1, FS_Subset
  <1>3. IsFiniteSet(T) /\ Cardinality(T) <= Cardinality(S)
    BY Zenon, <1>2, FS_Subset
  <1> QED BY <1>1, <1>2, <1>3, FS_CardinalityType

LEMMA Span ==
  ASSUME NEW k \in Nat, NEW n \in Nat, k <= n PROVE IsFiniteSet(k + 1 .. n) /\ Cardinality(k + 1 .. n) = n - k
  <1>1. k + 1 \in Int /\ n \in Int
    OBVIOUS
  <1>2. IsFiniteSet(k + 1 .. n) /\ Cardinality(k + 1 .. n) = IF k + 1 > n THEN 0 ELSE n - (k + 1) + 1
    BY <1>1, FS_Interval
  <1> QED BY <1>2

LEMMA Together ==
  ASSUME NEW S, NEW T, IsFiniteSet(S), IsFiniteSet(T), NEW R \in SUBSET (S \cup T)
  PROVE  Cardinality(R) <= Cardinality(S) + Cardinality(T)
  <1>1. /\ IsFiniteSet(S \cup T) /\ IsFiniteSet(S \cap T)
        /\ Cardinality(S \cup T) = Cardinality(S) + Cardinality(T) - Cardinality(S \cap T)
    BY FS_Union, FS_Intersection
  <1>2. IsFiniteSet(R) /\ Cardinality(R) <= Cardinality(S \cup T)
    BY <1>1, FS_Subset
  <1>3. /\ Cardinality(S) \in Nat /\ Cardinality(T) \in Nat /\ Cardinality(S \cap T) \in Nat
        /\ Cardinality(R) \in Nat /\ Cardinality(S \cup T) \in Nat
    BY <1>1, <1>2, FS_CardinalityType
  <1> QED BY <1>1, <1>2, <1>3

LEMMA Goroutines ==
  /\ Others \in Nat /\ MaxFailures \in Nat \ {0}
  /\ IsFiniteSet(Tried) /\ Cardinality(Tried) \in Nat /\ Cardinality(Tried) <= Others + 1
  <1>1. IsFiniteSet(Workers) /\ Cardinality(Workers) \in Nat /\ Cardinality(Workers) # 0
    BY ConsoleAssumption, FS_CardinalityType, FS_EmptySet
  <1>2. Tried \subseteq Workers
    BY DEF Tried
  <1>3. IsFiniteSet(Tried) /\ Cardinality(Tried) <= Cardinality(Workers) /\ Cardinality(Tried) \in Nat
    BY <1>1, <1>2, FS_Subset, FS_CardinalityType
  <1> QED BY <1>1, <1>3, LimiterAssumption DEF Others

\* Time passes, and what is out of the window is forgotten.
LEMMA LimiterDrifts ==
  ASSUME LimiterInv, tries' = tries, now' \in Nat, now <= now',
         limiter' \in [failures : SUBSET (1 .. Len(tries)), lockedUntil : Nat, lastSeen : Nat],
         limiter'.lockedUntil = limiter.lockedUntil,
         limiter.lastSeen <= limiter'.lastSeen, limiter'.lastSeen <= now',
         limiter'.failures \subseteq limiter.failures,
         \A i \in limiter.failures : tries[i] > now' - Window => i \in limiter'.failures,
         limiter.lockedUntil # 0 => Tried' \subseteq Tried
  PROVE  LimiterInv'
  <1>1. /\ LimiterType /\ now \in Nat /\ tries \in Seq(Nat) /\ Len(tries) \in Nat /\ Window \in Nat
        /\ \A i \in 1 .. Len(tries) : tries[i] \in Nat /\ tries[i] <= now
    BY LimiterAssumption DEF LimiterInv, LimiterType
  <1>2. LimiterType'
    BY <1>1 DEF LimiterType
  <1>3. \A t \in Nat : Windowed(t)' = Windowed(t)
    BY DEF Windowed
  <1>4. ASSUME NEW lo \in 1 .. Len(tries) + 1, NEW hi \in 0 .. Len(tries)
        PROVE  /\ Late(lo, hi)' \subseteq Late(lo, hi)
               /\ Cardinality(Late(lo, hi)') <= Cardinality(Late(lo, hi))
               /\ Cardinality(Late(lo, hi)) \in Nat /\ Cardinality(Late(lo, hi)') \in Nat
    <2>1. Late(lo, hi)' = {i \in lo .. hi : tries[i] > now' - Window}
      BY DEF Late
    <2>2. \A i \in lo .. hi : tries[i] \in Nat
      BY <1>1
    <2>3. \A i \in lo .. hi : tries[i] > now' - Window => tries[i] > now - Window
      <3> SUFFICES ASSUME NEW i \in lo .. hi, tries[i] > now' - Window PROVE tries[i] > now - Window
        OBVIOUS
      <3>1. tries[i] \in Int /\ now \in Int /\ now' \in Int /\ now <= now' /\ Window \in Int
        BY <1>1, <2>2
      <3> QED BY <3>1
    <2>4. Late(lo, hi)' \subseteq Late(lo, hi) /\ Late(lo, hi) \subseteq lo .. hi
      BY <2>1, <2>3, Zenon DEF Late
    <2>5. lo \in Int /\ hi \in Int
      BY <1>1
    <2> QED BY Zenon, <2>4, <2>5, Fewer
  <1>5. PICK k \in 0 .. Len(tries) : IF limiter.lockedUntil = 0 THEN OpenAfter(k) ELSE ShutAt(k)
    BY DEF LimiterInv
  <1>6. CASE limiter.lockedUntil = 0
    <2>1. OpenAfter(k)
      BY <1>5, <1>6
    <2>2. Cardinality(Late(1, k)') <= Others
      <3>1. /\ Cardinality(Late(1, k)') <= Cardinality(Late(1, k))
            /\ Cardinality(Late(1, k)) \in Nat /\ Cardinality(Late(1, k)') \in Nat
        BY <1>1, <1>4
      <3> QED BY <2>1, <3>1, Goroutines DEF OpenAfter
    <2>3. Late(k + 1, Len(tries))' \subseteq limiter'.failures
      <3>1. Late(k + 1, Len(tries))' \subseteq Late(k + 1, Len(tries))
        BY <1>1, <1>4
      <3>2. \A i \in Late(k + 1, Len(tries))' : tries[i] > now' - Window
        BY DEF Late
      <3> QED BY <2>1, <3>1, <3>2 DEF OpenAfter
    <2>4. Cardinality(limiter'.failures) < MaxFailures
      <3>1. limiter.failures \subseteq 1 .. Len(tries) /\ 1 \in Int /\ Len(tries) \in Int
        BY <1>1 DEF LimiterType
      <3>2. /\ Cardinality(limiter'.failures) <= Cardinality(limiter.failures)
            /\ Cardinality(limiter.failures) \in Nat /\ Cardinality(limiter'.failures) \in Nat
        BY Zenon, <3>1, Fewer
      <3> QED BY <2>1, <3>2, LimiterAssumption DEF OpenAfter
    <2>5. \A i \in k + 1 .. Len(tries) : tries[i] <= limiter'.lastSeen
      <3>1. limiter.lastSeen \in Nat /\ limiter'.lastSeen \in Nat
        BY <1>1 DEF LimiterType
      <3> QED BY <1>1, <2>1, <3>1 DEF OpenAfter
    <2>6. OpenAfter(k)'
      BY <2>2, <2>3, <2>4, <2>5 DEF OpenAfter, Others
    <2> QED BY <1>2, <1>3, <1>6, <2>6 DEF LimiterInv, Others
  <1>7. CASE limiter.lockedUntil # 0
    <2>1. ShutAt(k)
      BY <1>5, <1>7
    <2>2. Cardinality(Late(1, k)') <= MaxFailures + Others
      <3>1. /\ Cardinality(Late(1, k)') <= Cardinality(Late(1, k))
            /\ Cardinality(Late(1, k)) \in Nat /\ Cardinality(Late(1, k)') \in Nat
        BY <1>1, <1>4
      <3> QED BY <2>1, <3>1, Goroutines DEF ShutAt
    <2>3. Len(tries) - k + Cardinality(Tried') <= Others
      <3>1. Cardinality(Tried') <= Cardinality(Tried) /\ Cardinality(Tried') \in Nat
        BY <1>7, Goroutines, FS_Subset, FS_CardinalityType
      <3> QED BY <1>1, <2>1, <3>1, Goroutines DEF ShutAt
    <2>4. ShutAt(k)'
      BY <2>1, <2>2, <2>3 DEF ShutAt, Others
    <2> QED BY <1>2, <1>3, <1>7, <2>4 DEF LimiterInv, Others
  <1> QED BY <1>6, <1>7

\* The limiter forgets, and few attempts are in the window.
LEMMA LimiterForgets ==
  ASSUME LimiterInv, tries' = tries, now' = now, limiter' \in [failures : {{}}, lockedUntil : {0}, lastSeen : 0 .. now],
         Cardinality(Late(1, Len(tries))) <= Others
  PROVE  LimiterInv'
  <1>1. LimiterType /\ now \in Nat /\ Len(tries) \in Nat
    BY DEF LimiterInv, LimiterType
  <1>2. limiter'.failures = {} /\ limiter'.lockedUntil = 0 /\ limiter'.lastSeen \in 0 .. now
    OBVIOUS
  <1>3. LimiterType'
    <2>1. limiter' \in [failures : SUBSET (1 .. Len(tries)), lockedUntil : Nat, lastSeen : Nat]
      BY <1>1
    <2> QED BY <1>1, <1>2, <2>1 DEF LimiterType
  <1>4. \A t \in Nat : Windowed(t)' = Windowed(t)
    BY DEF Windowed
  <1>5. Len(tries) + 1 .. Len(tries) = {}
    BY <1>1
  <1>6. OpenAfter(Len(tries))'
    <2>1. Late(1, Len(tries))' = Late(1, Len(tries)) /\ Late(Len(tries) + 1, Len(tries))' = {}
      BY <1>5 DEF Late
    <2>2. Cardinality(limiter'.failures) < MaxFailures
      BY <1>2, LimiterAssumption, FS_EmptySet
    <2> QED BY <1>2, <1>5, <2>1, <2>2 DEF OpenAfter, Others
  <1>7. Len(tries) \in 0 .. Len(tries)'
    BY <1>1
  <1>8. \E k \in 0 .. Len(tries)' : OpenAfter(k)'
    BY <1>6, <1>7
  <1> QED BY <1>2, <1>3, <1>4, <1>8 DEF LimiterInv, Others

\* After a lockout that is over, only attempts of those let in before it are in
\* the window.
LEMMA LockoutIsOver ==
  ASSUME LimiterInv, limiter.lockedUntil # 0, limiter.lockedUntil <= now
  PROVE  Cardinality(Late(1, Len(tries))) <= Others
  <1>1. /\ LimiterType /\ now \in Nat /\ Len(tries) \in Nat /\ Window \in Nat /\ Lockout \in Nat /\ Window <= Lockout
        /\ limiter.lockedUntil \in Nat /\ \A i \in 1 .. Len(tries) : tries[i] \in Nat
    BY LimiterAssumption DEF LimiterInv, LimiterType
  <1>2. PICK k \in 0 .. Len(tries) : ShutAt(k)
    BY DEF LimiterInv
  <1>3. Late(1, Len(tries)) \subseteq k + 1 .. Len(tries)
    <2> SUFFICES ASSUME NEW i \in 1 .. Len(tries), tries[i] > now - Window, i <= k PROVE FALSE
      BY <1>1 DEF Late
    <2>1. tries[i] + Lockout <= limiter.lockedUntil
      BY <1>1, <1>2 DEF ShutAt
    <2> QED BY <1>1, <2>1
  <1>4. Cardinality(Late(1, Len(tries))) \in Nat /\ Cardinality(Late(1, Len(tries))) <= Len(tries) - k
    <2>1. k + 1 \in Int /\ Len(tries) \in Int /\ Len(tries) \in Nat /\ k \in Nat /\ k <= Len(tries)
      BY <1>1
    <2>2. Cardinality(k + 1 .. Len(tries)) = Len(tries) - k
      BY <2>1, Span
    <2> QED BY Zenon, <1>3, <2>1, <2>2, Fewer
  <1> QED BY <1>1, <1>2, <1>4, Goroutines DEF ShutAt

LEMMA EvictStep == ASSUME LimiterInv, evictIdle PROVE LimiterInv'
  <1>1. /\ LimiterType /\ now \in Nat /\ Len(tries) \in Nat /\ Window \in Nat /\ IdleEvict \in Nat /\ Window <= IdleEvict
        /\ limiter.lockedUntil \in Nat /\ limiter.lastSeen \in Nat /\ \A i \in 1 .. Len(tries) : tries[i] \in Nat
    BY LimiterAssumption DEF LimiterInv, LimiterType
  <1>2. /\ limiter' = NoFailures /\ now' = now /\ tries' = tries /\ limiter.lastSeen < now - IdleEvict
        /\ limiter.lockedUntil = 0 \/ limiter.lockedUntil < now - IdleEvict
    BY DEF evictIdle
  <1>3. Cardinality(Late(1, Len(tries))) <= Others
    <2>1. CASE limiter.lockedUntil # 0
      BY <1>1, <1>2, <2>1, LockoutIsOver
    <2>2. CASE limiter.lockedUntil = 0
      <3>1. PICK k \in 0 .. Len(tries) : OpenAfter(k)
        BY <2>2 DEF LimiterInv
      <3>2. Late(1, Len(tries)) \subseteq Late(1, k)
        <4> SUFFICES ASSUME NEW i \in 1 .. Len(tries), tries[i] > now - Window, i > k PROVE FALSE
          BY <1>1 DEF Late
        <4>1. tries[i] <= limiter.lastSeen
          BY <1>1, <3>1 DEF OpenAfter
        <4> QED BY <1>1, <1>2, <4>1
      <3>3. Late(1, k) \subseteq 1 .. k /\ 1 \in Int /\ k \in Int
        BY <1>1 DEF Late
      <3>4. /\ Cardinality(Late(1, Len(tries))) <= Cardinality(Late(1, k))
            /\ Cardinality(Late(1, Len(tries))) \in Nat /\ Cardinality(Late(1, k)) \in Nat
        BY Zenon, <3>2, <3>3, Fewer
      <3> QED BY <3>1, <3>4, Goroutines DEF OpenAfter
    <2> QED BY <2>1, <2>2
  <1>4. limiter' \in [failures : {{}}, lockedUntil : {0}, lastSeen : 0 .. now]
    BY <1>1, <1>2 DEF NoFailures
  <1> QED BY <1>2, <1>3, <1>4, LimiterForgets

\* What touchLocked leaves.
LEMMA Touches ==
  ASSUME LimiterInv
  PROVE  /\ touchLocked \in [failures : SUBSET (1 .. Len(tries)), lockedUntil : Nat, lastSeen : Nat]
         /\ touchLocked.failures = {i \in limiter.failures : tries[i] > now - Window}
         /\ touchLocked.lockedUntil = limiter.lockedUntil /\ touchLocked.lastSeen = now
  <1> DEFINE kept == {i \in limiter.failures : tries[i] > now - Window}
  <1>1. limiter \in [failures : SUBSET (1 .. Len(tries)), lockedUntil : Nat, lastSeen : Nat] /\ now \in Nat
    BY DEF LimiterInv, LimiterType
  <1>2. touchLocked = [failures |-> kept, lockedUntil |-> limiter.lockedUntil, lastSeen |-> now]
    <2> HIDE DEF kept
    <2>1. [[limiter EXCEPT !.failures = kept] EXCEPT !.lastSeen = now]
            = [failures |-> kept, lockedUntil |-> limiter.lockedUntil, lastSeen |-> now]
      <3> DEFINE x == [limiter EXCEPT !.failures = kept]
      <3>1. x = [failures |-> kept, lockedUntil |-> limiter.lockedUntil, lastSeen |-> limiter.lastSeen]
        BY <1>1
      <3> HIDE DEF x
      <3>2. [x EXCEPT !.lastSeen = now] = [failures |-> kept, lockedUntil |-> limiter.lockedUntil, lastSeen |-> now]
        BY <3>1
      <3> QED BY <3>2 DEF x
    <2> QED BY <2>1 DEF touchLocked, kept
  <1> QED BY <1>1, <1>2

\* allow lets a goroutine in, or turns it away.
LEMMA AllowStep ==
  ASSUME LimiterInv, tries' = tries, now' = now, allow \/ (locked /\ limiter' = touchLocked /\ Tried' \subseteq Tried)
  PROVE  LimiterInv'
  <1>1. now \in Nat /\ limiter.lastSeen <= now /\ limiter.lockedUntil \in Nat
    BY DEF LimiterInv, LimiterType
  <1>2. ASSUME limiter' = touchLocked, limiter.lockedUntil # 0 => Tried' \subseteq Tried PROVE LimiterInv'
    <2>1. limiter'.failures \subseteq limiter.failures /\ \A i \in limiter.failures : tries[i] > now' - Window => i \in limiter'.failures
      BY Zenon, <1>2, Touches
    <2>2. limiter.lastSeen <= limiter'.lastSeen /\ limiter'.lastSeen <= now' /\ limiter'.lockedUntil = limiter.lockedUntil
      BY <1>1, <1>2, Touches
    <2> QED BY Zenon, <1>1, <1>2, <2>1, <2>2, Touches, LimiterDrifts
  <1>3. CASE allow /\ limiter.lockedUntil # 0
    <2>1. limiter' = [touchLocked EXCEPT !.failures = {}, !.lockedUntil = 0] /\ limiter.lockedUntil <= now
      BY <1>1, <1>3 DEF allow, locked
    <2>2. limiter' \in [failures : {{}}, lockedUntil : {0}, lastSeen : 0 .. now]
      <3> DEFINE x == [touchLocked EXCEPT !.failures = {}]
      <3>1. x \in [failures : {{}}, lockedUntil : Nat, lastSeen : 0 .. now]
        BY <1>1, Touches
      <3> HIDE DEF x
      <3>2. [x EXCEPT !.lockedUntil = 0] \in [failures : {{}}, lockedUntil : {0}, lastSeen : 0 .. now]
        BY <3>1
      <3> QED BY <2>1, <3>2 DEF x
    <2> QED BY <1>3, <2>1, <2>2, LockoutIsOver, LimiterForgets
  <1>4. CASE allow /\ limiter.lockedUntil = 0
    BY <1>2, <1>4 DEF allow
  <1>5. CASE locked /\ limiter' = touchLocked /\ Tried' \subseteq Tried
    BY <1>2, <1>5
  <1> QED BY <1>3, <1>4, <1>5

\* A wrong password is compared and recorded.
LEMMA FailStep ==
  ASSUME LimiterInv, NEW w \in Tried, Tried' = Tried \ {w}, recordFailure, tries' = Append(tries, now), now' = now
  PROVE  LimiterInv'
  <1>0. PICK L \in Nat : L = Len(tries)
    BY DEF LimiterInv, LimiterType
  <1> DEFINE kept == {i \in limiter.failures : tries[i] > now - Window}
             F == kept \cup {L + 1}
  <1>1. /\ now \in Nat \ {0} /\ tries \in Seq(Nat) /\ L \in Nat /\ Window \in Nat /\ Lockout \in Nat
        /\ limiter.failures \in SUBSET (1 .. L) /\ limiter.lockedUntil \in Nat
        /\ \A i \in 1 .. L : tries[i] \in Nat /\ tries[i] <= now
    BY <1>0, LimiterAssumption DEF LimiterInv, LimiterType
  <1>2. /\ tries' \in Seq(Nat) /\ Len(tries') = L + 1 /\ tries'[L + 1] = now
        /\ \A i \in 1 .. L : tries'[i] = tries[i]
    BY <1>0, <1>1
  <1>3. /\ limiter' \in [failures : SUBSET (1 .. L + 1), lockedUntil : Nat, lastSeen : Nat] /\ limiter'.lastSeen = now
        /\ locked => limiter'.lockedUntil = limiter.lockedUntil
        /\ ~locked => /\ limiter'.failures = F
                      /\ limiter'.lockedUntil = IF Cardinality(F) >= MaxFailures THEN now + Lockout ELSE limiter.lockedUntil
    <2>1. /\ touchLocked \in [failures : SUBSET (1 .. L), lockedUntil : Nat, lastSeen : Nat]
          /\ touchLocked.failures = kept /\ touchLocked.lockedUntil = limiter.lockedUntil /\ touchLocked.lastSeen = now
      BY Zenon, <1>0, Touches
    <2>2. F \in SUBSET (1 .. L + 1) /\ now + Lockout \in Nat
      BY <1>1
    <2>3. limiter' = IF locked THEN touchLocked
                     ELSE [failures |-> F, lastSeen |-> now,
                           lockedUntil |-> IF Cardinality(F) >= MaxFailures THEN now + Lockout ELSE limiter.lockedUntil]
      BY Zenon, <1>0, <2>1 DEF recordFailure
    <2> HIDE DEF F, kept
    <2>4. CASE locked
      BY <1>1, <2>1, <2>3, <2>4
    <2>5. CASE ~locked
      BY Zenon, <1>1, <2>2, <2>3, <2>5
    <2> QED BY Zenon, <2>4, <2>5
  <1>4. LimiterType'
    <2>1. \A i \in 1 .. L + 1 : tries'[i] <= now
      BY <1>1, <1>2
    <2> QED BY <1>1, <1>2, <1>3, <2>1 DEF LimiterType
  <1>5. Cardinality(Tried') = Cardinality(Tried) - 1 /\ Cardinality(Tried) \in Nat \ {0} /\ Cardinality(Tried) <= Others + 1
    BY Zenon, Goroutines, FS_RemoveElement, FS_EmptySet, FS_CardinalityType
  <1>6. /\ \A k \in 0 .. L : Late(1, k)' = Late(1, k) /\ Late(1, k) \subseteq 1 .. k
        /\ \A k \in 0 .. L : Late(1, L + 1)' \subseteq Late(1, k) \cup (k + 1 .. L + 1)
        /\ \A k \in 0 .. L : Late(k + 1, L + 1)' = Late(k + 1, L) \cup {i \in {L + 1} : now > now - Window}
        /\ Late(1, L + 1)' \subseteq 1 .. L + 1
    <2>1. \A lo, hi : Late(lo, hi)' = {i \in lo .. hi : tries'[i] > now - Window}
      BY DEF Late
    <2>2. \A k \in 0 .. L : Late(1, k)' = Late(1, k) /\ Late(1, k) \subseteq 1 .. k
      BY <1>1, <1>2, <2>1 DEF Late
    <2>3. Late(1, L + 1)' \subseteq 1 .. L + 1
      BY <2>1, Zenon
    <2>4. ASSUME NEW k \in 0 .. L PROVE Late(1, L + 1)' \subseteq Late(1, k) \cup (k + 1 .. L + 1)
      <3> SUFFICES ASSUME NEW i \in 1 .. L + 1, tries'[i] > now - Window, i \notin k + 1 .. L + 1
                   PROVE  i \in 1 .. k /\ tries[i] > now - Window
        BY <2>1, Zenon DEF Late
      <3>1. i \in 1 .. k /\ i \in 1 .. L
        BY <1>1
      <3> QED BY <1>2, <3>1
    <2>5. ASSUME NEW k \in 0 .. L PROVE Late(k + 1, L + 1)' = Late(k + 1, L) \cup {i \in {L + 1} : now > now - Window}
      <3>1. Late(k + 1, L + 1)' = {i \in k + 1 .. L + 1 : tries'[i] > now - Window}
        BY <2>1, Zenon
      <3>2. k + 1 .. L + 1 = (k + 1 .. L) \cup {L + 1} /\ k + 1 .. L \subseteq 1 .. L
        BY <1>1
      <3> QED BY <1>2, <3>1, <3>2, Zenon DEF Late
    <2> QED BY Zenon, <2>2, <2>3, <2>4, <2>5
  <1>7. ASSUME Cardinality(Late(1, L + 1)') <= MaxFailures + 2 * Others, NEW t \in Nat
        PROVE  Cardinality(Windowed(t)') <= MaxFailures + 2 * Others
    <2>1. Windowed(t)' = {i \in 1 .. L + 1 : t - Window < tries'[i] /\ tries'[i] <= t}
      BY <1>2 DEF Windowed
    <2>2. CASE t < now
      <3>1. Windowed(t)' = Windowed(t)
        BY <1>1, <1>2, <2>1, <2>2, <1>0 DEF Windowed
      <3> QED BY <3>1 DEF LimiterInv
    <2>3. CASE t >= now
      <3>1. Windowed(t)' \subseteq Late(1, L + 1)'
        BY <1>1, <1>2, <2>1, <2>3 DEF Late
      <3>2. /\ Cardinality(Windowed(t)') <= Cardinality(Late(1, L + 1)')
            /\ Cardinality(Windowed(t)') \in Nat /\ Cardinality(Late(1, L + 1)') \in Nat
        <4>1. 1 \in Int /\ L + 1 \in Int
          BY <1>1
        <4> QED BY Zenon, <1>6, <3>1, <4>1, Fewer
      <3> QED BY <1>7, <3>2, Goroutines
    <2> QED BY <1>1, <2>2, <2>3
  <1>8. PICK k \in 0 .. L : IF limiter.lockedUntil = 0 THEN OpenAfter(k) ELSE ShutAt(k)
    BY <1>0 DEF LimiterInv
  <1>9. /\ IsFiniteSet(Late(1, k)) /\ Cardinality(Late(1, k)) \in Nat /\ Cardinality(Late(1, L + 1)') \in Nat
        /\ IsFiniteSet(k + 1 .. L + 1) /\ Cardinality(k + 1 .. L + 1) = L + 1 - k
    <2>1. k \in Int /\ k \in Nat /\ L + 1 \in Int /\ L + 1 \in Nat /\ k <= L + 1 /\ 1 \in Int
      BY <1>1
    <2>2. Late(1, k) \subseteq 1 .. k /\ Late(1, L + 1)' \subseteq 1 .. L + 1
      BY <1>6
    <2>3. /\ IsFiniteSet(Late(1, k)) /\ Cardinality(Late(1, k)) \in Nat
          /\ Cardinality(Late(1, L + 1)') \in Nat
      BY Zenon, <2>1, <2>2, Fewer
    <2> QED BY <2>1, <2>3, Span
  <1>10. CASE limiter.lockedUntil # 0
    <2>1. ShutAt(k) /\ L - k + Cardinality(Tried) <= Others /\ Cardinality(Late(1, k)) <= MaxFailures + Others
      BY <1>0, <1>8, <1>10 DEF ShutAt
    <2>2. limiter'.lockedUntil # 0 /\ limiter'.lockedUntil \in Nat /\ limiter.lockedUntil <= limiter'.lockedUntil
      BY <1>1, <1>3, <1>10 DEF locked
    <2>3. ShutAt(k)'
      <3>1. L + 1 - k + Cardinality(Tried') <= Others
        BY <1>1, <1>5, <2>1, Goroutines
      <3>2. \A i \in 1 .. k : tries'[i] + Lockout <= limiter'.lockedUntil
        <4> SUFFICES ASSUME NEW i \in 1 .. k PROVE tries'[i] + Lockout <= limiter'.lockedUntil
          BY Zenon
        <4>1. i \in 1 .. L
          BY <1>1
        <4>2. tries'[i] = tries[i] /\ tries[i] \in Nat /\ tries[i] + Lockout <= limiter.lockedUntil
          BY Zenon, <1>1, <1>2, <2>1, <4>1 DEF ShutAt
        <4> QED BY <1>1, <2>2, <4>2
      <3> QED BY <1>2, <1>6, <2>1, <3>1, <3>2 DEF ShutAt, Others
    <2>4. Cardinality(Late(1, L + 1)') <= MaxFailures + 2 * Others
      <3>1. Cardinality(Late(1, L + 1)') <= Cardinality(Late(1, k)) + (L + 1 - k)
        BY Zenon, <1>6, <1>9, Together
      <3>2. L + 1 - k <= Others /\ L + 1 - k \in Int
        <4>1. L \in Int /\ k \in Int
          BY <1>1
        <4>2. Others \in Nat /\ Cardinality(Tried) \in Nat \ {0}
          BY Zenon, <1>5, Goroutines
        <4> QED BY <2>1, <4>1, <4>2
      <3>3. Others \in Nat /\ MaxFailures \in Nat
        BY Goroutines
      <3> QED BY <1>9, <2>1, <3>1, <3>2, <3>3
    <2>5. \A t \in Nat : Cardinality(Windowed(t)') <= MaxFailures + 2 * Others
      BY <1>7, <2>4
    <2>6. k \in 0 .. Len(tries')
      BY <1>1, <1>2
    <2> QED BY <1>4, <2>2, <2>3, <2>5, <2>6 DEF LimiterInv, Others
  <1>11. CASE limiter.lockedUntil = 0
    <2>1. /\ Cardinality(Late(1, k)) <= Others /\ Late(k + 1, L) \subseteq limiter.failures
          /\ Cardinality(limiter.failures) < MaxFailures /\ \A i \in k + 1 .. L : tries[i] <= limiter.lastSeen
      BY Zenon, <1>0, <1>8, <1>11 DEF OpenAfter
    <2>2. limiter'.failures = F /\ limiter'.lockedUntil = IF Cardinality(F) >= MaxFailures THEN now + Lockout ELSE 0
      BY Zenon, <1>3, <1>11 DEF locked
    <2>3. IsFiniteSet(F) /\ Cardinality(F) \in Nat /\ Cardinality(F) <= MaxFailures
      <3>1. /\ IsFiniteSet(kept) /\ Cardinality(kept) \in Nat /\ Cardinality(limiter.failures) \in Nat
            /\ Cardinality(kept) <= Cardinality(limiter.failures)
        <4>1. limiter.failures \subseteq 1 .. L /\ kept \subseteq limiter.failures /\ 1 \in Int /\ L \in Int
          BY <1>1
        <4> HIDE DEF kept
        <4> QED BY Zenon, <4>1, Fewer
      <3>2. IsFiniteSet({L + 1}) /\ Cardinality({L + 1}) = 1
        BY Zenon, FS_Singleton
      <3>3. Cardinality(F) <= Cardinality(kept) + 1 /\ IsFiniteSet(F)
        BY Zenon, <3>1, <3>2, Together, FS_Union
      <3> QED BY <2>1, <3>1, <3>3, FS_CardinalityType, LimiterAssumption
    <2>4. Late(k + 1, L + 1)' \subseteq F
      BY Zenon, <1>6, <2>1 DEF Late
    <2>5. Cardinality(Late(1, L + 1)') <= MaxFailures + Others
      <3>1. Late(1, L + 1)' \subseteq Late(1, k)' \cup Late(k + 1, L + 1)'
        <4>1. 1 .. L + 1 = (1 .. k) \cup (k + 1 .. L + 1)
          BY <1>1
        <4> QED BY <4>1, Zenon DEF Late
      <3>2. Late(1, L + 1)' \subseteq Late(1, k) \cup F
        BY Zenon, <1>6, <2>4, <3>1
      <3> HIDE DEF F
      <3>3. Cardinality(Late(1, L + 1)') <= Cardinality(Late(1, k)) + Cardinality(F)
        BY ZenonT(40), <1>9, <2>3, <3>2, Together
      <3> QED BY <1>9, <2>1, <2>3, <3>3, Goroutines
    <2>6. \A t \in Nat : Cardinality(Windowed(t)') <= MaxFailures + 2 * Others
      <3>1. Cardinality(Late(1, L + 1)') <= MaxFailures + 2 * Others
        BY <1>9, <2>5, Goroutines
      <3> QED BY <1>7, <3>1
    <2>7. CASE Cardinality(F) < MaxFailures
      <3>1. limiter'.lockedUntil = 0
        BY <2>2, <2>3, <2>7, LimiterAssumption
      <3>2. OpenAfter(k)'
        <4>1. \A i \in k + 1 .. L + 1 : tries'[i] <= limiter'.lastSeen
          BY <1>1, <1>2, <1>3
        <4> QED BY Zenon, <1>2, <1>6, <2>1, <2>2, <2>4, <2>7, <4>1 DEF OpenAfter, Others
      <3>3. k \in 0 .. Len(tries')
        BY <1>1, <1>2
      <3> QED BY <1>4, <2>6, <3>1, <3>2, <3>3 DEF LimiterInv, Others
    <2>8. CASE Cardinality(F) >= MaxFailures
      <3>1. limiter'.lockedUntil = now + Lockout /\ now + Lockout # 0
        BY <1>1, <2>2, <2>8
      <3>2. ShutAt(L + 1)'
        <4>1. L + 1 - (L + 1) + Cardinality(Tried') <= Others
          BY <1>1, <1>5, Goroutines
        <4>2. \A i \in 1 .. L + 1 : tries'[i] + Lockout <= limiter'.lockedUntil
          BY <1>1, <1>2, <3>1
        <4> QED BY <1>2, <2>5, <4>1, <4>2 DEF ShutAt, Others
      <3>3. L + 1 \in 0 .. Len(tries')
        BY <1>1, <1>2
      <3> QED BY <1>4, <2>6, <3>1, <3>2, <3>3 DEF LimiterInv, Others
    <2> QED BY <2>3, <2>7, <2>8, LimiterAssumption
  <1> QED BY <1>10, <1>11

\* The limiter knows nothing, and there is nothing to know.
FreshLimiter == limiter = NoFailures /\ tries = << >> /\ now \in Nat \ {0}

LEMMA Afresh == FreshLimiter => LimiterInv
  <1> SUFFICES ASSUME FreshLimiter PROVE LimiterInv
    OBVIOUS
  <1>1. Len(tries) = 0 /\ tries \in Seq(Nat) /\ 1 .. 0 = {} /\ 0 + 1 .. 0 = {} /\ now \in Nat \ {0} /\ 0 <= now
    BY DEF FreshLimiter
  <1>2. /\ limiter.failures = {} /\ limiter.lockedUntil = 0 /\ limiter.lastSeen = 0
        /\ limiter \in [failures : SUBSET {}, lockedUntil : Nat, lastSeen : Nat]
    BY Zenon DEF FreshLimiter, NoFailures
  <1>3. LimiterType
    BY Zenon, <1>1, <1>2 DEF LimiterType
  <1>4. Cardinality({}) = 0
    BY FS_EmptySet
  <1>5. \A t \in Nat : Windowed(t) = {}
    BY <1>1 DEF Windowed
  <1>6. OpenAfter(0)
    <2>1. Late(1, 0) = {} /\ Late(0 + 1, 0) = {}
      BY <1>1 DEF Late
    <2>2. 0 <= Others /\ 0 < MaxFailures
      BY Goroutines
    <2> QED BY Zenon, <1>1, <1>2, <1>4, <2>1, <2>2 DEF OpenAfter
  <1>7. 0 <= MaxFailures + 2 * Others /\ 0 \in 0 .. Len(tries)
    BY <1>1, Goroutines
  <1> QED BY Zenon, <1>2, <1>3, <1>4, <1>5, <1>6, <1>7 DEF LimiterInv

LEMMA AfreshAfter == FreshLimiter' => LimiterInv'
  BY Afresh, PTL

LEMMA LimiterAfresh == ASSUME LimiterInv, limiter' = NoFailures, tries' = << >>, now' = now PROVE LimiterInv'
  <1>1. FreshLimiter'
    BY Zenon DEF FreshLimiter, LimiterInv, LimiterType, NoFailures
  <1> QED BY <1>1, AfreshAfter

\* Nothing happens to the limiter but the passing of time.
LEMMA LimiterSame ==
  ASSUME LimiterInv, UNCHANGED <<limiter, tries>>, now' \in Nat, now <= now', Tried' \subseteq Tried PROVE LimiterInv'
  <1>1. /\ limiter \in [failures : SUBSET (1 .. Len(tries)), lockedUntil : Nat, lastSeen : Nat]
        /\ limiter.lastSeen \in Nat /\ limiter.lastSeen <= now /\ now \in Nat
    BY DEF LimiterInv, LimiterType
  <1>2. limiter.lastSeen <= limiter'.lastSeen /\ limiter'.lastSeen <= now'
    BY <1>1
  <1> QED BY <1>1, <1>2, LimiterDrifts

-----------------------------------------------------------------------------
(* The requests: who is being let in.                                         *)

\* A request is a record, and every goroutine has one.
Shaped(r) == r = [pc |-> r.pc, kind |-> r.kind, arg |-> r.arg, data |-> r.data, had |-> r.had]
Requests == h = [w \in Workers |-> h[w]] /\ \A w \in Workers : Shaped(h[w])

\* The request of w goes on to pc.
GoesTo(w, pc) == Requests' /\ h'[w].pc = pc /\ \A u \in Workers \ {w} : h'[u] = h[u]

LEMMA Going == ASSUME Requests, NEW w \in Workers, NEW r, Shaped(r), h' = [h EXCEPT ![w] = r] PROVE GoesTo(w, r.pc)
  <1>1. \A u \in Workers : h'[u] = IF u = w THEN r ELSE h[u]
    BY Zenon DEF Requests
  <1>2. h' = [u \in Workers |-> h'[u]]
    BY DEF Requests
  <1> QED BY Zenon, <1>1, <1>2 DEF Requests, Shaped, GoesTo

LEMMA IdleGoes == Shaped(Idle) /\ Idle.pc = "idle"
  BY DEF Shaped, Idle

LEMMA DoneGoes == ASSUME Requests, NEW w \in Workers, Done(w) PROVE GoesTo(w, "idle")
  BY Zenon, Going, IdleGoes DEF Done

LEMMA ToGoes == ASSUME Requests, NEW w \in Workers, NEW pc, To(w, pc) PROVE GoesTo(w, pc)
  <1> DEFINE r == h[w]
             s == [r EXCEPT !.pc = pc]
  <1>1. Shaped(r)
    BY Zenon DEF Requests
  <1>2. h' = [h EXCEPT ![w] = s]
    BY DEF To, Requests
  <1> HIDE DEF r
  <1>3. Shaped(s) /\ s.pc = pc
    BY <1>1 DEF Shaped
  <1> HIDE DEF s
  <1> QED BY Zenon, <1>2, <1>3, Going

LEMMA DataGoes ==
  ASSUME Requests, NEW w \in Workers, NEW pc, NEW data, h' = [h EXCEPT ![w].pc = pc, ![w].data = data] PROVE GoesTo(w, pc)
  <1> DEFINE r == h[w]
             s == [r EXCEPT !.pc = pc]
             t == [s EXCEPT !.data = data]
  <1>1. Shaped(r)
    BY Zenon DEF Requests
  <1>2. h' = [h EXCEPT ![w] = t]
    BY Zenon DEF Requests
  <1> HIDE DEF r
  <1>3. Shaped(s) /\ s.pc = pc
    BY <1>1 DEF Shaped
  <1> HIDE DEF s
  <1>4. Shaped(t) /\ t.pc = pc
    BY <1>3 DEF Shaped
  <1> HIDE DEF t
  <1> QED BY Zenon, <1>2, <1>4, Going

LEMMA HadGoes ==
  ASSUME Requests, NEW w \in Workers, NEW pc, NEW had, h' = [h EXCEPT ![w].had = had, ![w].pc = pc] PROVE GoesTo(w, pc)
  <1> DEFINE r == h[w]
             s == [r EXCEPT !.had = had]
             t == [s EXCEPT !.pc = pc]
  <1>1. Shaped(r)
    BY Zenon DEF Requests
  <1>2. h' = [h EXCEPT ![w] = t]
    BY Zenon DEF Requests
  <1> HIDE DEF r
  <1>3. Shaped(s)
    BY <1>1 DEF Shaped
  <1> HIDE DEF s
  <1>4. Shaped(t) /\ t.pc = pc
    BY <1>3 DEF Shaped
  <1> HIDE DEF t
  <1> QED BY Zenon, <1>2, <1>4, Going

\* The request of w goes on, and not to where a password is compared.
Aside(w) == Requests' /\ Tried' \subseteq Tried /\ UNCHANGED login

LEMMA AsideIs == ASSUME NEW w \in Workers, NEW pc, GoesTo(w, pc), pc \notin Trying, UNCHANGED login PROVE Aside(w)
  BY Zenon DEF GoesTo, Aside, Tried

\* The handlers but the login leave the limiter and the logins alone.
LEMMA OthersGo == ASSUME Requests, NEW w \in Workers, Handle(w), ~Login(w) PROVE Aside(w)
  <1>1. Done(w) /\ UNCHANGED login => Aside(w)
    BY Zenon, DoneGoes, AsideIs DEF Trying
  <1>2. ASSUME NEW pc, pc \notin Trying, To(w, pc), UNCHANGED login PROVE Aside(w)
    BY Zenon, <1>2, ToGoes, AsideIs
  <1>3. ASSUME NEW data, Write(w, data), UNCHANGED login PROVE Aside(w)
    <2>1. GoesTo(w, "stat")
      BY Zenon, <1>3, DataGoes DEF Write
    <2> QED BY Zenon, <1>3, <2>1, AsideIs DEF Trying
  <1>4. ASSUME NEW next, next = "check", requireAuth(w, next) PROVE Aside(w)
    BY Zenon, <1>1, <1>2, <1>4 DEF requireAuth, Trying
  <1>5. CASE writeFileAtomically(w)
    <2>1. UNCHANGED login
      BY Zenon, <1>5 DEF writeFileAtomically, Stat, Unlink, Backup, Replace, Publish
    <2>2. CASE h' = [h EXCEPT ![w].had = file # None, ![w].pc = IF file # None THEN "unlink" ELSE "replace"]
      <3> DEFINE had == file # None
                 pc == IF file # None THEN "unlink" ELSE "replace"
      <3>1. h' = [h EXCEPT ![w].had = had, ![w].pc = pc] /\ pc \notin Trying
        BY <2>2 DEF Trying
      <3> HIDE DEF had, pc
      <3> QED BY Zenon, <2>1, <3>1, HadGoes, AsideIs
    <2>3. Stat(w) => Aside(w)
      BY Zenon, <1>1, <2>1, <2>2 DEF Stat, WriteFails
    <2>4. Unlink(w) \/ Backup(w) \/ Replace(w) \/ Publish(w) => Aside(w)
      BY Zenon, <1>1, <1>2, <2>1 DEF Unlink, Backup, Replace, Publish, WriteFails, Trying
    <2> QED BY Zenon, <1>5, <2>3, <2>4 DEF writeFileAtomically
  <1>6. CASE handleChangePassword(w)
    BY Zenon, <1>1, <1>2, <1>3, <1>6
       DEF handleChangePassword, ChangeCheck, ChangeRotate, ChangeSet, ChangeLoad, WriteFails, Trying
  <1>7. CASE SaveCheck(w) \/ LayoutLoad(w)
    BY Zenon, <1>1, <1>3, <1>7 DEF SaveCheck, LayoutLoad
  <1>8. CASE handleSetupComplete(w)
    BY Zenon, <1>1, <1>2, <1>8
       DEF handleSetupComplete, SetupStart, SetupExists, SetupCreate, SetupSections, SetupAuth, SetupFinish, Trying
  <1>9. CASE handleApplyUpdate(w)
    <2>1. UNCHANGED login
      BY Zenon, <1>9 DEF handleApplyUpdate, UpdateCheck, UpdateAssets, UpdateDownload
    <2>2. CASE h' = [h EXCEPT ![w].pc = "download", ![w].data = findAssetURLWithChecksums]
      <3>1. GoesTo(w, "download")
        BY Zenon, <2>2, DataGoes
      <3> QED BY Zenon, <2>1, <3>1, AsideIs DEF Trying
    <2> QED BY Zenon, <1>1, <1>2, <1>9, <2>1, <2>2 DEF handleApplyUpdate, UpdateCheck, UpdateAssets, UpdateDownload, Trying
  <1> QED BY Zenon, <1>4, <1>5, <1>6, <1>7, <1>8, <1>9 DEF Handle

\* A login is let in or not, and its password is right or wrong.
LEMMA LoginStep == ASSUME Requests, LimiterInv, NEW w \in Workers, Login(w) PROVE LimiterInv' /\ Requests'
  <1>1. now \in Nat /\ now <= now
    BY DEF LimiterInv, LimiterType
  <1>2. Done(w) => Requests' /\ Tried' = Tried \ {w}
    BY Zenon, DoneGoes DEF GoesTo, Tried, Trying
  <1>4. CASE LoginAllow(w)
    <2>1. /\ IF locked THEN Done(w) /\ limiter' = touchLocked ELSE allow
          /\ tries' = tries /\ now' = now /\ (Done(w) \/ To(w, "read"))
      BY Zenon, <1>4 DEF LoginAllow
    <2>2. Requests'
      BY Zenon, <1>2, <2>1, ToGoes DEF GoesTo
    <2> QED BY Zenon, <1>2, <2>1, <2>2, AllowStep
  <1>5. CASE LoginRead(w)
    <2>1. UNCHANGED <<limiter, tries, now>> /\ w \in Tried
      BY <1>5 DEF LoginRead, login, At, Tried, Trying
    <2>2. CASE Done(w)
      BY Zenon, <1>1, <1>2, <2>1, <2>2, LimiterSame
    <2>3. CASE h' = [h EXCEPT ![w].pc = "verify", ![w].data = config.hash]
      <3>1. GoesTo(w, "verify")
        BY Zenon, <2>3, DataGoes
      <3>2. Tried' \subseteq Tried
        BY Zenon, <2>1, <3>1 DEF Tried, GoesTo
      <3> QED BY Zenon, <1>1, <2>1, <3>1, <3>2, LimiterSame DEF GoesTo
    <2> QED BY Zenon, <1>5, <2>2, <2>3 DEF LoginRead
  <1>6. CASE LoginVerify(w)
    <2>1. w \in Tried /\ Tried' = Tried \ {w} /\ now' = now /\ Requests'
      BY Zenon, <1>2, <1>6 DEF LoginVerify, At, Tried, Trying
    <2>2. CASE recordSuccess /\ tries' = << >>
      BY Zenon, <2>1, <2>2, LimiterAfresh DEF recordSuccess
    <2>3. CASE recordFailure /\ tries' = Append(tries, now)
      BY Zenon, <2>1, <2>3, FailStep
    <2> QED BY Zenon, <1>6, <2>2, <2>3 DEF LoginVerify
  <1> QED BY Zenon, <1>4, <1>5, <1>6 DEF Login

LEMMA LimiterStep == ASSUME Requests, LimiterInv, [Next]_vars PROVE Requests' /\ LimiterInv'
  <1>1. now \in Nat /\ now <= now
    BY DEF LimiterInv, LimiterType
  <1>2. ASSUME NEW w \in Workers, Handle(w) PROVE Requests' /\ LimiterInv'
    <2>1. CASE Login(w)
      BY Zenon, <2>1, LoginStep
    <2>2. CASE ~Login(w)
      <3>1. Aside(w)
        BY Zenon, <1>2, <2>2, OthersGo
      <3>2. UNCHANGED <<limiter, tries>> /\ now' \in Nat /\ now <= now'
        BY <1>1, <3>1 DEF Aside, login
      <3> QED BY Zenon, <3>1, <3>2, LimiterSame DEF Aside
    <2> QED BY Zenon, <2>1, <2>2
  <1>3. ASSUME NEW w \in Workers, NEW kind \in Kinds, Request(w, kind) PROVE Requests' /\ LimiterInv'
    <2>1. PICK arg : h' = [h EXCEPT ![w] = [Idle EXCEPT !.pc = "start", !.kind = kind, !.arg = arg]]
      BY Zenon, <1>3 DEF Request
    <2> DEFINE r == [Idle EXCEPT !.pc = "start", !.kind = kind, !.arg = arg]
    <2>2. Shaped(r) /\ r.pc = "start"
      <3> DEFINE s == [Idle EXCEPT !.pc = "start"]
                 t == [s EXCEPT !.kind = kind]
      <3>1. Shaped(s) /\ s.pc = "start"
        BY IdleGoes DEF Shaped
      <3> HIDE DEF s
      <3>2. Shaped(t) /\ t.pc = "start"
        BY <3>1 DEF Shaped
      <3> HIDE DEF t
      <3>3. Shaped([t EXCEPT !.arg = arg]) /\ [t EXCEPT !.arg = arg].pc = "start"
        BY <3>2 DEF Shaped
      <3> QED BY Zenon, <3>3 DEF s, t
    <2>3. h' = [h EXCEPT ![w] = r]
      BY Zenon, <2>1
    <2> HIDE DEF r
    <2>4. GoesTo(w, "start")
      BY Zenon, <2>2, <2>3, Going
    <2>5. Tried' \subseteq Tried
      BY Zenon, <2>4 DEF Tried, Trying, GoesTo
    <2>6. UNCHANGED <<limiter, tries>> /\ now' \in Nat /\ now <= now'
      BY <1>1, <1>3 DEF Request, login
    <2> QED BY Zenon, <2>4, <2>5, <2>6, LimiterSame DEF GoesTo
  <1>4. CASE Tick
    <2>1. UNCHANGED <<limiter, tries, h>> /\ now' \in Nat /\ now <= now'
      BY <1>1, <1>4 DEF Tick
    <2> QED BY Zenon, <2>1, LimiterSame DEF Tried, Requests
  <1>5. CASE evictIdle
    BY Zenon, <1>5, EvictStep DEF evictIdle, Requests
  <1>6. CASE Crash \/ RestartSelf
    <2>1. h' = [w \in Workers |-> Idle] /\ limiter' = NoFailures /\ tries' = << >> /\ now' = now
      BY Zenon, <1>6 DEF Crash, RestartSelf, Start
    <2> QED BY Zenon, <2>1, IdleGoes, LimiterAfresh DEF Requests
  <1>7. CASE UNCHANGED <<h, login>>
    <2>1. UNCHANGED <<limiter, tries, h>> /\ now' \in Nat /\ now <= now'
      BY <1>1, <1>7 DEF login
    <2> QED BY Zenon, <2>1, LimiterSame DEF Tried, Requests
  <1> QED BY Zenon, <1>2, <1>3, <1>4, <1>5, <1>6, <1>7 DEF Next, Publication, vars, console

\* However many goroutines compare passwords at once and however the logins fall
\* between lockouts: in no window are more than MaxFailures wrong passwords
\* compared, plus two for each other goroutine (allow, recordFailure, evictIdle).
THEOREM LoginsAreBounded == Spec => []AttemptsBounded
  <1>1. ASSUME Init PROVE Requests /\ LimiterInv
    <2>1. FreshLimiter /\ h = [w \in Workers |-> Idle]
      BY <1>1 DEF Init, FreshLimiter
    <2> QED BY Zenon, <2>1, Afresh, IdleGoes DEF Requests
  <1>2. Requests /\ LimiterInv /\ [Next]_vars => Requests' /\ LimiterInv'
    BY Zenon, LimiterStep
  <1>3. LimiterInv => AttemptsBounded
    <2> SUFFICES ASSUME LimiterInv PROVE AttemptsBounded
      OBVIOUS
    <2>1. DOMAIN tries = 1 .. Len(tries) /\ \A i \in 1 .. Len(tries) : tries[i] \in Nat
      BY DEF LimiterInv, LimiterType
    <2>2. \A i \in 1 .. Len(tries) : Cardinality(Windowed(tries[i])) <= MaxFailures + 2 * Others
      BY <2>1 DEF LimiterInv
    <2> QED BY <2>1, <2>2, Zenon DEF AttemptsBounded, Windowed, Others
  <1> QED BY <1>1, <1>2, <1>3, PTL DEF Spec
=============================================================================
