------------------------- MODULE SnesSpcIoProofs -------------------------
(***************************************************************************)
(* Proofs about SnesSpcIo: its timers, brought up to date only when        *)
(* somebody asks, implement the timers of SpcTimer, which look at the      *)
(* clock in every cycle.  The RAM under the boot ROM is kept, save states  *)
(* bring back what was saved, and the DSP's writes are mixed on time.      *)
(***************************************************************************)
EXTENDS SnesSpcIo, Arithmetic

(* The values a timer can have.                                            *)
TimerType == [bEnabled : BOOLEAN, uUpCounter : 0..(Byte - 1), iDivisor : Nat \ {0},
              iCycleSync : Int, nElapsedCycles : Nat]

-----------------------------------------------------------------------------
(* Clocks.                                                                 *)

(* The clock has values.                                                   *)
LEMMA HalfPositive == Half \in Nat \ {0} /\ 2 * Half \in Nat \ {0}
<1>1. PICK c \in Costs : c \in Nat \ {0}
  BY ClockAssumption
<1>2. 0 + c + BranchExtra < Half
  BY <1>1, ClockAssumption
<1>3. QED
  BY <1>1, <1>2, ClockAssumption

(* A signed word is the number, up to turns of the clock.                  *)
LEMMA SignedTurns ==
  ASSUME NEW x \in Int
  PROVE  /\ Signed(x) \in Int /\ -Half <= Signed(x) /\ Signed(x) < Half
         /\ \E q \in Int : x = (2 * Half) * q + Signed(x)
<1> DEFINE w == 2 * Half
           y == x + Half
           q == y \div w
           r == y % w
<1>1. w \in Nat \ {0} /\ y \in Int /\ Half \in Nat \ {0}
  BY HalfPositive
<1>2. q \in Int /\ r \in 0..(w - 1) /\ y = w * q + r
  BY <1>1, DivMod
<1>3. Signed(x) = r - Half
  BY DEF Signed
<1>4. w = 2 * Half /\ y = x + Half
  OBVIOUS
<1> HIDE DEF w, y, q, r
<1>5. w * q \in Int
  BY <1>1, <1>2
<1>6. x = w * q + Signed(x)
  BY <1>1, <1>2, <1>3, <1>4, <1>5
<1>7. Signed(x) \in Int /\ -Half <= Signed(x) /\ Signed(x) < Half
  BY <1>1, <1>2, <1>3, <1>4
<1>8. \E k \in Int : x = w * k + Signed(x)
  BY <1>2, <1>6
<1>9. QED
  BY <1>4, <1>7, <1>8

(* There is only one such word.                                            *)
LEMMA SignedUnique ==
  ASSUME NEW x \in Int, NEW q \in Int, NEW s \in Int, -Half <= s, s < Half,
         x = (2 * Half) * q + s
  PROVE  Signed(x) = s
<1> DEFINE w == 2 * Half
           y == x + Half
           r == s + Half
<1>1. w \in Nat \ {0} /\ y \in Int /\ r \in 0..(w - 1) /\ y = w * q + r
  BY HalfPositive
<1> HIDE DEF w, y, r
<1>2. y % w = r
  BY <1>1, ModUnique
<1>3. QED
  BY <1>2, HalfPositive DEF w, y, r, Signed

(* Inside the range a number is its own word.                              *)
LEMMA SignedSmall ==
  ASSUME NEW s \in Int, -Half <= s, s < Half
  PROVE  Signed(s) = s
<1>1. s = (2 * Half) * 0 + s
  BY HalfPositive
<1>2. QED
  BY <1>1, SignedUnique

(* Words may be reduced at any point of a sum or a difference.             *)
LEMMA SignedSum ==
  ASSUME NEW x \in Int, NEW y \in Int
  PROVE  /\ Signed(Signed(x) + y) = Signed(x + y)
         /\ Signed(y - Signed(x)) = Signed(y - x)
<1> DEFINE w == 2 * Half
           s == Signed(x)
           u == Signed(s + y)
           v == Signed(y - s)
<1>1. w \in Nat \ {0}
  BY HalfPositive
<1>2. s \in Int /\ \E q \in Int : x = w * q + s
  BY SignedTurns
<1>3. PICK q \in Int : x = w * q + s
  BY <1>2
<1> HIDE DEF s
<1>4. s + y \in Int /\ y - s \in Int
  BY <1>2
<1>5. u \in Int /\ -Half <= u /\ u < Half /\ \E p \in Int : s + y = w * p + u
  BY <1>4, SignedTurns
<1>6. PICK p \in Int : s + y = w * p + u
  BY <1>5
<1>7. v \in Int /\ -Half <= v /\ v < Half /\ \E t \in Int : y - s = w * t + v
  BY <1>4, SignedTurns
<1>8. PICK t \in Int : y - s = w * t + v
  BY <1>7
<1> HIDE DEF u, v
<1>9. Signed(x + y) = u
  <2> DEFINE k == q + p
             z == x + y
  <2>1. w * (q + p) = w * q + w * p
    BY <1>1
  <2>2. w * q \in Int /\ w * p \in Int
    BY <1>1
  <2>3. k \in Int /\ z \in Int /\ z = w * k + u
    BY <1>2, <1>3, <1>5, <1>6, <2>1, <2>2
  <2> HIDE DEF k, z
  <2>4. Signed(z) = u
    BY <1>5, <2>3, SignedUnique
  <2>5. QED
    BY <2>4 DEF z
<1>10. Signed(y - x) = v
  <2> DEFINE k == t - q
             z == y - x
  <2>1. w * (t - q) = w * t - w * q
    BY <1>1
  <2>2. w * q \in Int /\ w * t \in Int
    BY <1>1
  <2>3. k \in Int /\ z \in Int /\ z = w * k + v
    BY <1>2, <1>3, <1>7, <1>8, <2>1, <2>2
  <2> HIDE DEF k, z
  <2>4. Signed(z) = v
    BY <1>7, <2>3, SignedUnique
  <2>5. QED
    BY <2>4 DEF z
<1>11. QED
  BY <1>9, <1>10 DEF s, u, v

(* The two ways to read a word agree.                                      *)
LEMMA UnsignedSigned ==
  ASSUME NEW x \in Int
  PROVE  Unsigned(Signed(x)) = Unsigned(x)
<1> DEFINE w == 2 * Half
           s == Signed(x)
           m == s \div w
           r == s % w
<1>1. w \in Nat \ {0}
  BY HalfPositive
<1>2. s \in Int /\ \E q \in Int : x = w * q + s
  BY SignedTurns
<1>3. PICK q \in Int : x = w * q + s
  BY <1>2
<1> HIDE DEF s
<1>4. m \in Int /\ r \in 0..(w - 1) /\ s = w * m + r
  BY <1>1, <1>2, DivMod
<1> HIDE DEF m, r
<1> DEFINE k == q + m
<1>5. w * (q + m) = w * q + w * m
  BY <1>1, <1>4
<1>6. k \in Int /\ x = w * k + r
  BY <1>1, <1>3, <1>4, <1>5
<1> HIDE DEF k, w
<1>7. x % w = r
  BY <1>1, <1>4, <1>6, ModUnique
<1>8. QED
  BY <1>7 DEF Unsigned, w, s, r

-----------------------------------------------------------------------------
(* What many cycles do to a timer of SpcTimer.                             *)

ViewType == [on : BOOLEAN, period : Nat \ {0}, count : Nat, up : 0..(Nibble - 1)]

Later(t, n) ==
    IF ~t.on THEN t
    ELSE [t EXCEPT !.count = (t.count + n) % t.period,
                   !.up = (t.up + ((t.count + n) \div t.period)) % Nibble]

(* Cycles keep the type.                                                   *)
LEMMA LaterType ==
  ASSUME NEW t \in ViewType, NEW n \in Nat
  PROVE  Later(t, n) \in ViewType
<1> DEFINE a == t.count + n
           p == t.period
           q == a \div p
           r == a % p
           u == (t.up + q) % Nibble
<1>1. a \in Int /\ p \in Nat \ {0}
  BY DEF ViewType
<1> HIDE DEF a, p
<1>2. r \in 0..(p - 1) /\ q \in Int /\ a = p * q + r
  BY <1>1, DivMod
<1> HIDE DEF r, q
<1>3. t.up + q \in Int
  BY <1>2 DEF ViewType
<1>4. u \in 0..(Nibble - 1)
  BY <1>3, DivMod, TimerAssumption
<1>5. r \in Nat
  BY <1>1, <1>2
<1> HIDE DEF u
<1>6. [t EXCEPT !.count = r, !.up = u] \in ViewType
  BY <1>4, <1>5 DEF ViewType
<1>7. QED
  BY <1>6 DEF Later, a, p, q, r, u

(* First m cycles and then n are m + n.                                    *)
LEMMA LaterAdd ==
  ASSUME NEW t \in ViewType, NEW m \in Nat, NEW n \in Nat
  PROVE  Later(Later(t, m), n) = Later(t, m + n)
<1>1. CASE ~ t.on
  BY <1>1 DEF Later
<1>2. CASE t.on
  <2> DEFINE p == t.period
             a == t.count + m
             q == a \div p
             r == a % p
             d == (r + n) \div p
             s == Later(t, m)
  <2>1. p \in Nat \ {0} /\ a \in Int /\ t.up \in Int /\ n \in Int /\ a + n = t.count + (m + n)
    BY DEF ViewType
  <2>2. s = [t EXCEPT !.count = r, !.up = (t.up + q) % Nibble]
    BY <1>2 DEF Later
  <2>3. s.on = t.on /\ s.period = p /\ s.count = r /\ s.up = (t.up + q) % Nibble
    BY <2>2 DEF ViewType
  <2> HIDE DEF p, a
  <2>4. r \in Int /\ q \in Int
    BY <2>1, DivMod
  <2>5. (r + n) % p = (a + n) % p
    BY <2>1, ModAdd
  <2>6. (a + n) \div p = q + d
    BY <2>1, DivAdd
  <2>7. d \in Int
    <3>1. r + n \in Int
      BY <2>4
    <3>2. QED
      BY <2>1, <3>1, DivMod
  <2> HIDE DEF q, r, d
  <2>8. (s.up + d) % Nibble = ((t.up + q) + d) % Nibble
    <3>1. t.up + q \in Int /\ Nibble \in Nat \ {0}
      BY <2>1, <2>4, TimerAssumption
    <3>2. QED
      BY <2>3, <2>7, <3>1, ModAdd
  <2>9. (t.up + q) + d = t.up + (q + d)
    BY <2>1, <2>4, <2>7
  <2>10. Later(s, n) = [s EXCEPT !.count = (r + n) % p, !.up = (s.up + d) % Nibble]
    BY <1>2, <2>3 DEF Later, d
  <2>11. Later(t, m + n) = [t EXCEPT !.count = (a + n) % p, !.up = (t.up + ((a + n) \div p)) % Nibble]
    BY <1>2, <2>1 DEF Later, p
  <2>12. Later(s, n) = [t EXCEPT !.count = (r + n) % p, !.up = (s.up + d) % Nibble]
    BY <2>2, <2>10 DEF ViewType
  <2>13. QED
    BY <2>5, <2>6, <2>8, <2>9, <2>11, <2>12
<1>3. QED
  BY <1>1, <1>2

(* The recursive function of SpcTimer in closed form.                      *)
LEMMA PassingIs ==
  ASSUME NEW i \in Timers, NEW t \in ViewType, NEW n \in Nat \ {0}
  PROVE  Ticking(i)!Passing(t)[n] = Later(t, n)
<1> DEFINE f == Ticking(i)!Passing(t)
           g == [k \in Nat |-> IF k = 0 THEN t ELSE Later(t, k)]
           Recursive(h) == h = [k \in Nat |-> IF k = 0 THEN t ELSE Ticking(i)!Cycle(h[k - 1])]
<1>1. \A x : Ticking(i)!Cycle(x) = Later(x, 1)
  BY DEF Ticking!Cycle, Later
<1>2. Recursive(g)
  <2>1. ASSUME NEW k \in Nat, k # 0 PROVE Later(t, k) = Ticking(i)!Cycle(g[k - 1])
    <3>1. CASE k = 1
      BY <1>1, <3>1
    <3>2. CASE k # 1
      <4>1. k - 1 \in Nat /\ k - 1 # 0 /\ (k - 1) + 1 = k
        BY <2>1, <3>2
      <4>2. g[k - 1] = Later(t, k - 1)
        BY <4>1
      <4>3. Later(Later(t, k - 1), 1) = Later(t, (k - 1) + 1)
        BY <4>1, LaterAdd
      <4>4. QED
        BY <1>1, <4>1, <4>2, <4>3
    <3>3. QED
      BY <3>1, <3>2
  <2>2. QED
    BY <2>1
<1>3. f = CHOOSE h : Recursive(h)
  BY DEF Ticking!Passing
<1> HIDE DEF g
<1>4. Recursive(f)
  <2> HIDE DEF Recursive, f
  <2>1. \E h : Recursive(h)
    BY <1>2
  <2>2. QED
    BY <1>3, <2>1
<1>5. \A k \in Nat : f[k] = IF k = 0 THEN t ELSE Ticking(i)!Cycle(f[k - 1])
  BY <1>4, Zenon
<1>6. \A k \in Nat : g[k] = IF k = 0 THEN t ELSE Ticking(i)!Cycle(g[k - 1])
  BY <1>2, Zenon
<1> DEFINE S == {k \in Nat : f[k] # g[k]}
<1> HIDE DEF f
<1>7. S = {}
  <2>1. SUFFICES ASSUME S # {} PROVE FALSE
    OBVIOUS
  <2>2. S \in SUBSET Nat
    OBVIOUS
  <2> HIDE DEF S
  <2>3. PICK k \in S : \A x \in S : k <= x
    BY <2>1, <2>2, NatLeast
  <2>4. k \in Nat /\ f[k] # g[k]
    BY DEF S
  <2>5. k # 0
    BY <1>5, <1>6, <2>4
  <2>6. k - 1 \in Nat /\ ~ (k <= k - 1)
    BY <2>4, <2>5
  <2>7. f[k - 1] = g[k - 1]
    BY <2>3, <2>6 DEF S
  <2>8. QED
    BY <1>5, <1>6, <2>4, <2>5, <2>7
<1>8. f[n] = g[n]
  BY <1>7
<1>9. QED
  BY <1>8 DEF f, g

-----------------------------------------------------------------------------
(* Timers.                                                                 *)

View(t) == [on |-> t.bEnabled, period |-> t.iDivisor, count |-> t.nElapsedCycles,
            up |-> t.uUpCounter % Nibble]

Age(t, now) == Signed(now - t.iCycleSync)

(* What a game can see of a timer has the type of a timer of SpcTimer.     *)
LEMMA ViewTyped ==
  ASSUME NEW t \in TimerType
  PROVE  View(t) \in ViewType
<1>1. t.uUpCounter \in Int
  BY TimerAssumption DEF TimerType
<1>2. t.uUpCounter % Nibble \in 0..(Nibble - 1)
  BY <1>1, DivMod, TimerAssumption
<1>3. QED
  BY <1>2 DEF View, ViewType, TimerType

(* What Sync does, and that it counts all cycles of the timer's age.       *)
LEMMA SyncIs ==
  ASSUME NEW t \in TimerType, NEW now \in Int, t.bEnabled => Age(t, now) >= 0
  PROVE  /\ Sync(t, now) \in TimerType
         /\ Sync(t, now).iCycleSync = now /\ Sync(t, now).bEnabled = t.bEnabled
         /\ View(Sync(t, now)) = IF t.bEnabled THEN Later(View(t), Age(t, now)) ELSE View(t)
<1>1. CASE ~ t.bEnabled
  BY <1>1 DEF Sync, TimerType, View
<1>2. CASE t.bEnabled
  <2> DEFINE p == t.iDivisor
             u == t.uUpCounter
             run == t.nElapsedCycles + Age(t, now)
             q == run \div p
             r == run % p
             count == IF run >= p THEN q ELSE 0
             v == (u + count) % Byte
  <2>1. p \in Nat \ {0} /\ u \in Int /\ run \in Nat
    <3>1. now - t.iCycleSync \in Int
      BY DEF TimerType
    <3>2. Age(t, now) \in Int
      BY <3>1, SignedTurns DEF Age
    <3>3. QED
      BY <1>2, <3>2, TimerAssumption DEF TimerType
  <2>2. Sync(t, now) = [t EXCEPT !.nElapsedCycles = run - count * p, !.uUpCounter = v,
                                 !.iCycleSync = now]
    BY <1>2 DEF Sync, Age
  <2> HIDE DEF p, u, run
  <2>3. run \in Int
    BY <2>1
  <2>4. q \in Int /\ r \in 0..(p - 1) /\ run = p * q + r
    BY <2>1, <2>3, DivMod
  <2>5. count = q
    <3>1. CASE run >= p
      BY <3>1
    <3>2. CASE run < p
      <4>1. run \in 0..(p - 1) /\ run = p * 0 + run
        BY <2>1, <3>2
      <4>2. run \div p = 0
        BY <2>1, <2>3, <4>1, DivUnique
      <4>3. QED
        BY <2>1, <3>2, <4>2
    <3>3. QED
      BY <2>1, <3>1, <3>2
  <2> HIDE DEF q, r, count
  <2>6. run - count * p = r
    <3>1. q * p = p * q /\ p * q \in Int
      BY <2>1, <2>4
    <3>2. QED
      BY <2>1, <2>4, <2>5, <3>1
  <2>7. u + q \in Int /\ v = (u + q) % Byte
    BY <2>1, <2>4, <2>5
  <2>8. v \in 0..(Byte - 1)
    BY <2>7, DivMod, TimerAssumption
  <2>9. v % Nibble = ((u % Nibble) + q) % Nibble
    <3>1. ((u + q) % Byte) % Nibble = (u + q) % Nibble
      BY <2>7, ModMod, TimerAssumption
    <3>2. ((u % Nibble) + q) % Nibble = (u + q) % Nibble
      BY <2>1, <2>4, ModAdd, TimerAssumption
    <3>3. QED
      BY <2>7, <3>1, <3>2
  <2> HIDE DEF v
  <2>10. Sync(t, now) = [t EXCEPT !.nElapsedCycles = r, !.uUpCounter = v, !.iCycleSync = now]
    BY <2>2, <2>6
  <2>11. r \in Nat
    BY <2>1, <2>4
  <2>12. Sync(t, now) \in TimerType /\ Sync(t, now).iCycleSync = now
         /\ Sync(t, now).bEnabled = t.bEnabled
    BY <2>8, <2>10, <2>11 DEF TimerType
  <2>13. View(Sync(t, now)) = [on |-> t.bEnabled, period |-> p, count |-> r, up |-> v % Nibble]
    BY <2>10 DEF TimerType, View, p
  <2>14. Later(View(t), Age(t, now))
           = [on |-> t.bEnabled, period |-> p, count |-> r, up |-> ((u % Nibble) + q) % Nibble]
    BY <1>2 DEF Later, View, p, r, run, q, u
  <2>15. QED
    BY <1>2, <2>9, <2>12, <2>13, <2>14
<1>3. t.bEnabled \in BOOLEAN
  BY DEF TimerType
<1>4. QED
  BY <1>1, <1>2, <1>3

(* Shown is what is seen after a Sync.                                     *)
LEMMA ShownIs ==
  ASSUME NEW t, NEW now
  PROVE  Shown(t, now) = View(Sync(t, now))
BY DEF Shown, View

(* A timer nobody touches for n cycles.                                    *)
LEMMA Untouched ==
  ASSUME NEW t \in TimerType, NEW now \in Int, NEW n \in Nat,
         t.bEnabled => Age(t, now) >= 0 /\ Age(t, now) + n < Half
  PROVE  /\ Shown(t, Signed(now + n)) = Later(Shown(t, now), n)
         /\ t.bEnabled => Age(t, Signed(now + n)) = Age(t, now) + n
<1> DEFINE later == Signed(now + n)
           age == Age(t, now)
<1>1. later \in Int /\ t.iCycleSync \in Int /\ t.bEnabled \in BOOLEAN
  <2>1. now + n \in Int
    OBVIOUS
  <2>2. QED
    BY <2>1, SignedTurns DEF TimerType
<1>2. age \in Int /\ -Half <= age
  <2>1. now - t.iCycleSync \in Int
    BY <1>1
  <2>2. QED
    BY <2>1, SignedTurns DEF Age
<1>3. ASSUME t.bEnabled PROVE Age(t, later) = age + n
  <2> DEFINE x == now + n
             y == now - t.iCycleSync
             z == -t.iCycleSync
  <2>1. x \in Int /\ y \in Int /\ z \in Int /\ x + z = y + n
    BY <1>1
  <2>2. later = Signed(x) /\ age = Signed(y) /\ Age(t, later) = Signed(later + z)
    BY <1>1 DEF Age
  <2> HIDE DEF x, y, z, later, age
  <2>3. Signed(later + z) = Signed(x + z)
    BY <2>1, <2>2, SignedSum
  <2>4. Signed(age + n) = Signed(y + n)
    BY <2>1, <2>2, SignedSum
  <2>5. age + n \in Int /\ -Half <= age + n /\ age + n < Half
    BY <1>2, <1>3, HalfPositive DEF age
  <2>6. Signed(age + n) = age + n
    BY <2>5, SignedSmall
  <2>7. QED
    BY <2>1, <2>2, <2>3, <2>4, <2>6
<1> HIDE DEF later, age
<1>4. CASE t.bEnabled
  <2>1. age \in Nat /\ Age(t, later) >= 0
    BY <1>2, <1>3, <1>4 DEF age
  <2>2. Shown(t, later) = Later(View(t), age + n)
    BY <1>1, <1>3, <1>4, <2>1, SyncIs, ShownIs
  <2>3. Shown(t, now) = Later(View(t), age)
    BY <1>4, <2>1, SyncIs, ShownIs DEF age
  <2>4. Later(Later(View(t), age), n) = Later(View(t), age + n)
    BY <2>1, ViewTyped, LaterAdd
  <2>5. QED
    BY <1>3, <1>4, <2>2, <2>3, <2>4 DEF later, age
<1>5. CASE ~ t.bEnabled
  <2>1. Shown(t, later) = View(t) /\ Shown(t, now) = View(t)
    BY <1>1, <1>5, SyncIs, ShownIs
  <2>2. Later(View(t), n) = View(t)
    BY <1>5 DEF Later, View
  <2>3. QED
    BY <1>5, <2>1, <2>2 DEF later
<1>6. QED
  BY <1>1, <1>4, <1>5

(* A timer brought up to date n cycles ago.                                *)
LEMMA Touched ==
  ASSUME NEW t \in TimerType, NEW n \in Nat, n < Half, NEW now \in Int, t.iCycleSync = now
  PROVE  /\ Shown(t, Signed(now + n)) = Later(View(t), n)
         /\ Age(t, Signed(now + n)) = n
<1> DEFINE later == Signed(now + n)
           x == now + n
           z == -now
<1>1. x \in Int /\ z \in Int /\ x + z = n
  OBVIOUS
<1>2. later \in Int
  BY <1>1, SignedTurns
<1>3. Age(t, later) = Signed(later + z)
  BY <1>2 DEF Age
<1> HIDE DEF later, x, z
<1>4. Signed(later + z) = Signed(x + z)
  BY <1>1, SignedSum DEF later, x
<1>5. Signed(n) = n
  BY SignedSmall, HalfPositive
<1>6. Age(t, later) = n
  BY <1>1, <1>3, <1>4, <1>5
<1>7. View(Sync(t, later)) = IF t.bEnabled THEN Later(View(t), n) ELSE View(t)
  BY <1>2, <1>6, SyncIs
<1>8. ~ t.bEnabled => Later(View(t), n) = View(t)
  BY DEF Later, View
<1>9. t.bEnabled \in BOOLEAN
  BY DEF TimerType
<1>10. Shown(t, later) = Later(View(t), n)
  BY <1>7, <1>8, <1>9, ShownIs
<1>11. QED
  BY <1>6, <1>10 DEF later

-----------------------------------------------------------------------------
(* The inductive invariant: how far each timer can be behind the clock.    *)

(* Between frames all timers are up to date, and what is left of the       *)
(* cycles does not pay for some instruction.                               *)
Rests(c, ts, now) ==
    /\ c >= -BranchExtra
    /\ \E cost \in Costs : c < cost
    /\ \A i \in Timers : ts[i].bEnabled => Age(ts[i], now) = 0

(* In a frame a timer is behind by no more than the cycles used.           *)
Runs(c, ts, now) ==
    /\ c >= -BranchExtra
    /\ \E g \in Grants, cost \in Costs :
          /\ c < g + cost
          /\ \A i \in Timers : ts[i].bEnabled => /\ Age(ts[i], now) >= 0
                                                 /\ Age(ts[i], now) + c < g + cost

StateTime(s) == Signed(s.total - s.cycles)

TypeOK ==
    /\ pc \in {"spc", "mix", "idle"}
    /\ total \in Int /\ cycles \in Int /\ timers \in [Timers -> TimerType]
    /\ seen \in [Timers -> 0..(Nibble - 1)]
    /\ state # << >> =>
          /\ state[1].total \in Int /\ state[1].cycles \in Int
          /\ state[1].timers \in [Timers -> TimerType]

IInv ==
    /\ TypeOK
    /\ pc = "spc" => Runs(cycles, timers, Now)
    /\ pc # "spc" => Rests(cycles, timers, Now)
    /\ state # << >> => Rests(state[1].cycles, state[1].timers, StateTime(state[1]))

(* The SPC's clock is a number.                                            *)
LEMMA NowTyped ==
  ASSUME TypeOK
  PROVE  Now \in Int
<1>1. total - cycles \in Int
  BY DEF TypeOK
<1>2. QED
  BY <1>1, SignedTurns DEF Now

(* The SPC's clock is a word.                                              *)
LEMMA NowIsWord ==
  ASSUME TypeOK
  PROVE  Signed(Now + 0) = Now
<1>1. total - cycles \in Int
  BY DEF TypeOK
<1>2. Now \in Int /\ -Half <= Now /\ Now < Half
  BY <1>1, SignedTurns DEF Now
<1>3. Now + 0 = Now
  BY <1>2
<1>4. QED
  BY <1>2, <1>3, SignedSmall

(* The clock, when an instruction has used n cycles.                       *)
LEMMA ExecuteIs ==
  ASSUME IInv, NEW cost \in Costs, NEW extra \in {0, BranchExtra}, Execute(cost, extra),
         NEW n, n = cost + extra
  PROVE  /\ n \in 1..(2 * Half - 1) /\ n < Half
         /\ pc = "spc" /\ pc' = "spc" /\ state' = state
         /\ total' = total /\ cycles' = cycles - n
         /\ cycles' \in Int /\ cycles' >= -BranchExtra
         /\ Now' = Signed(Now + n)
         /\ Unsigned(Now') = (Unsigned(Now) + n) % (2 * Half)
<1>1. cost \in Nat \ {0} /\ extra \in Nat /\ extra <= BranchExtra /\ BranchExtra \in Nat
  BY ClockAssumption
<1>2. n \in Nat /\ n >= 1 /\ n < Half
  <2>1. 0 + cost + BranchExtra < Half
    BY ClockAssumption
  <2>2. QED
    BY <1>1, <2>1, HalfPositive
<1>3. n \in 1..(2 * Half - 1)
  BY <1>2, HalfPositive
<1>4. pc = "spc" /\ pc' = "spc" /\ state' = state /\ total' = total /\ cycles >= cost
      /\ cycles' = cycles - cost - extra
  BY DEF Execute
<1>5. cycles \in Int /\ total \in Int
  BY DEF IInv, TypeOK
<1>6. cycles' = cycles - n /\ cycles' \in Int /\ cycles' >= -BranchExtra
  BY <1>1, <1>4, <1>5
<1> DEFINE x == total - cycles
<1>7. x \in Int /\ total' - cycles' = x + n
  BY <1>2, <1>4, <1>5, <1>6
<1>8. Now = Signed(x) /\ Now' = Signed(x + n)
  BY <1>7 DEF Now
<1> HIDE DEF x
<1>9. Now' = Signed(Now + n)
  BY <1>2, <1>7, <1>8, SignedSum
<1>10. Now \in Int
  BY NowTyped DEF IInv
<1>11. Unsigned(Now') = (Unsigned(Now) + n) % (2 * Half)
  <2>1. Now + n \in Int
    BY <1>2, <1>10
  <2>2. Unsigned(Now') = (Now + n) % (2 * Half)
    BY <1>9, <2>1, UnsignedSigned DEF Unsigned
  <2>3. n \in Int /\ 2 * Half \in Nat \ {0}
    BY <1>2, HalfPositive
  <2>4. ((Now % (2 * Half)) + n) % (2 * Half) = (Now + n) % (2 * Half)
    BY <1>10, <2>3, ModAdd
  <2>5. QED
    BY <2>2, <2>4 DEF Unsigned
<1>12. QED
  BY <1>2, <1>3, <1>4, <1>6, <1>9, <1>11

-----------------------------------------------------------------------------
(* Steps.                                                                  *)

(* What an instruction of n cycles does to a timer that it leaves alone,   *)
(* and to one that it brings up to date first.                             *)
Ticks(i, view, n) ==
    /\ Unsigned(Now') = (Unsigned(Now) + n) % (2 * Half)
    /\ Shown(timers'[i], Now') = Later(view, n)
    /\ state' = state

(* Such an instruction is one of SpcTimer that leaves the timer view.      *)
LEMMA PassIs ==
  ASSUME NEW i \in Timers, NEW view \in ViewType, NEW n \in Nat \ {0}, Ticks(i, view, n)
  PROVE  Ticking(i)!Pass(view, n)
<1>1. Shown(timers'[i], Now') = Ticking(i)!Passing(view)[n]
  BY PassingIs DEF Ticks
<1>2. QED
  BY <1>1 DEF Ticks, Ticking!Pass

(* What is shown of a timer that is not ahead of the clock.                *)
LEMMA ShownTyped ==
  ASSUME NEW t \in TimerType, NEW now \in Int, t.bEnabled => Age(t, now) >= 0
  PROVE  Shown(t, now) \in ViewType
<1>1. Sync(t, now) \in TimerType
  BY SyncIs
<1>2. QED
  BY <1>1, ViewTyped, ShownIs

(* In a frame a timer's age stays below half a turn of the clock, also     *)
(* after one more instruction.                                             *)
LEMMA Ages ==
  ASSUME IInv, NEW i \in Timers, timers[i].bEnabled
  PROVE  /\ Age(timers[i], Now) \in Int /\ Age(timers[i], Now) >= 0
         /\ \A n \in Nat : pc = "spc" /\ cycles - n >= -BranchExtra => Age(timers[i], Now) + n < Half
<1>1. timers[i] \in TimerType /\ Now \in Int /\ cycles \in Int
  BY NowTyped DEF IInv, TypeOK
<1>2. Now - timers[i].iCycleSync \in Int
  BY <1>1 DEF TimerType
<1>3. Age(timers[i], Now) \in Int
  BY <1>2, SignedTurns DEF Age
<1>4. Age(timers[i], Now) >= 0
  BY <1>3 DEF IInv, Runs, Rests
<1>5. ASSUME NEW n \in Nat, pc = "spc", cycles - n >= -BranchExtra PROVE Age(timers[i], Now) + n < Half
  <2>1. PICK g \in Grants, cost \in Costs : Age(timers[i], Now) + cycles < g + cost
    BY <1>5 DEF IInv, Runs
  <2>2. g \in Int /\ cost \in Int /\ g + cost + BranchExtra < Half /\ BranchExtra \in Nat
    BY ClockAssumption
  <2>3. QED
    BY <1>1, <1>3, <1>5, <2>1, <2>2, HalfPositive
<1>6. QED
  BY <1>3, <1>4, <1>5

(* An instruction, as the timers see it.                                   *)
Instruction(n) ==
    /\ n \in 1..(2 * Half - 1) /\ n < Half
    /\ pc = "spc" /\ pc' = "spc" /\ state' = state
    /\ total' = total /\ cycles' = cycles - n /\ cycles' \in Int /\ cycles' >= -BranchExtra
    /\ Now' = Signed(Now + n)
    /\ Unsigned(Now') = (Unsigned(Now) + n) % (2 * Half)
    /\ timers' \in [Timers -> TimerType] /\ seen' \in [Timers -> 0..(Nibble - 1)]
    /\ \A i \in Timers : timers'[i] = timers[i] \/ timers'[i].iCycleSync = Now

(* Either way the cycles are counted.                                      *)
LEMMA InstructionTicks ==
  ASSUME IInv, NEW n, Instruction(n), NEW i \in Timers
  PROVE  /\ timers'[i] = timers[i] => Ticks(i, Shown(timers[i], Now), n)
         /\ timers'[i].iCycleSync = Now => Ticks(i, View(timers'[i]), n)
<1>1. n \in Nat /\ Now \in Int /\ timers[i] \in TimerType /\ timers'[i] \in TimerType
  BY NowTyped, HalfPositive DEF IInv, TypeOK, Instruction
<1>2. timers[i].bEnabled => Age(timers[i], Now) >= 0 /\ Age(timers[i], Now) + n < Half
  BY <1>1, Ages DEF Instruction
<1>3. ASSUME timers'[i] = timers[i] PROVE Ticks(i, Shown(timers[i], Now), n)
  <2>1. Shown(timers[i], Signed(Now + n)) = Later(Shown(timers[i], Now), n)
    BY <1>1, <1>2, Untouched
  <2>2. QED
    BY <1>3, <2>1 DEF Ticks, Instruction
<1>4. ASSUME timers'[i].iCycleSync = Now PROVE Ticks(i, View(timers'[i]), n)
  <2>1. n < Half
    BY DEF Instruction
  <2>2. Shown(timers'[i], Signed(Now + n)) = Later(View(timers'[i]), n)
    BY <1>1, <1>4, <2>1, Touched
  <2>3. QED
    BY <2>2 DEF Ticks, Instruction
<1>5. QED
  BY <1>3, <1>4

(* No instruction lets a timer fall behind too far.                        *)
LEMMA InstructionKeeps ==
  ASSUME IInv, NEW n, Instruction(n)
  PROVE  IInv'
<1>1. n \in Nat /\ Now \in Int /\ n < Half /\ cycles \in Int
  BY NowTyped, HalfPositive DEF IInv, TypeOK, Instruction
<1>2. TypeOK'
  BY DEF IInv, TypeOK, Instruction
<1>3. PICK g \in Grants, cost \in Costs :
         /\ cycles < g + cost
         /\ \A i \in Timers : timers[i].bEnabled => Age(timers[i], Now) + cycles < g + cost
  BY DEF IInv, Runs, Instruction
<1>4. g \in Int /\ cost \in Int
  BY ClockAssumption
<1>5. ASSUME NEW i \in Timers, timers'[i].bEnabled
      PROVE  Age(timers'[i], Now') >= 0 /\ Age(timers'[i], Now') + cycles' < g + cost
  <2>1. timers[i] \in TimerType /\ timers'[i] \in TimerType
    BY DEF IInv, TypeOK, Instruction
  <2>2. Now' = Signed(Now + n) /\ cycles' = cycles - n /\ pc = "spc" /\ cycles' >= -BranchExtra
    BY DEF Instruction
  <2>3. CASE timers'[i] = timers[i]
    <3>1. Age(timers[i], Now) \in Int /\ Age(timers[i], Now) >= 0 /\ Age(timers[i], Now) + n < Half
      BY <1>1, <1>5, <2>2, <2>3, Ages
    <3>2. Age(timers[i], Signed(Now + n)) = Age(timers[i], Now) + n
      BY <1>1, <1>5, <2>1, <2>3, <3>1, Untouched
    <3>3. Age(timers[i], Now) + cycles < g + cost
      BY <1>3, <1>5, <2>3
    <3>4. QED
      BY <1>1, <1>4, <2>2, <2>3, <3>1, <3>2, <3>3
  <2>4. CASE timers'[i].iCycleSync = Now
    <3>1. Age(timers'[i], Signed(Now + n)) = n
      BY <1>1, <2>1, <2>4, Touched
    <3>2. QED
      BY <1>1, <1>3, <1>4, <2>2, <3>1
  <2>5. QED
    BY <2>3, <2>4 DEF Instruction
<1>6. Runs(cycles', timers', Now')
  <2>1. cycles' >= -BranchExtra /\ cycles' < g + cost
    BY <1>1, <1>3, <1>4 DEF Instruction
  <2>2. QED
    BY <1>5, <2>1 DEF Runs
<1>7. (state # << >> => Rests(state[1].cycles, state[1].timers, StateTime(state[1])))'
  BY DEF IInv, Instruction
<1>8. QED
  BY <1>2, <1>6, <1>7 DEF IInv, Instruction

(* A timer an instruction leaves alone waits.                              *)
LEMMA Waits ==
  ASSUME IInv, NEW n, Instruction(n), NEW i \in Timers,
         timers'[i] = timers[i], seen'[i] = seen[i]
  PROVE  Ticking(i)!Next
<1>1. timers[i] \in TimerType /\ Now \in Int
  BY NowTyped DEF IInv, TypeOK
<1>2. Shown(timers[i], Now) \in ViewType
  BY <1>1, Ages, ShownTyped
<1>3. n \in Nat \ {0} /\ n \in 1..(2 * Half - 1)
  BY HalfPositive DEF Instruction
<1>4. Ticking(i)!Pass(Shown(timers[i], Now), n)
  BY <1>2, <1>3, InstructionTicks, PassIs
<1>5. Ticking(i)!Wait(n)
  BY <1>4 DEF Ticking!Wait
<1>6. QED
  BY <1>3, <1>5 DEF Ticking!Next

(* The instructions that touch no timer.                                   *)
LEMMA ComputeStep ==
  ASSUME IInv, Compute \/ WriteRam \/ WriteDsp \/ ReadDsp
  PROVE  IInv' /\ \A i \in Timers : Ticking(i)!Next
<1>1. timers' = timers /\ seen' = seen
  BY DEF Compute, WriteRam, WriteDsp, ReadDsp
<1>2. \E cost \in Costs, extra \in {0, BranchExtra} : Execute(cost, extra)
  BY DEF Compute, WriteRam, WriteDsp, ReadDsp, Access
<1>3. PICK cost \in Costs, extra \in {0, BranchExtra} : Execute(cost, extra)
  BY <1>2
<1> DEFINE n == cost + extra
<1>4. timers' \in [Timers -> TimerType] /\ seen' \in [Timers -> 0..(Nibble - 1)]
  BY <1>1 DEF IInv, TypeOK
<1> HIDE DEF n
<1>5. Instruction(n)
  BY <1>1, <1>3, <1>4, ExecuteIs DEF Instruction, n
<1>6. ASSUME NEW i \in Timers PROVE Ticking(i)!Next
  BY <1>1, <1>5, Waits
<1>7. QED
  BY <1>5, <1>6, InstructionKeeps

(* What the operations on one timer return.                                *)
LEMMA Synced ==
  ASSUME IInv, NEW i \in Timers
  PROVE  /\ Sync(timers[i], Now) \in TimerType
         /\ Sync(timers[i], Now).iCycleSync = Now
         /\ Shown(timers[i], Now) = View(Sync(timers[i], Now))
         /\ Shown(timers[i], Now) \in ViewType
         /\ Sync(timers[i], Now).bEnabled = timers[i].bEnabled
<1>1. timers[i] \in TimerType /\ Now \in Int
  BY NowTyped DEF IInv, TypeOK
<1>2. timers[i].bEnabled => Age(timers[i], Now) >= 0
  BY Ages
<1>3. QED
  BY <1>1, <1>2, SyncIs, ShownIs, ShownTyped

(* A new compare value changes the period and nothing else.                *)
LEMMA SetTimerIs ==
  ASSUME IInv, NEW i \in Timers, NEW v \in Compares
  PROVE  LET t == SetTimer(i, timers[i], Now, v)
         IN /\ t \in TimerType /\ t.iCycleSync = Now
            /\ View(t) = [Shown(timers[i], Now) EXCEPT !.period = Ticking(i)!Period(v)]
            /\ v \in 0..(FullPeriod - 1)
<1> DEFINE s == Sync(timers[i], Now)
           p == Period(i, v)
<1>1. v \in 0..(FullPeriod - 1)
  BY TimerAssumption
<1>2. p \in Nat \ {0} /\ Ticking(i)!Period(v) = p
  <2>1. CyclesPerTick[i] \in Nat \ {0} /\ FullPeriod \in Nat \ {0}
    BY TimerAssumption
  <2>2. (IF v = 0 THEN FullPeriod ELSE v) \in Nat \ {0}
    BY <1>1, <2>1
  <2>3. \A a, b \in Nat \ {0} : a * b \in Nat \ {0}
    OBVIOUS
  <2>4. QED
    BY <2>1, <2>2, <2>3 DEF Period, Ticking!Period
<1>3. s \in TimerType /\ s.iCycleSync = Now /\ Shown(timers[i], Now) = View(s)
  BY Synced
<1> HIDE DEF s, p
<1>4. SetTimer(i, timers[i], Now, v) = [s EXCEPT !.iDivisor = p]
  BY DEF SetTimer, s, p
<1>5. [s EXCEPT !.iDivisor = p] \in TimerType /\ [s EXCEPT !.iDivisor = p].iCycleSync = Now
  BY <1>2, <1>3 DEF TimerType
<1>6. View([s EXCEPT !.iDivisor = p]) = [View(s) EXCEPT !.period = p]
  BY <1>3 DEF View, TimerType
<1>7. QED
  BY <1>1, <1>2, <1>3, <1>4, <1>5, <1>6

(* A read returns the counter and clears it.                               *)
LEMMA GetCounterIs ==
  ASSUME IInv, NEW i \in Timers
  PROVE  LET t == GetCounter(timers[i], Now)
         IN /\ t \in TimerType /\ t.iCycleSync = Now
            /\ View(t) = [Shown(timers[i], Now) EXCEPT !.up = 0]
            /\ Sync(timers[i], Now).uUpCounter % Nibble = Shown(timers[i], Now).up
<1> DEFINE s == Sync(timers[i], Now)
<1>1. s \in TimerType /\ s.iCycleSync = Now /\ Shown(timers[i], Now) = View(s)
  BY Synced
<1> HIDE DEF s
<1>2. GetCounter(timers[i], Now) = [s EXCEPT !.uUpCounter = 0]
  BY DEF GetCounter, s
<1>3. 0 \in 0..(Byte - 1) /\ 0 \in 0..(Nibble - 1) /\ Nibble \in Nat \ {0}
  BY TimerAssumption
<1>4. 0 % Nibble = 0
  BY <1>3, ModSmall
<1>5. [s EXCEPT !.uUpCounter = 0] \in TimerType /\ [s EXCEPT !.uUpCounter = 0].iCycleSync = Now
  BY <1>1, <1>3 DEF TimerType
<1>6. View([s EXCEPT !.uUpCounter = 0]) = [View(s) EXCEPT !.up = 0]
  BY <1>1, <1>4 DEF View, TimerType
<1>7. View(s).up = s.uUpCounter % Nibble
  BY DEF View
<1>8. QED
  BY <1>1, <1>2, <1>5, <1>6, <1>7 DEF s

(* A changed bit of $F1 switches the timer.                                *)
LEMMA SetEnableIs ==
  ASSUME IInv, NEW i \in Timers, NEW on \in BOOLEAN, on # timers[i].bEnabled
  PROVE  LET t == SetEnable(timers[i], Now, on)
         IN /\ t \in TimerType /\ t.iCycleSync = Now
            /\ View(t) = Ticking(i)!Switch(Shown(timers[i], Now), on)
<1> DEFINE s == Sync(timers[i], Now)
           u == IF on THEN 0 ELSE s.uUpCounter
<1>1. s \in TimerType /\ s.iCycleSync = Now /\ Shown(timers[i], Now) = View(s)
      /\ s.bEnabled = timers[i].bEnabled
  BY Synced
<1> HIDE DEF s
<1>2. SetEnable(timers[i], Now, on) = [s EXCEPT !.bEnabled = on, !.uUpCounter = u]
  BY DEF SetEnable, s
<1>3. 0 \in 0..(Byte - 1) /\ 0 \in 0..(Nibble - 1) /\ Nibble \in Nat \ {0}
  BY TimerAssumption
<1>4. 0 % Nibble = 0
  BY <1>3, ModSmall
<1>5. u \in 0..(Byte - 1)
  BY <1>1, <1>3 DEF TimerType
<1>6. u % Nibble = IF on THEN 0 ELSE View(s).up
  BY <1>4 DEF View
<1> DEFINE t == [s EXCEPT !.bEnabled = on, !.uUpCounter = u]
<1> HIDE DEF u
<1>7. t \in TimerType /\ t.iCycleSync = Now
  BY <1>1, <1>5 DEF TimerType
<1>8. View(t) = [View(s) EXCEPT !.on = on, !.up = u % Nibble]
  <2>1. t.bEnabled = on /\ t.uUpCounter = u /\ t.iDivisor = s.iDivisor
        /\ t.nElapsedCycles = s.nElapsedCycles
    BY <1>1 DEF TimerType
  <2> HIDE DEF t
  <2>2. View(t) = [on |-> on, period |-> s.iDivisor, count |-> s.nElapsedCycles, up |-> u % Nibble]
    BY <2>1 DEF View
  <2>3. QED
    <3> DEFINE r == View(s)
               w == [r EXCEPT !.on = on, !.up = u % Nibble]
               d == [on |-> on, period |-> s.iDivisor, count |-> s.nElapsedCycles, up |-> u % Nibble]
    <3>1. r \in ViewType /\ r.period = s.iDivisor /\ r.count = s.nElapsedCycles
      BY <1>1, ViewTyped DEF View
    <3> HIDE DEF r, t
    <3>2. /\ DOMAIN w = {"on", "period", "count", "up"}
          /\ w.on = on /\ w.period = s.iDivisor /\ w.count = s.nElapsedCycles /\ w.up = u % Nibble
          /\ w = [x \in DOMAIN w |-> w[x]]
      BY <3>1 DEF ViewType
    <3>3. /\ DOMAIN d = {"on", "period", "count", "up"}
          /\ d.on = on /\ d.period = s.iDivisor /\ d.count = s.nElapsedCycles /\ d.up = u % Nibble
          /\ d = [x \in DOMAIN d |-> d[x]]
      OBVIOUS
    <3> HIDE DEF w, d
    <3>4. w = d
      <4>1. \A x \in {"on", "period", "count", "up"} : w[x] = d[x]
        BY <3>2, <3>3
      <4>2. QED
        BY <3>2, <3>3, <4>1
    <3>5. QED
      BY <2>2, <3>4 DEF w, d, r
<1>9. View(s).on = s.bEnabled
  BY DEF View
<1>10. Ticking(i)!Switch(View(s), on) = [View(s) EXCEPT !.on = on, !.up = IF on THEN 0 ELSE View(s).up]
  BY <1>1, <1>9 DEF Ticking!Switch
<1>11. QED
  BY <1>1, <1>2, <1>6, <1>7, <1>8, <1>10

(* Writing a compare value, reading a counter and writing $F1 are the      *)
(* instructions of SpcTimer; the other timers wait.                        *)
LEMMA WriteTimerStep ==
  ASSUME IInv, WriteTimer
  PROVE  IInv' /\ \A i \in Timers : Ticking(i)!Next
<1>1. PICK cost \in Costs : Execute(cost, 0)
  BY DEF WriteTimer, Access
<1>2. PICK j \in Timers, v \in Compares :
         timers' = [timers EXCEPT ![j] = SetTimer(j, @, Now, v)]
  BY DEF WriteTimer
<1>3. seen' = seen /\ seen' \in [Timers -> 0..(Nibble - 1)]
  BY DEF WriteTimer, IInv, TypeOK
<1> DEFINE n == cost + 0
           t == SetTimer(j, timers[j], Now, v)
<1>4. t \in TimerType /\ t.iCycleSync = Now
      /\ View(t) = [Shown(timers[j], Now) EXCEPT !.period = Ticking(j)!Period(v)]
      /\ v \in 0..(FullPeriod - 1)
  BY SetTimerIs
<1>5. timers' = [timers EXCEPT ![j] = t]
  BY <1>2
<1> HIDE DEF t, n
<1>6. timers' \in [Timers -> TimerType] /\ timers'[j] = t
      /\ \A i \in Timers : i # j => timers'[i] = timers[i]
  BY <1>4, <1>5 DEF IInv, TypeOK
<1>7. Instruction(n)
  BY <1>1, <1>3, <1>4, <1>6, ExecuteIs DEF Instruction, n
<1>8. ASSUME NEW i \in Timers, i # j PROVE Ticking(i)!Next
  BY <1>3, <1>6, <1>7, <1>8, Waits
<1>9. Ticking(j)!Next
  <2>1. View(t) \in ViewType
    BY <1>4, ViewTyped
  <2>2. n \in Nat \ {0} /\ n \in 1..(2 * Half - 1)
    BY <1>7, HalfPositive DEF Instruction
  <2>3. Ticks(j, View(t), n)
    BY <1>4, <1>6, <1>7, InstructionTicks
  <2>4. Ticking(j)!Pass(View(t), n)
    BY <2>1, <2>2, <2>3, PassIs
  <2>5. Ticking(j)!SetPeriod(n)
    BY <1>3, <1>4, <2>4 DEF Ticking!SetPeriod
  <2>6. QED
    BY <2>2, <2>5 DEF Ticking!Next
<1>10. QED
  BY <1>7, <1>8, <1>9, InstructionKeeps

(* The timer that is read answers, and the others wait.                    *)
LEMMA ReadTimerStep ==
  ASSUME IInv, ReadTimer
  PROVE  IInv' /\ \A i \in Timers : Ticking(i)!Next
<1>1. PICK cost \in Costs : Execute(cost, 0)
  BY DEF ReadTimer, Access
<1>2. PICK j \in Timers :
         /\ seen' = [seen EXCEPT ![j] = Sync(timers[j], Now).uUpCounter % Nibble]
         /\ timers' = [timers EXCEPT ![j] = GetCounter(@, Now)]
  BY DEF ReadTimer
<1> DEFINE n == cost + 0
           t == GetCounter(timers[j], Now)
<1>3. t \in TimerType /\ t.iCycleSync = Now
      /\ View(t) = [Shown(timers[j], Now) EXCEPT !.up = 0]
      /\ Sync(timers[j], Now).uUpCounter % Nibble = Shown(timers[j], Now).up
  BY GetCounterIs
<1>4. timers' = [timers EXCEPT ![j] = t] /\ seen' = [seen EXCEPT ![j] = Shown(timers[j], Now).up]
  BY <1>2, <1>3
<1> HIDE DEF t, n
<1>5. timers' \in [Timers -> TimerType] /\ timers'[j] = t
      /\ \A i \in Timers : i # j => timers'[i] = timers[i]
  BY <1>3, <1>4 DEF IInv, TypeOK
<1>6. /\ seen' \in [Timers -> 0..(Nibble - 1)]
      /\ seen'[j] = Shown(timers[j], Now).up /\ \A i \in Timers : i # j => seen'[i] = seen[i]
  <2>1. Shown(timers[j], Now).up \in 0..(Nibble - 1)
    BY Synced DEF ViewType
  <2>2. QED
    BY <1>4, <2>1 DEF IInv, TypeOK
<1>7. Instruction(n)
  BY <1>1, <1>3, <1>5, <1>6, ExecuteIs DEF Instruction, n
<1>8. ASSUME NEW i \in Timers, i # j PROVE Ticking(i)!Next
  BY <1>5, <1>6, <1>7, <1>8, Waits
<1>9. Ticking(j)!Next
  <2>1. View(t) \in ViewType
    BY <1>3, ViewTyped
  <2>2. n \in Nat \ {0} /\ n \in 1..(2 * Half - 1)
    BY <1>7, HalfPositive DEF Instruction
  <2>3. Ticks(j, View(t), n)
    BY <1>3, <1>5, <1>7, InstructionTicks
  <2>4. Ticking(j)!Pass(View(t), n)
    BY <2>1, <2>2, <2>3, PassIs
  <2>5. Ticking(j)!Read(n)
    BY <1>3, <1>6, <2>4 DEF Ticking!Read
  <2>6. QED
    BY <2>2, <2>5 DEF Ticking!Next
<1>10. QED
  BY <1>7, <1>8, <1>9, InstructionKeeps

(* The timers whose bit changes are switched, and the others wait.         *)
LEMMA WriteControlStep ==
  ASSUME IInv, WriteControl
  PROVE  IInv' /\ \A i \in Timers : Ticking(i)!Next
<1>1. PICK cost \in Costs : Execute(cost, 0)
  BY DEF WriteControl, Access
<1>2. PICK on : timers' = [i \in Timers |-> SetEnable(timers[i], Now, i \in on)]
  BY DEF WriteControl
<1>3. seen' = seen /\ seen' \in [Timers -> 0..(Nibble - 1)]
  BY DEF WriteControl, IInv, TypeOK
<1> DEFINE n == cost + 0
<1>4. ASSUME NEW i \in Timers
      PROVE  \/ timers'[i] = timers[i]
             \/ /\ timers'[i] \in TimerType /\ timers'[i].iCycleSync = Now
                /\ View(timers'[i]) = Ticking(i)!Switch(Shown(timers[i], Now), i \in on)
  <2> DEFINE b == i \in on
  <2>1. b \in BOOLEAN /\ timers'[i] = SetEnable(timers[i], Now, b)
    BY <1>2
  <2> HIDE DEF b
  <2>2. CASE b = timers[i].bEnabled
    BY <2>1, <2>2 DEF SetEnable
  <2>3. CASE b # timers[i].bEnabled
    <3>1. /\ timers'[i] \in TimerType /\ timers'[i].iCycleSync = Now
          /\ View(timers'[i]) = Ticking(i)!Switch(Shown(timers[i], Now), b)
      BY <2>1, <2>3, SetEnableIs
    <3>2. QED
      BY <3>1 DEF b
  <2>4. QED
    BY <2>2, <2>3
<1>5. timers' \in [Timers -> TimerType]
  <2>1. \A i \in Timers : timers[i] \in TimerType
    BY DEF IInv, TypeOK
  <2>2. \A i \in Timers : timers'[i] \in TimerType
    BY <1>4, <2>1
  <2>3. QED
    BY <1>2, <2>2
<1> HIDE DEF n
<1>6. Instruction(n)
  BY <1>1, <1>3, <1>4, <1>5, ExecuteIs DEF Instruction, n
<1>7. ASSUME NEW i \in Timers PROVE Ticking(i)!Next
  <2>1. CASE timers'[i] = timers[i]
    BY <1>3, <1>6, <2>1, Waits
  <2>2. CASE /\ timers'[i] \in TimerType /\ timers'[i].iCycleSync = Now
             /\ View(timers'[i]) = Ticking(i)!Switch(Shown(timers[i], Now), i \in on)
    <3>1. View(timers'[i]) \in ViewType
      BY <2>2, ViewTyped
    <3>2. n \in Nat \ {0} /\ n \in 1..(2 * Half - 1)
      BY <1>6, HalfPositive DEF Instruction
    <3>3. Ticks(i, View(timers'[i]), n)
      BY <1>6, <2>2, InstructionTicks
    <3>4. Ticking(i)!Pass(Ticking(i)!Switch(Shown(timers[i], Now), i \in on), n)
      BY <2>2, <3>1, <3>2, <3>3, PassIs
    <3>5. Ticking(i)!SetOn(n)
      <4>1. (i \in on) \in BOOLEAN /\ seen'[i] = seen[i]
        BY <1>3
      <4>2. QED
        BY <3>4, <4>1 DEF Ticking!SetOn
    <3>6. QED
      BY <3>2, <3>5 DEF Ticking!Next
  <2>3. QED
    BY <1>4, <2>1, <2>2
<1>8. QED
  BY <1>6, <1>7, InstructionKeeps

-----------------------------------------------------------------------------
(* Steps between the instructions.                                         *)

(* A frame begins: the SPC gets cycles, and its clock stays.               *)
LEMMA BeginFrameStep ==
  ASSUME IInv, BeginFrame
  PROVE  IInv' /\ \A i \in Timers : UNCHANGED Ticking(i)!tvars
<1>1. PICK g \in Grants : total' = Signed(total + g) /\ cycles' = cycles + g
  BY DEF BeginFrame
<1>2. timers' = timers /\ seen' = seen /\ state' = state /\ pc = "idle" /\ pc' = "spc"
  BY DEF BeginFrame
<1>3. total \in Int /\ cycles \in Int /\ g \in Nat
  BY ClockAssumption DEF IInv, TypeOK
<1>4. total' \in Int /\ cycles' \in Int
  <2>1. total + g \in Int
    BY <1>3
  <2>2. QED
    BY <1>1, <1>3, <2>1, SignedTurns
<1>5. Now' = Now
  <2> DEFINE x == total + g
             y == -cycles'
  <2>1. x \in Int /\ y \in Int /\ x + y = total - cycles
    BY <1>1, <1>3
  <2>2. total' - cycles' = Signed(x) + y
    <3>1. total' - cycles' = total' + y
      BY <1>4
    <3>2. QED
      BY <1>1, <3>1
  <2> HIDE DEF x, y
  <2>3. Signed(Signed(x) + y) = Signed(x + y)
    BY <2>1, SignedSum
  <2>4. QED
    BY <2>1, <2>2, <2>3 DEF Now
<1>6. TypeOK'
  BY <1>2, <1>4 DEF IInv, TypeOK
<1>7. Rests(cycles, timers, Now)
  BY <1>2 DEF IInv
<1>8. Runs(cycles', timers', Now')
  <2>1. PICK cost \in Costs : cycles < cost
    BY <1>7 DEF Rests
  <2>2. cost \in Int /\ BranchExtra \in Nat
    BY ClockAssumption
  <2>3. cycles' < g + cost /\ cycles' >= -BranchExtra
    BY <1>1, <1>3, <1>7, <2>1, <2>2 DEF Rests
  <2>4. \A i \in Timers : timers[i].bEnabled => Age(timers[i], Now) = 0
    BY <1>7 DEF Rests
  <2>5. \A i \in Timers : timers'[i].bEnabled => /\ Age(timers'[i], Now') >= 0
                                                /\ Age(timers'[i], Now') + cycles' < g + cost
    BY <1>2, <1>4, <1>5, <2>3, <2>4
  <2>6. QED
    BY <2>3, <2>5 DEF Runs
<1>9. ASSUME NEW i \in Timers PROVE UNCHANGED Ticking(i)!tvars
  BY <1>2, <1>5 DEF Ticking!tvars
<1>10. QED
  BY <1>2, <1>6, <1>8, <1>9 DEF IInv

(* A frame ends: the timers are brought up to date, and show what they     *)
(* showed.                                                                 *)
LEMMA EndFrameStep ==
  ASSUME IInv, EndFrame
  PROVE  IInv' /\ \A i \in Timers : UNCHANGED Ticking(i)!tvars
<1>1. timers' = [i \in Timers |-> Sync(timers[i], Now)]
  BY DEF EndFrame
<1>2. seen' = seen /\ state' = state /\ pc = "spc" /\ pc' = "mix" /\ total' = total /\ cycles' = cycles
      /\ \E cost \in Costs : cycles < cost
  BY DEF EndFrame, spcvars
<1>3. Now' = Now /\ Now \in Int
  BY <1>2, NowTyped DEF Now, IInv
<1>4. TypeOK'
  <2>1. timers' \in [Timers -> TimerType]
    BY <1>1, Synced
  <2>2. QED
    BY <1>2, <2>1 DEF IInv, TypeOK
<1>5. ASSUME NEW i \in Timers
      PROVE  Age(timers'[i], Now) = 0 /\ Shown(timers'[i], Now) = Shown(timers[i], Now)
  <2> DEFINE t == timers'[i]
  <2>1. t \in TimerType /\ t.iCycleSync = Now
        /\ View(t) = Shown(timers[i], Now) /\ t.bEnabled = timers[i].bEnabled
    BY <1>1, Synced
  <2> HIDE DEF t
  <2>2. Signed(Now + 0) = Now
    BY <1>3, NowIsWord DEF IInv
  <2>3. 0 \in Nat /\ 0 < Half
    BY HalfPositive
  <2>4. Shown(t, Signed(Now + 0)) = Later(View(t), 0) /\ Age(t, Signed(Now + 0)) = 0
    BY <1>3, <2>1, <2>3, Touched
  <2>5. Later(Shown(timers[i], Now), 0) = Shown(timers[i], Now)
    <3> DEFINE s == timers[i]
               a == Age(s, Now)
    <3>1. s \in TimerType
      BY DEF IInv, TypeOK
    <3>2. CASE s.bEnabled
      <4>1. a \in Int /\ a >= 0
        BY <3>2, Ages
      <4>2. Shown(s, Now) = Later(View(s), a)
        BY <1>3, <3>1, <3>2, <4>1, SyncIs, ShownIs
      <4>3. View(s) \in ViewType /\ a \in Nat
        BY <3>1, <4>1, ViewTyped
      <4> HIDE DEF s, a
      <4>4. Later(Later(View(s), a), 0) = Later(View(s), a + 0)
        BY <4>3, LaterAdd
      <4>5. QED
        BY <4>2, <4>3, <4>4 DEF s
    <3>3. CASE ~ s.bEnabled
      <4>1. Shown(s, Now) = View(s)
        BY <1>3, <3>1, <3>3, SyncIs, ShownIs
      <4>2. QED
        BY <3>3, <4>1 DEF Later, View
    <3>4. QED
      BY <3>2, <3>3
  <2>6. QED
    BY <2>1, <2>2, <2>4, <2>5 DEF t
<1>6. Rests(cycles', timers', Now')
  BY <1>2, <1>3, <1>5 DEF Rests, IInv, Runs
<1>7. ASSUME NEW i \in Timers PROVE UNCHANGED Ticking(i)!tvars
  BY <1>2, <1>3, <1>5 DEF Ticking!tvars
<1>8. QED
  BY <1>2, <1>4, <1>6, <1>7 DEF IInv

(* Mixing does not concern the timers, nor does it when nothing happens.   *)
LEMMA MixStep ==
  ASSUME IInv, MixChunk \/ EndMix \/ UNCHANGED vars
  PROVE  IInv' /\ \A i \in Timers : UNCHANGED Ticking(i)!tvars
<1>1. timers' = timers /\ seen' = seen /\ state' = state /\ total' = total /\ cycles' = cycles
      /\ (pc' = pc \/ (pc = "mix" /\ pc' = "idle"))
  BY DEF MixChunk, EndMix, spcvars, vars
<1>2. Now' = Now
  BY <1>1 DEF Now
<1>3. IInv'
  BY <1>1, <1>2 DEF IInv, TypeOK
<1>4. ASSUME NEW i \in Timers PROVE UNCHANGED Ticking(i)!tvars
  BY <1>1, <1>2 DEF Ticking!tvars
<1>5. QED
  BY <1>3, <1>4

(* Saving keeps the clock and what the timers show.                        *)
LEMMA SaveStep ==
  ASSUME IInv, Save
  PROVE  IInv' /\ \A i \in Timers : Ticking(i)!Next
<1>1. timers' = timers /\ seen' = seen /\ total' = total /\ cycles' = cycles /\ pc' = pc /\ pc = "idle"
  BY DEF Save, spcvars
<1>2. state' # << >> /\ state'[1].total = total /\ state'[1].cycles = cycles
      /\ state'[1].timers = timers
  BY DEF Save
<1>3. Now' = Now
  BY <1>1 DEF Now
<1>4. StateTime(state'[1]) = Now
  BY <1>2 DEF StateTime, Now
<1>5. IInv'
  <2>1. TypeOK'
    BY <1>1, <1>2 DEF IInv, TypeOK
  <2>2. Rests(cycles, timers, Now)
    BY <1>1 DEF IInv
  <2>3. QED
    BY <1>1, <1>2, <1>3, <1>4, <2>1, <2>2 DEF IInv
<1>6. ASSUME NEW i \in Timers PROVE Ticking(i)!Next
  <2>1. Ticking(i)!Keep
    BY <1>1, <1>2, <1>3 DEF Ticking!Keep, Now
  <2>2. QED
    BY <2>1 DEF Ticking!Next
<1>7. QED
  BY <1>5, <1>6

(* Restoring brings both back.                                             *)
LEMMA RestoreStep ==
  ASSUME IInv, Restore
  PROVE  IInv' /\ \A i \in Timers : Ticking(i)!Next
<1>1. state # << >> /\ timers' = state[1].timers /\ total' = state[1].total
      /\ cycles' = state[1].cycles /\ seen' = seen /\ state' = state /\ pc' = pc /\ pc = "idle"
  BY DEF Restore
<1>2. Now' = StateTime(state[1])
  BY <1>1 DEF Now, StateTime
<1>3. IInv'
  <2>1. TypeOK'
    BY <1>1 DEF IInv, TypeOK
  <2>2. QED
    BY <1>1, <1>2, <2>1 DEF IInv
<1>4. ASSUME NEW i \in Timers PROVE Ticking(i)!Next
  <2>1. Ticking(i)!Bring
    BY <1>1, <1>2 DEF Ticking!Bring, StateTime
  <2>2. QED
    BY <2>1 DEF Ticking!Next
<1>5. QED
  BY <1>3, <1>4

-----------------------------------------------------------------------------
(* The machine at power-on and after Reset.                                *)

(* A new timer is one of SpcTimer.                                         *)
LEMMA NewTimerIs ==
  ASSUME NEW i \in Timers
  PROVE  NewTimer(i) \in TimerType /\ ~ NewTimer(i).bEnabled
         /\ Shown(NewTimer(i), 0) = Ticking(i)!Fresh
<1>1. Period(i, 0) \in Nat \ {0} /\ Ticking(i)!Period(0) = Period(i, 0)
  <2>1. \A a, b \in Nat \ {0} : a * b \in Nat \ {0}
    OBVIOUS
  <2>2. QED
    BY <2>1, TimerAssumption DEF Period, Ticking!Period
<1> DEFINE p == Period(i, 0)
<1> HIDE DEF p
<1>2. NewTimer(i) = [bEnabled |-> FALSE, uUpCounter |-> 0, iDivisor |-> p,
                     iCycleSync |-> 0, nElapsedCycles |-> 0]
  BY DEF NewTimer, p
<1>3. 0 \in 0..(Byte - 1) /\ 0 \in 0..(Nibble - 1) /\ Nibble \in Nat \ {0}
  BY TimerAssumption
<1>4. NewTimer(i) \in TimerType /\ NewTimer(i).bEnabled = FALSE
  BY <1>1, <1>2, <1>3 DEF TimerType, p
<1>5. Shown(NewTimer(i), 0) = View(NewTimer(i))
  BY <1>4, SyncIs, ShownIs
<1>6. 0 % Nibble = 0
  BY <1>3, ModSmall
<1> DEFINE t == NewTimer(i)
<1>7. View(t) = [on |-> FALSE, period |-> p, count |-> 0, up |-> 0]
  <2>1. t.bEnabled = FALSE /\ t.iDivisor = p /\ t.nElapsedCycles = 0 /\ t.uUpCounter = 0
    BY <1>2
  <2> HIDE DEF t
  <2>2. QED
    BY <1>6, <2>1 DEF View
<1>8. QED
  BY <1>1, <1>4, <1>5, <1>7 DEF Ticking!Fresh, p

(* The clock starts at 0.                                                  *)
LEMMA ZeroTime == Signed(0 - 0) = 0 /\ Unsigned(0) = 0
<1>1. Signed(0) = 0
  BY SignedSmall, HalfPositive
<1>2. 0 % (2 * Half) = 0
  BY ModSmall, HalfPositive
<1>3. QED
  BY <1>1, <1>2 DEF Unsigned

(* New timers are up to date.                                              *)
LEMMA Resting ==
  /\ [i \in Timers |-> NewTimer(i)] \in [Timers -> TimerType]
  /\ Rests(0, [i \in Timers |-> NewTimer(i)], 0)
<1>1. \E cost \in Costs : 0 < cost
  <2>1. PICK cost \in Costs : cost \in Nat \ {0}
    BY ClockAssumption
  <2>2. 0 < cost
    BY <2>1
  <2>3. QED
    BY <2>2
<1>2. 0 >= -BranchExtra
  BY ClockAssumption
<1>3. QED
  BY <1>1, <1>2, NewTimerIs DEF Rests

(* Reset restarts the timers.                                              *)
LEMMA ResetStep ==
  ASSUME IInv, Reset
  PROVE  IInv' /\ \A i \in Timers : Ticking(i)!Next
<1>1. timers' = [i \in Timers |-> NewTimer(i)] /\ total' = 0 /\ cycles' = 0
      /\ seen' = seen /\ state' = state /\ pc' = pc /\ pc = "idle"
  BY DEF Reset
<1>2. Now' = 0
  BY <1>1, ZeroTime DEF Now
<1>3. IInv'
  <2>1. TypeOK'
    BY <1>1, Resting DEF IInv, TypeOK
  <2>2. QED
    BY <1>1, <1>2, <2>1, Resting DEF IInv
<1>4. ASSUME NEW i \in Timers PROVE Ticking(i)!Next
  <2>1. Ticking(i)!Restart
    BY <1>1, <1>2, ZeroTime, NewTimerIs DEF Ticking!Restart
  <2>2. QED
    BY <2>1 DEF Ticking!Next
<1>5. QED
  BY <1>3, <1>4

(* So does power-on.                                                       *)
LEMMA InitIs ==
  ASSUME Init
  PROVE  IInv /\ \A i \in Timers : Ticking(i)!Init
<1>1. timers = [i \in Timers |-> NewTimer(i)] /\ total = 0 /\ cycles = 0 /\ pc = "idle"
      /\ seen = [i \in Timers |-> 0] /\ state = << >>
  BY DEF Init
<1>2. Now = 0
  BY <1>1, ZeroTime DEF Now
<1>3. 0 \in 0..(Nibble - 1)
  BY TimerAssumption
<1>4. IInv
  BY <1>1, <1>2, <1>3, Resting DEF IInv, TypeOK
<1>5. ASSUME NEW i \in Timers PROVE Ticking(i)!Init
  BY <1>1, <1>2, ZeroTime, NewTimerIs DEF Ticking!Init
<1>6. QED
  BY <1>4, <1>5

-----------------------------------------------------------------------------
(* The timers.                                                             *)

(* Every step keeps the invariant, and is a step of each timer or none.    *)
LEMMA StepIs ==
  ASSUME IInv, [Next]_vars
  PROVE  IInv' /\ \A i \in Timers : [Ticking(i)!Next]_(Ticking(i)!tvars)
<1>1. CASE Compute \/ WriteRam \/ WriteDsp \/ ReadDsp
  BY <1>1, ComputeStep
<1>2. CASE WriteControl
  BY <1>2, WriteControlStep
<1>3. CASE WriteTimer
  BY <1>3, WriteTimerStep
<1>4. CASE ReadTimer
  BY <1>4, ReadTimerStep
<1>5. CASE BeginFrame
  BY <1>5, BeginFrameStep
<1>6. CASE EndFrame
  BY <1>6, EndFrameStep
<1>7. CASE MixChunk \/ EndMix \/ UNCHANGED vars
  BY <1>7, MixStep
<1>8. CASE Save
  BY <1>8, SaveStep
<1>9. CASE Restore
  BY <1>9, RestoreStep
<1>10. CASE Reset
  BY <1>10, ResetStep
<1>11. QED
  BY <1>1, <1>2, <1>3, <1>4, <1>5, <1>6, <1>7, <1>8, <1>9, <1>10 DEF Next

(* The inductive invariant holds throughout.                               *)
THEOREM Invariance == Spec => []IInv
<1>1. Init => IInv
  BY InitIs
<1>2. IInv /\ [Next]_vars => IInv'
  BY StepIs
<1>3. QED
  BY <1>1, <1>2, PTL DEF Spec

(* Timers, the SPC's counters and the save state keep their types: cycles  *)
(* counted are never negative, although clocks wrap.                       *)
THEOREM TypeCorrect == Spec => []TypeOK
<1>1. IInv => TypeOK
  BY DEF IInv
<1>2. QED
  BY <1>1, Invariance, PTL

(* Whatever the frame's length, the instructions' costs, the timers' rates *)
(* and the width of the clock: timers brought up to date on access and at  *)
(* the frame's end cannot be told from timers that count every cycle.      *)
THEOREM TimersTickHolds == Spec => TimersTick
<1>1. Init => \A i \in Timers : Ticking(i)!Init
  BY InitIs
<1>2. IInv /\ [Next]_vars => [\A i \in Timers : [Ticking(i)!Next]_(Ticking(i)!tvars)]_vars
  BY StepIs
<1>3. QED
  BY <1>1, <1>2, Invariance, PTL DEF Spec, TimersTick

-----------------------------------------------------------------------------
(* The RAM under the boot ROM, and save states.                            *)

(* The RAM that is there, and the RAM a game thinks is there.              *)
Believed(b, gone) == IF gone THEN Rom ELSE b

(* The machine that goes on from a save state s, with the history of shot. *)
Saved(s, b, gone) ==
    [now |-> StateTime(s), left |-> s.cycles, timers |-> s.timers,
     mem |-> IF s.bRomEnable = 0 THEN s.SpcRam ELSE Rom, under |-> s.SpcRam,
     rom |-> s.bRomEnable, dsp |-> s.dsp, queue |-> << >>, ram |-> b, lost |-> gone]

RInv ==
    /\ bRomEnable \in {0, 1, 128} /\ (bRomEnable # 0 => mem = Rom)
    /\ Under = Believed(ram, lost)
    /\ pc = "idle" => queue = EmptyQueue
    /\ state # << >> =>
          /\ state[1].bRomEnable \in {0, 1, 128}
          /\ state[1].SpcRam = Believed(shot[1].ram, shot[1].lost)
          /\ shot[1] = Saved(state[1], shot[1].ram, shot[1].lost)

(* An instruction that leaves ROM and RAM alone.                           *)
LEMMA RomKept ==
  ASSUME RInv, UNCHANGED << romvars, state, shot >>, pc' = "idle" => queue' = EmptyQueue
  PROVE  RInv'
BY DEF RInv, romvars, Under, Saved, StateTime, Believed

(* The instructions that concern the ROM.                                  *)
LEMMA RomWritten ==
  ASSUME RInv, WriteControl \/ WriteRam
  PROVE  RInv'
<1>1. \E cost \in Costs : Execute(cost, 0)
  BY DEF WriteControl, WriteRam, Access
<1>2. pc' = "spc" /\ state' = state /\ shot' = shot
  BY <1>1 DEF Execute
<1>3. (state # << >> =>
          /\ state[1].bRomEnable \in {0, 1, 128}
          /\ state[1].SpcRam = Believed(shot[1].ram, shot[1].lost)
          /\ shot[1] = Saved(state[1], shot[1].ram, shot[1].lost))'
  BY <1>2 DEF RInv, Saved, StateTime, Believed
<1>4. bRomEnable' \in {0, 1, 128} /\ (bRomEnable' # 0 => mem' = Rom) /\ Under' = Believed(ram', lost')
  <2>1. CASE WriteControl
    <3>1. PICK bit \in {0, 128} : SetRomEnable(bit)
      BY <2>1 DEF WriteControl
    <3>2. ram' = ram /\ bRomEnable' = bit
          /\ mem' = RomSwitch(mem, shadow, bRomEnable, bit).mem
          /\ shadow' = RomSwitch(mem, shadow, bRomEnable, bit).shadow
      BY <3>1 DEF SetRomEnable
    <3>3. lost' <=> lost \/ (bRomEnable = 1 /\ bit = 128)
      BY <3>1, Zenon DEF SetRomEnable
    <3>4. mem' = (IF bit = bRomEnable THEN mem ELSE IF bit # 0 THEN Rom ELSE shadow)
          /\ shadow' = (IF bit # bRomEnable /\ bit # 0 THEN mem ELSE shadow)
      BY <3>2 DEF RomSwitch
    <3>5. Under' = Under \/ (bRomEnable = 1 /\ bit = 128 /\ Under' = Rom)
      BY <3>2, <3>4 DEF Under, RInv
    <3>6. Believed(ram', lost') = IF lost \/ (bRomEnable = 1 /\ bit = 128) THEN Rom ELSE ram
      BY <3>2, <3>3 DEF Believed
    <3>7. Under' = Believed(ram', lost')
      <4>1. CASE bRomEnable = 1 /\ bit = 128
        BY <3>2, <3>4, <3>6, <4>1 DEF Under, RInv
      <4>2. CASE ~ (bRomEnable = 1 /\ bit = 128)
        BY <3>5, <3>6, <4>2 DEF Believed, RInv
      <4>3. QED
        BY <4>1, <4>2
    <3>8. QED
      BY <3>2, <3>4, <3>7 DEF RInv
  <2>2. CASE WriteRam
    BY <2>2 DEF WriteRam, RInv, Under, Believed
  <2>3. QED
    BY <2>1, <2>2
<1>5. QED
  BY <1>2, <1>3, <1>4 DEF RInv

(* Saving disturbs nothing, and the RAM it saves is the RAM under the ROM. *)
LEMMA SaveIs ==
  ASSUME RInv, Save
  PROVE  RInv'
<1>1. mem' = mem /\ shadow' = shadow /\ SpcRam = Under
  BY DEF Save, RomSwitch, RInv, SpcRam, Under
<1>2. pc' = pc /\ pc = "idle" /\ bRomEnable' = bRomEnable /\ ram' = ram /\ lost' = lost
      /\ queue' = queue /\ queue.live = << >>
  BY DEF Save, RInv, EmptyQueue
<1>3. state' # << >> /\ shot'[1] = Machine
      /\ state'[1] = [total |-> total, granted |-> granted, cycles |-> cycles, timers |-> timers,
                      dsp |-> dsp, SpcRam |-> SpcRam, bRomEnable |-> bRomEnable]
  BY DEF Save
<1>4. Under' = Under
  BY <1>1, <1>2 DEF Under
<1>5. mem = IF bRomEnable = 0 THEN Under ELSE Rom
  BY DEF RInv, Under
<1>6. Machine = [now |-> Now, left |-> cycles, timers |-> timers, mem |-> mem, under |-> Under,
                 rom |-> bRomEnable, dsp |-> dsp, queue |-> << >>, ram |-> ram, lost |-> lost]
  BY <1>2 DEF Machine
<1>7. state'[1].total = total /\ state'[1].cycles = cycles /\ state'[1].timers = timers
      /\ state'[1].dsp = dsp /\ state'[1].SpcRam = SpcRam /\ state'[1].bRomEnable = bRomEnable
  BY <1>3
<1>8. shot'[1].ram = ram /\ shot'[1].lost = lost
  BY <1>3, <1>6
<1>9. StateTime(state'[1]) = Now
  BY <1>7 DEF StateTime, Now
<1>10. shot'[1] = Saved(state'[1], shot'[1].ram, shot'[1].lost)
  BY <1>1, <1>3, <1>5, <1>6, <1>7, <1>8, <1>9 DEF Saved
<1>11. state'[1].SpcRam = Believed(shot'[1].ram, shot'[1].lost)
  BY <1>1, <1>7, <1>8 DEF RInv, Believed
<1>12. QED
  BY <1>1, <1>2, <1>4, <1>7, <1>10, <1>11 DEF RInv

(* Restoring brings back the machine that was saved.                       *)
LEMMA RestoreIs ==
  ASSUME RInv, Restore
  PROVE  RInv' /\ Machine' = shot[1]
<1> DEFINE s == state[1]
<1>1. /\ state # << >> /\ state' = state /\ shot' = shot /\ pc' = pc /\ pc = "idle" /\ queue' = queue
      /\ total' = s.total /\ cycles' = s.cycles /\ timers' = s.timers /\ dsp' = s.dsp
      /\ bRomEnable' = s.bRomEnable /\ ram' = shot[1].ram /\ lost' = shot[1].lost
  BY DEF Restore
<1>2. /\ s.bRomEnable \in {0, 1, 128} /\ s.SpcRam = Believed(shot[1].ram, shot[1].lost)
      /\ shot[1] = Saved(s, shot[1].ram, shot[1].lost) /\ queue.live = << >>
  BY <1>1 DEF RInv, EmptyQueue
<1>3. mem' = (IF s.bRomEnable = 0 THEN s.SpcRam ELSE Rom) /\ Under' = s.SpcRam
  BY <1>1 DEF Restore, RomSwitch, Under
<1> HIDE DEF s
<1>4. Now' = StateTime(s)
  BY <1>1 DEF Now, StateTime
<1>5. Machine' = Saved(s, shot[1].ram, shot[1].lost)
  BY <1>1, <1>2, <1>3, <1>4 DEF Machine, Saved
<1>6. RInv'
  BY <1>1, <1>2, <1>3 DEF RInv, s, Saved, StateTime, Believed
<1>7. QED
  BY <1>2, <1>5, <1>6

(* Every step keeps RInv.                                                  *)
LEMMA RomStep ==
  ASSUME RInv, [Next]_vars
  PROVE  RInv'
<1>1. CASE Compute \/ WriteTimer \/ ReadTimer \/ WriteDsp \/ ReadDsp
  <2>1. \E cost \in Costs, extra \in {0, BranchExtra} : Execute(cost, extra)
    BY <1>1 DEF Compute, WriteTimer, ReadTimer, WriteDsp, ReadDsp, Access
  <2>2. pc' = "spc" /\ state' = state /\ shot' = shot
    BY <2>1 DEF Execute
  <2>3. UNCHANGED romvars
    BY <1>1 DEF Compute, WriteTimer, ReadTimer, WriteDsp, ReadDsp
  <2>4. QED
    BY <2>2, <2>3, RomKept
<1>2. CASE WriteControl \/ WriteRam
  BY <1>2, RomWritten
<1>3. CASE BeginFrame \/ EndFrame \/ MixChunk \/ EndMix
  <2>1. UNCHANGED << romvars, state, shot >> /\ (pc' = "idle" => queue' = EmptyQueue)
    BY <1>3 DEF BeginFrame, EndFrame, MixChunk, EndMix
  <2>2. QED
    BY <2>1, RomKept
<1>4. CASE Save
  BY <1>4, SaveIs
<1>5. CASE Restore
  BY <1>5, RestoreIs
<1>6. CASE Reset
  BY <1>6 DEF Reset, RInv, Under, Saved, StateTime, Believed
<1>7. CASE UNCHANGED vars
  BY <1>7, RomKept DEF vars, RInv
<1>8. QED
  BY <1>1, <1>2, <1>3, <1>4, <1>5, <1>6, <1>7 DEF Next

(* RInv holds throughout.                                                  *)
LEMMA RomInvariance == Spec => []RInv
<1>1. Init => RInv
  BY DEF Init, RInv, Under, Believed
<1>2. RInv /\ [Next]_vars => RInv'
  BY RomStep
<1>3. QED
  BY <1>1, <1>2, PTL DEF Spec

(* Neither the switch of the boot ROM nor save states lose RAM, but for    *)
(* the ROM that is switched on twice.                                      *)
THEOREM RamUnderRomHolds == Spec => []RamUnderRom
<1>1. RInv => RamUnderRom
  BY DEF RInv, RamUnderRom, Believed
<1>2. QED
  BY <1>1, RomInvariance, PTL

(* What RestoreState brings back is what SaveState found.                  *)
THEOREM RestoreGoesOnHolds == Spec => RestoreGoesOn
<1>1. RInv /\ [Next]_vars => [Restore => Machine' = shot[1]]_vars
  BY RestoreIs
<1>2. QED
  BY <1>1, RomInvariance, PTL DEF Spec, RestoreGoesOn

-----------------------------------------------------------------------------
(* The DSP's queue.                                                        *)

Element == [cycle : Nat, reg : {"KON", "KOFF", "FLG", "ENDX"}, data : SUBSET Voices]

(* Stamps do not decrease, once the frame's clock has reached 0.           *)
Ordered(live) ==
    /\ live \in Seq(Element)
    /\ \A k \in 1..Len(live) : \A j \in 1..k :
          Early(live[j]) \/ live[j].cycle <= live[k].cycle

(* The frame's clock is a word, and no stamp is later.                     *)
Stamped(live) ==
    /\ -Half <= FrameNow /\ granted + BranchExtra < Half
    /\ \A k \in 1..Len(live) : Early(live[k]) \/ live[k].cycle <= FrameNow

QInv ==
    /\ granted \in Int /\ uCycle \in Int
    /\ Ordered(queue.live)
    /\ pc = "spc" => Stamped(queue.live)
    /\ state # << >> => state[1].granted \in Int

(* Stamps are numbers.                                                     *)
LEMMA Stamps ==
  ASSUME NEW live, Ordered(live), NEW k \in 1..Len(live)
  PROVE  live[k].cycle \in Nat
<1>1. live[k] \in Element
  BY DEF Ordered
<1>2. QED
  BY <1>1 DEF Element

(* An empty queue is ordered.                                              *)
LEMMA EmptyOrdered == Ordered(EmptyQueue.live)
BY DEF EmptyQueue, Ordered

(* The frame's clock, when an instruction is done.                         *)
LEMMA StampsPast ==
  ASSUME IInv, QInv, NEW cost \in Costs, NEW extra \in {0, BranchExtra}, Execute(cost, extra)
  PROVE  /\ pc = "spc" /\ pc' = "spc" /\ state' = state /\ granted' = granted /\ granted \in Int
         /\ uCycle' = uCycle /\ FrameNow \in Int /\ FrameNow' \in Int /\ FrameNow < Half
         /\ FrameNow <= FrameNow' /\ Stamped(queue.live)
<1>1. cost \in Nat \ {0} /\ extra \in Nat /\ BranchExtra \in Nat /\ Half \in Int
  BY ClockAssumption
<1>2. cycles \in Int /\ granted \in Int /\ pc = "spc" /\ pc' = "spc" /\ state' = state
      /\ granted' = granted /\ uCycle' = uCycle /\ cycles' = cycles - cost - extra
      /\ Stamped(queue.live) /\ cycles >= cost
  BY DEF IInv, TypeOK, QInv, Execute
<1>3. FrameNow \in Int /\ FrameNow' \in Int /\ FrameNow <= FrameNow' /\ FrameNow < Half
  BY <1>1, <1>2 DEF FrameNow, Stamped
<1>4. QED
  BY <1>2, <1>3

(* An instruction that leaves an ordered queue of the past keeps QInv.     *)
LEMMA StampsKept ==
  ASSUME IInv, QInv, NEW cost \in Costs, NEW extra \in {0, BranchExtra}, Execute(cost, extra),
         Ordered(queue'.live),
         \A k \in 1..Len(queue'.live) :
            Early(queue'.live[k]) \/ queue'.live[k].cycle <= FrameNow
  PROVE  QInv'
<1> DEFINE live == queue'.live
<1>1. /\ pc = "spc" /\ pc' = "spc" /\ state' = state /\ granted' = granted /\ granted \in Int
      /\ uCycle' = uCycle /\ FrameNow \in Int /\ FrameNow' \in Int /\ FrameNow <= FrameNow'
      /\ Stamped(queue.live)
  BY StampsPast
<1>2. \A k \in 1..Len(live) : Early(live[k]) \/ live[k].cycle <= FrameNow'
  <2>1. \A k \in 1..Len(live) : live[k].cycle \in Int
    BY Stamps
  <2> HIDE DEF live
  <2>2. QED
    BY <1>1, <2>1 DEF live
<1>3. -Half <= FrameNow' /\ granted' + BranchExtra < Half
  BY <1>1, HalfPositive DEF Stamped
<1>4. Stamped(queue.live)'
  BY <1>2, <1>3 DEF Stamped, Early
<1>5. Ordered(queue.live)'
  BY DEF Ordered, Early
<1>6. QED
  BY <1>1, <1>4, <1>5 DEF QInv

(* Read without its sign, a clock is itself or later than every time.      *)
LEMMA StampIs ==
  ASSUME NEW x \in Int, -Half <= x, x < Half
  PROVE  Unsigned(x) \in Nat /\ (Unsigned(x) < Half => Unsigned(x) = x) /\ (x >= 0 => Unsigned(x) = x)
<1> DEFINE w == 2 * Half
<1>1. w \in Nat \ {0} /\ Half \in Nat \ {0}
  BY HalfPositive
<1>2. CASE x >= 0
  <2>1. x \in 0..(w - 1)
    BY <1>1, <1>2
  <2> HIDE DEF w
  <2>2. x % w = x
    BY <1>1, <2>1, ModSmall
  <2>3. QED
    BY <1>2, <2>2 DEF Unsigned, w
<1>3. CASE x < 0
  <2> DEFINE r == x + w
             q == -1
  <2>1. r \in 0..(w - 1) /\ q \in Int /\ x = w * q + r /\ r >= Half
    BY <1>1, <1>3
  <2> HIDE DEF w, r, q
  <2>2. x % w = r
    BY <1>1, <2>1, ModUnique
  <2>3. QED
    BY <1>1, <1>3, <2>1, <2>2 DEF Unsigned, w
<1>4. QED
  BY <1>2, <1>3

(* A write to the DSP, queued behind writes that are not later.            *)
LEMMA Queued ==
  ASSUME NEW live \in Seq(Element), NEW e \in Element, Ordered(live), NEW x \in Int,
         Early(e) \/ e.cycle <= x, x >= 0 => e.cycle = x,
         \A k \in 1..Len(live) : Early(live[k]) \/ live[k].cycle <= x
  PROVE  /\ Ordered(Append(live, e))
         /\ \A k \in 1..Len(Append(live, e)) :
               Early(Append(live, e)[k]) \/ Append(live, e)[k].cycle <= x
<1> DEFINE new == Append(live, e)
           n == Len(live)
<1>1. n \in Nat /\ Len(new) = n + 1 /\ new \in Seq(Element) /\ new[n + 1] = e
      /\ \A k \in 1..n : new[k] = live[k]
  OBVIOUS
<1>2. \A k \in 1..n : live[k].cycle \in Nat
  <2>1. \A k \in 1..n : live[k] \in Element
    OBVIOUS
  <2>2. QED
    BY <2>1 DEF Element
<1>3. e.cycle \in Nat
  BY DEF Element
<1>4. \A k \in 1..n : \A j \in 1..k : Early(live[j]) \/ live[j].cycle <= live[k].cycle
  BY DEF Ordered
<1> HIDE DEF new, n
<1>5. \A k \in 1..(n + 1) : Early(new[k]) \/ new[k].cycle <= x
  <2>1. \A k \in 1..n : Early(live[k]) \/ live[k].cycle <= x
    BY DEF n
  <2>2. QED
    BY <1>1, <2>1
<1>6. ASSUME NEW k \in 1..(n + 1), NEW j \in 1..k PROVE Early(new[j]) \/ new[j].cycle <= new[k].cycle
  <2>1. CASE k \in 1..n
    <3>1. j \in 1..n
      BY <1>1, <2>1
    <3>2. QED
      BY <1>1, <1>4, <2>1, <3>1
  <2>2. CASE k = n + 1
    <3>1. CASE j = n + 1
      BY <1>1, <1>3, <2>2, <3>1
    <3>2. CASE j \in 1..n
      <4>1. Early(new[j]) \/ new[j].cycle <= x
        BY <1>1, <1>5, <3>2
      <4>2. new[j].cycle \in Nat
        BY <1>1, <1>2, <3>2
      <4>3. new[k].cycle = e.cycle
        BY <1>1, <2>2
      <4>4. QED
        BY <4>1, <4>2, <4>3
    <3>3. QED
      BY <1>1, <2>2, <3>1, <3>2
  <2>3. QED
    BY <1>1, <2>1, <2>2
<1>7. Ordered(new)
  BY <1>1, <1>6 DEF Ordered
<1>8. QED
  BY <1>1, <1>5, <1>7 DEF new

(* A write to the DSP keeps the queue ordered.                             *)
LEMMA EnqueueKeeps ==
  ASSUME IInv, QInv, WriteDsp
  PROVE  QInv'
<1>1. PICK cost \in Costs : Execute(cost, 0)
  BY DEF WriteDsp, Access
<1>2. PICK w \in DspWrites : EnqueueWrite(w)
  BY DEF WriteDsp
<1> DEFINE e == [cycle |-> Unsigned(FrameNow), reg |-> w.reg, data |-> w.data]
<1>3. /\ FrameNow \in Int /\ FrameNow < Half /\ Stamped(queue.live)
  BY <1>1, StampsPast
<1>4. Unsigned(FrameNow) \in Nat /\ (Unsigned(FrameNow) < Half => Unsigned(FrameNow) = FrameNow)
      /\ (FrameNow >= 0 => Unsigned(FrameNow) = FrameNow)
  BY <1>3, StampIs DEF Stamped
<1>5. w.reg \in {"KON", "KOFF", "FLG", "ENDX"} /\ w.data \in SUBSET Voices
  BY DEF DspWrites
<1>6. e \in Element /\ e.cycle = Unsigned(FrameNow)
  BY <1>4, <1>5 DEF Element
<1>7. queue'.live = Append(queue.live, e) \/ queue'.live = Append(EmptyQueue.live, e)
  BY <1>2 DEF EnqueueWrite, Enqueue
<1>8. Early(e) \/ e.cycle <= FrameNow
  BY <1>3, <1>4, <1>6, HalfPositive DEF Early
<1> HIDE DEF e
<1>9. ASSUME NEW live, Ordered(live), queue'.live = Append(live, e),
             \A k \in 1..Len(live) : Early(live[k]) \/ live[k].cycle <= FrameNow
      PROVE  QInv'
  <2>1. live \in Seq(Element)
    BY <1>9 DEF Ordered
  <2>2. /\ Ordered(Append(live, e))
        /\ \A k \in 1..Len(Append(live, e)) :
               Early(Append(live, e)[k]) \/ Append(live, e)[k].cycle <= FrameNow
    BY <1>3, <1>4, <1>6, <1>8, <1>9, <2>1, Queued
  <2>3. QED
    BY <1>1, <1>9, <2>2, StampsKept
<1>10. CASE queue'.live = Append(queue.live, e)
  BY <1>3, <1>9, <1>10 DEF QInv, Stamped
<1>11. CASE queue'.live = Append(EmptyQueue.live, e)
  <2>1. \A k \in 1..Len(EmptyQueue.live) : FALSE
    BY DEF EmptyQueue
  <2>2. QED
    BY <1>9, <1>11, <2>1, EmptyOrdered
<1>12. QED
  BY <1>7, <1>10, <1>11

(* What is left of an ordered queue.                                       *)
LEMMA LeftOrdered ==
  ASSUME NEW live, Ordered(live), NEW n \in 0..Len(live)
  PROVE  LET left == SubSeq(live, n + 1, Len(live))
         IN /\ Ordered(left) /\ Len(left) = Len(live) - n
            /\ \A k \in 1..Len(left) : left[k] = live[n + k]
<1> DEFINE left == SubSeq(live, n + 1, Len(live))
<1>1. live \in Seq(Element) /\ Len(live) \in Nat /\ n \in Nat
  BY DEF Ordered
<1>2. /\ left \in Seq(Element) /\ Len(left) = Len(live) - n
      /\ \A k \in 1..Len(left) : left[k] = live[n + k]
  BY <1>1
<1>3. \A k \in 1..Len(live) : \A j \in 1..k : Early(live[j]) \/ live[j].cycle <= live[k].cycle
  BY DEF Ordered
<1> HIDE DEF left
<1>4. ASSUME NEW k \in 1..Len(left), NEW j \in 1..k
      PROVE  Early(left[j]) \/ left[j].cycle <= left[k].cycle
  <2>1. n + k \in 1..Len(live) /\ n + j \in 1..(n + k) /\ j \in 1..Len(left)
    BY <1>1, <1>2
  <2>2. left[k] = live[n + k] /\ left[j] = live[n + j]
    BY <1>2, <2>1
  <2>3. QED
    BY <1>3, <2>1, <2>2
<1>5. Ordered(left)
  BY <1>2, <1>4 DEF Ordered
<1>6. QED
  BY <1>2, <1>5 DEF left

(* A round of mixing leaves what is not due.                               *)
LEMMA ChunkIs ==
  ASSUME QInv, MixChunk
  PROVE  /\ QInv'
         /\ \A k \in 1..(Len(queue.live) - Len(queue'.live)) : queue.live[k].cycle < uCycle
         /\ \A k \in 1..Len(queue'.live) :
               queue'.live[k].cycle >= uCycle \/ Early(queue'.live[1])
<1> DEFINE live == queue.live
           left == queue'.live
<1>1. \E n \in 0..Len(live) : Due(n, uCycle) /\ left = SubSeq(live, n + 1, Len(live))
  <2>1. PICK n \in 0..Len(queue.live) :
           /\ Due(n, uCycle)
           /\ queue' = [head |-> queue.head + n, live |-> SubSeq(queue.live, n + 1, Len(queue.live))]
    BY Zenon DEF MixChunk
  <2>2. left = SubSeq(live, n + 1, Len(live))
    BY <2>1
  <2>3. QED
    BY <2>1, <2>2
<1>2. Ordered(live) /\ live \in Seq(Element) /\ Len(live) \in Nat /\ uCycle \in Int
  BY DEF QInv, Ordered
<1> HIDE DEF left, live
<1>3. PICK n \in 0..Len(live) : Due(n, uCycle) /\ left = SubSeq(live, n + 1, Len(live))
  BY <1>1
<1>4. /\ \A k \in 1..n : live[k].cycle < uCycle
      /\ n < Len(live) => live[n + 1].cycle >= uCycle
  BY <1>3 DEF Due, live
<1>5. /\ Ordered(left) /\ Len(left) = Len(live) - n
      /\ \A k \in 1..Len(left) : left[k] = live[n + k]
  BY <1>3, <1>2, LeftOrdered
<1>6. Len(live) - Len(left) = n
  BY <1>2, <1>5
<1>7. ASSUME NEW k \in 1..Len(left) PROVE left[k].cycle >= uCycle \/ Early(left[1])
  <2>1. 1 \in 1..Len(left) /\ 1 \in 1..k /\ n < Len(live) /\ n + 1 \in 1..Len(live)
    BY <1>2, <1>5
  <2>2. left[1].cycle >= uCycle
    BY <1>4, <1>5, <2>1
  <2>3. Early(left[1]) \/ left[1].cycle <= left[k].cycle
    BY <1>5, <2>1 DEF Ordered
  <2>4. left[1].cycle \in Nat /\ left[k].cycle \in Nat
    BY <1>5, <2>1, Stamps
  <2>5. QED
    BY <1>2, <2>2, <2>3, <2>4
<1>8. pc' = "mix" /\ granted' = granted /\ state' = state /\ uCycle' \in Int
  BY <1>2, ClockAssumption DEF MixChunk, spcvars
<1>9. Ordered(queue.live)'
  BY <1>5 DEF left, Ordered, Early
<1>10. QInv'
  BY <1>8, <1>9 DEF QInv
<1>11. QED
  BY <1>4, <1>6, <1>7, <1>10 DEF live, left

(* A frame begins with its clock within one instruction of 0.              *)
LEMMA StampsBegin ==
  ASSUME IInv, QInv, RInv, BeginFrame
  PROVE  QInv'
<1>1. PICK g \in Grants : granted' = g /\ cycles' = cycles + g
  BY DEF BeginFrame
<1>2. pc = "idle" /\ queue' = queue /\ queue = EmptyQueue /\ state' = state
      /\ uCycle' = uCycle
  BY DEF BeginFrame, RInv
<1>3. PICK cost \in Costs : cycles < cost /\ cycles >= -BranchExtra
  BY <1>2 DEF IInv, Rests
<1>4. g \in Nat /\ cost \in Nat \ {0} /\ BranchExtra \in Nat /\ Half \in Nat /\ g + cost + BranchExtra < Half
  BY ClockAssumption
<1>5. cycles \in Int
  BY DEF IInv, TypeOK
<1>6. -Half <= FrameNow' /\ granted' + BranchExtra < Half /\ granted' \in Int
  BY <1>1, <1>3, <1>4, <1>5 DEF FrameNow
<1>7. Len(queue'.live) = 0
  BY <1>2 DEF EmptyQueue
<1>8. Stamped(queue.live)'
  BY <1>6, <1>7 DEF Stamped
<1>9. Ordered(queue.live)'
  BY <1>2 DEF Ordered, QInv, Early
<1>10. QED
  BY <1>2, <1>6, <1>8, <1>9 DEF QInv

(* Every step keeps QInv.                                                  *)
LEMMA QueueStep ==
  ASSUME IInv, QInv, RInv, [Next]_vars
  PROVE  QInv'
<1>1. CASE Compute \/ WriteControl \/ WriteTimer \/ ReadTimer \/ WriteRam \/ ReadDsp
  <2>1. \E cost \in Costs, extra \in {0, BranchExtra} : Execute(cost, extra)
    BY <1>1 DEF Compute, WriteControl, WriteTimer, ReadTimer, WriteRam, ReadDsp, Access
  <2>2. PICK cost \in Costs, extra \in {0, BranchExtra} : Execute(cost, extra)
    BY <2>1
  <2>3. queue' = queue \/ queue' = EmptyQueue
    BY <1>1 DEF Compute, WriteControl, WriteTimer, ReadTimer, WriteRam, ReadDsp
  <2>4. Stamped(queue.live)
    BY <2>2, StampsPast
  <2>5. CASE queue' = queue
    BY <2>2, <2>4, <2>5, StampsKept DEF QInv, Stamped
  <2>6. CASE queue' = EmptyQueue
    <3>1. \A k \in 1..Len(queue'.live) : FALSE
      BY <2>6 DEF EmptyQueue
    <3>2. Ordered(queue'.live)
      BY <2>6, EmptyOrdered
    <3>3. QED
      BY <2>2, <3>1, <3>2, StampsKept
  <2>7. QED
    BY <2>3, <2>5, <2>6
<1>2. CASE WriteDsp
  BY <1>2, EnqueueKeeps
<1>3. CASE BeginFrame
  BY <1>3, StampsBegin
<1>4. CASE MixChunk
  BY <1>4, ChunkIs
<1>5. CASE EndFrame \/ EndMix \/ Save \/ Restore \/ Reset \/ UNCHANGED vars
  <2>1. /\ pc' = pc \/ pc' \in {"mix", "idle"}
        /\ pc' = "spc" => UNCHANGED << queue, granted, cycles, pc >>
    BY <1>5 DEF EndFrame, EndMix, Save, Restore, Reset, vars, spcvars
  <2>2. queue' = queue \/ queue' = EmptyQueue
    BY <1>5 DEF EndFrame, EndMix, Save, Restore, Reset, vars
  <2>3. Ordered(queue.live)'
    BY <2>2, EmptyOrdered DEF QInv, Ordered, Early
  <2>4. (pc = "spc" => Stamped(queue.live))'
    BY <2>1 DEF QInv, Stamped, FrameNow, Early
  <2>5. granted' \in Int /\ uCycle' \in Int /\ (state' # << >> => state'[1].granted \in Int)
    BY <1>5 DEF EndFrame, EndMix, Save, Restore, Reset, vars, spcvars, QInv
  <2>6. QED
    BY <2>3, <2>4, <2>5 DEF QInv
<1>6. QED
  BY <1>1, <1>2, <1>3, <1>4, <1>5 DEF Next

(* All three invariants hold throughout.                                   *)
LEMMA QueueInvariance == Spec => [](IInv /\ RInv /\ QInv)
<1>1. Init => QInv
  BY EmptyOrdered DEF Init, QInv
<1>2. IInv /\ RInv /\ QInv /\ [Next]_vars => QInv'
  BY QueueStep
<1>3. QED
  BY <1>1, <1>2, Invariance, RomInvariance, PTL DEF Spec
(* Mixing performs each DSP write in its chunk of the frame, whatever the  *)
(* size of the queue, but for the writes stamped before the frame's clock  *)
(* reached 0, and those behind them.                                       *)
THEOREM DspOnTimeHolds == Spec => DspOnTime
<1>1. QInv /\ [Next]_vars =>
        [MixChunk => LET left == queue'.live
                     IN /\ \A k \in 1..(Len(queue.live) - Len(left)) : queue.live[k].cycle < uCycle
                        /\ \A k \in 1..Len(left) : left[k].cycle >= uCycle \/ Early(left[1])]_vars
  BY ChunkIs
<1>2. QED
  BY <1>1, QueueInvariance, PTL DEF Spec, DspOnTime

=============================================================================
