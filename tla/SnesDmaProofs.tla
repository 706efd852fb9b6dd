---------------------------- MODULE SnesDmaProofs ----------------------------
(***************************************************************************)
(* Proofs about SnesDma for every number of channels, width of address and *)
(* byte count, buffer, pattern and cost of a byte.                         *)
(***************************************************************************)
EXTENDS SnesDma, Arithmetic

USE SizeAssumption, InputAssumption

(* RoundUp gives the first multiple of k that is not below n.              *)
LEMMA RoundUpFacts ==
  ASSUME NEW n \in Nat \ {0}, NEW k \in Nat \ {0}
  PROVE  /\ RoundUp(n, k) \in Nat \ {0}
         /\ n <= RoundUp(n, k) /\ RoundUp(n, k) < n + k
         /\ RoundUp(n, k) % k = 0
         /\ RoundUp(n, k) \div k \in Nat \ {0}
         /\ RoundUp(n, k) = k * (RoundUp(n, k) \div k)
<1> DEFINE p == (n + k - 1) \div k
           x == (n + k - 1) % k
           z == RoundUp(n, k)
<1>1. p \in Int /\ x \in 0..(k - 1) /\ n + k - 1 = k * p + x
  <2>1. n + k - 1 \in Int
    OBVIOUS
  <2>2. QED
    BY <2>1, DivMod
<1>2. z = k * p
  BY <1>1 DEF RoundUp
<1> HIDE DEF p, x, z
<1>3. z \in Int /\ n <= z /\ z < n + k
  BY <1>1, <1>2
<1>4. z % k = 0
  <2>1. z = k * p + 0 /\ 0 \in 0..(k - 1)
    BY <1>1, <1>2
  <2>2. p \in Int /\ z \in Int
    BY <1>1, <1>3
  <2>3. QED
    BY <2>1, <2>2, ModUnique
<1>5. z \div k \in Int /\ z = k * (z \div k)
  BY <1>3, <1>4, DivMod
<1>6. z \div k > 0
  <2> DEFINE d == z \div k
  <2>1. d \in Int /\ z = k * d
    BY <1>5
  <2> HIDE DEF d
  <2>2. SUFFICES ASSUME d <= 0 PROVE FALSE
    BY <2>1 DEF d
  <2>3. PICK m \in Nat : d = -m
    BY <2>1, <2>2
  <2>4. k * m >= 0 /\ k * d = -(k * m)
    BY <2>3
  <2>5. QED
    BY <1>3, <2>1, <2>4
<1>7. QED
  BY <1>3, <1>4, <1>5, <1>6 DEF z

-----------------------------------------------------------------------------
(* The byte count and the chunk.                                           *)

(* A channel is never started for nothing, and dasx is what is left of     *)
(* its count in sixteen bits.                                              *)
LEMMA CountFacts ==
  ASSUME NEW das \in Word
  PROVE  Count(das) \in 1..Width /\ das = Count(das) % Width
<1>1. Count(das) \in 1..Width
  BY DEF Count, Word
<1>2. CASE das = 0
  <2>1. Width = Width * 1 + 0 /\ 0 \in 0..(Width - 1) /\ Width \in Int
    OBVIOUS
  <2>2. Width % Width = 0
    BY <2>1, ModUnique
  <2>3. QED
    BY <1>1, <1>2, <2>2 DEF Count
<1>3. CASE das # 0
  BY <1>1, <1>3, ModSmall DEF Count, Word
<1>4. QED
  BY <1>2, <1>3

(* Taking n bytes off dasx leaves 0 exactly when they were all.            *)
LEMMA DoneFacts ==
  ASSUME NEW das \in Word, NEW n \in 1..Count(das)
  PROVE  /\ Wrap(das - n) \in Word
         /\ Done(das, n) <=> n = Count(das)
         /\ n # Count(das) => Count(Wrap(das - n)) = Count(das) - n
         /\ n = Count(das) => Wrap(das - n) = 0
<1>1. Count(das) \in 1..Width /\ das - n \in Int
  BY CountFacts DEF Word
<1> DEFINE d == das - n
           q == IF das = 0 THEN -1 ELSE 0
           r == IF n = Count(das) THEN 0 ELSE Count(das) - n
<1>2. d \in Int /\ r \in 0..(Width - 1) /\ q \in Int
  BY <1>1
<1>3. d = Width * q + r
  <2>1. CASE das = 0
    BY <1>1, <2>1 DEF Count, Word
  <2>2. CASE das # 0
    BY <1>1, <2>2 DEF Count, Word
  <2>3. QED
    BY <2>1, <2>2
<1> HIDE DEF d, q, r
<1>4. d % Width = r
  BY <1>2, <1>3, ModUnique
<1>5. Wrap(das - n) = r
  BY <1>4 DEF Wrap, d
<1>6. r \in Word /\ (r = 0 <=> n = Count(das)) /\ (n # Count(das) => Count(r) = Count(das) - n)
  BY <1>1 DEF r, Count, Word
<1>7. QED
  BY <1>5, <1>6 DEF Done, r

(* What the slice pays for: at least one pattern, less than one pattern    *)
(* more than its cycles, and whole patterns.                               *)
LEMMA AffordableFacts ==
  ASSUME cycles \in Int, cycles > 0
  PROVE  /\ Affordable \in Nat \ {0}
         /\ Affordable * ByteCycles < cycles + Unit * ByteCycles
         /\ Affordable % Unit = 0
<1> DEFINE c == RoundUp(cycles, ByteCycles)
           r == c \div ByteCycles
<1>1. c < cycles + ByteCycles /\ r \in Nat \ {0} /\ c = ByteCycles * r /\ c \in Nat
  BY RoundUpFacts
<1> HIDE DEF c, r
<1>2. Affordable = RoundUp(r, Unit)
  BY DEF Affordable, r, c
<1>3. Affordable \in Nat \ {0} /\ Affordable < r + Unit /\ Affordable % Unit = 0
  BY <1>1, <1>2, RoundUpFacts
<1>4. Affordable * ByteCycles < cycles + Unit * ByteCycles
  <2>1. PICK k \in Nat : Affordable = r + Unit - 1 - k
    <3>1. r + Unit - 1 - Affordable \in Nat
      BY <1>1, <1>3
    <3>2. QED
      BY <1>1, <1>3, <3>1
  <2>2. Affordable * ByteCycles = ByteCycles * r + Unit * ByteCycles - ByteCycles - k * ByteCycles
    BY <1>1, <2>1
  <2>3. k * ByteCycles \in Nat
    BY <2>1
  <2>4. QED
    BY <1>1, <2>2, <2>3
<1>5. QED
  BY <1>3, <1>4

(* A set of numbers that has a least element has it as its Min.            *)
LEMMA MinFacts ==
  ASSUME NEW S, NEW m \in S, \A x \in S : m <= x
  PROVE  Min(S) \in S /\ \A x \in S : Min(S) <= x
BY DEF Min

(* Four numbers, and so three, have a least one.                           *)
LEMMA LeastOfFour ==
  ASSUME NEW a \in Nat, NEW b \in Nat, NEW c \in Nat, NEW d \in Nat
  PROVE  \E m \in {a, b, c, d} : \A x \in {a, b, c, d} : m <= x
<1>1. \E m \in {a, b} : m <= a /\ m <= b
  OBVIOUS
<1>2. \E m \in {c, d} : m <= c /\ m <= d
  OBVIOUS
<1>3. PICK m \in {a, b}, k \in {c, d} : m <= a /\ m <= b /\ k <= c /\ k <= d
  BY <1>1, <1>2
<1>4. CASE m <= k
  <2>1. \A x \in {a, b, c, d} : m <= x
    BY <1>3, <1>4
  <2>2. QED
    BY <1>3, <2>1
<1>5. CASE k < m
  <2>1. \A x \in {a, b, c, d} : k <= x
    BY <1>3, <1>5
  <2>2. QED
    BY <1>3, <2>1
<1>6. QED
  BY <1>3, <1>4, <1>5

(* A chunk is never empty, never more than is left, and cut by less than a *)
(* pattern after the slice.  Where it ends neither the channel nor the     *)
(* bank, it is a number of whole patterns.                                 *)
LEMMA ChunkFacts ==
  ASSUME NEW ch \in Channel, cycles \in Int, cycles > 0
  PROVE  /\ Chunk(ch) \in 1..Count(ch.das)
         /\ Chunk(ch) * ByteCycles < cycles + Unit * ByteCycles
         /\ \/ Chunk(ch) = Count(ch.das)
            \/ Chunk(ch) % Unit = 0
            \/ ch.step = 1 /\ Chunk(ch) = Width - ch.a1t
<1> DEFINE S == {Count(ch.das), BufferSize, Affordable} \cup (IF ch.step = 1 THEN {Width - ch.a1t} ELSE {})
<1>1. Count(ch.das) \in Nat \ {0} /\ ch.a1t \in Word /\ Width - ch.a1t \in Nat \ {0}
  BY CountFacts DEF Channel, Word
<1>2. /\ Affordable \in Nat \ {0} /\ Affordable % Unit = 0
      /\ Affordable * ByteCycles < cycles + Unit * ByteCycles
  BY AffordableFacts
<1>3. S \subseteq Nat \ {0}
  BY <1>1, <1>2
<1>4. \E m \in S : \A x \in S : m <= x
  <2>1. CASE ch.step = 1
    <3> DEFINE e == Width - ch.a1t
               f == Count(ch.das)
    <3>1. S = {f, BufferSize, Affordable, e} /\ e \in Nat /\ f \in Nat
      BY <1>1, <2>1
    <3> HIDE DEF S, e, f
    <3>2. QED
      BY <1>2, <3>1, LeastOfFour
  <2>2. CASE ch.step # 1
    <3> DEFINE f == Count(ch.das)
    <3>1. S = {f, BufferSize, Affordable, Affordable} /\ f \in Nat
      BY <1>1, <2>2
    <3> HIDE DEF S, f
    <3>2. QED
      BY <1>2, <3>1, LeastOfFour
  <2>3. QED
    BY <2>1, <2>2
<1>5. Chunk(ch) = Min(S)
  BY DEF Chunk
<1>6. Chunk(ch) \in S /\ \A x \in S : Chunk(ch) <= x
  BY <1>4, <1>5, MinFacts
<1>7. Chunk(ch) \in 1..Count(ch.das) /\ Chunk(ch) <= Affordable
  BY <1>1, <1>3, <1>6
<1>8. Chunk(ch) * ByteCycles < cycles + Unit * ByteCycles
  <2>1. PICK k \in Nat : Chunk(ch) = Affordable - k
    <3>1. Affordable - Chunk(ch) \in Nat
      BY <1>2, <1>7
    <3>2. QED
      BY <1>2, <1>7, <3>1
  <2>2. Chunk(ch) * ByteCycles = Affordable * ByteCycles - k * ByteCycles
    BY <1>2, <2>1
  <2>3. k * ByteCycles \in Nat /\ Affordable * ByteCycles \in Nat
    BY <1>2, <2>1
  <2>4. QED
    BY <1>2, <2>2, <2>3
<1>9. QED
  BY <1>2, <1>6, <1>7, <1>8

-----------------------------------------------------------------------------
(* The inductive invariant.                                                *)

(* Inside a transfer loop the slice is not used up, and the loop is the    *)
(* one for the channel's direction.                                        *)
Serving ==
    pc \in {"write", "read"} =>
        cycles > 0 /\ uChan \in enable /\ (pc = "read" <=> chan[uChan].read)

(* What dasx says is left is what is missing from the bytes asked for.     *)
Ledger ==
    /\ \A c \in Channels : sent[c] <= want[c]
    /\ \A c \in enable \ hit : want[c] - sent[c] = Count(chan[c].das)
    /\ \A c \in Channels \ (enable \cup hit) : sent[c] = want[c] /\ chan[c].das = 0

(* The address has moved one step for every byte.                          *)
Addresses ==
    \A c \in Channels \ hit :
        chan[c].a1t = (chan[c].from + chan[c].step * sent[c]) % Width

IInv == TypeOK /\ Serving /\ LowestFirst /\ OverrunBounded /\ Ledger /\ Addresses /\ PatternInPhase

(* Initially nothing is enabled.                                           *)
LEMMA InitIInv == Init => IInv
<1> SUFFICES ASSUME Init PROVE IInv
  OBVIOUS
<1>1. 0 \in Word /\ Idle \in Channel
  BY DEF Word, Channel, Idle
<1>2. TypeOK /\ Serving /\ LowestFirst /\ Ledger /\ PatternInPhase
  BY <1>1 DEF Init, TypeOK, Serving, LowestFirst, Ledger, PatternInPhase, Channels, Idle
<1>3. OverrunBounded
  <2>1. Unit * ByteCycles \in Nat \ {0}
    OBVIOUS
  <2>2. QED
    BY <2>1 DEF Init, OverrunBounded
<1>4. Addresses
  BY <1>1, ModSmall DEF Init, Addresses, Idle, Word
<1>5. QED
  BY <1>2, <1>3, <1>4 DEF IInv

(* A game starts a DMA on any set of channels.                             *)
LEMMA StartKeeps == IInv /\ Start => IInv'
<1> SUFFICES ASSUME IInv, Start PROVE IInv'
  OBVIOUS
<1> USE DEF IInv
<1>1. PICK S \in SUBSET Channels \ {{}}, s \in Sources, n \in Sizes, r \in BOOLEAN, i \in {1, 0, -1} :
        /\ enable' = S
        /\ chan' = [c \in Channels |->
                      IF c \in S THEN [read |-> r, step |-> i, from |-> s, a1t |-> s, das |-> n] ELSE Idle]
        /\ want' = [c \in Channels |-> IF c \in S THEN Count(n) ELSE 0]
        /\ sent' = [c \in Channels |-> 0]
        /\ hit' = {}
  BY DEF Start
<1>2. s \in Word /\ n \in Word /\ 0 \in Word /\ Count(n) \in 1..Width
  BY CountFacts DEF Word
<1>3. pc' = "cpu" /\ cycles' = cycles /\ uChan' = uChan
  BY DEF Start
<1>4. TypeOK'
  <2>1. [read |-> r, step |-> i, from |-> s, a1t |-> s, das |-> n] \in Channel /\ Idle \in Channel
    BY <1>2 DEF Channel, Idle
  <2>2. chan' \in [Channels -> Channel]
    BY <1>1, <2>1
  <2>3. want' \in [Channels -> 0..Width] /\ sent' \in [Channels -> 0..Width]
    BY <1>1, <1>2
  <2>4. QED
    BY <1>1, <1>3, <2>2, <2>3 DEF TypeOK
<1>5. Serving' /\ LowestFirst' /\ OverrunBounded'
  BY <1>3 DEF Serving, LowestFirst, OverrunBounded
<1>6. Ledger'
  BY <1>1, <1>2 DEF Ledger, Idle
<1>7. Addresses'
  <2>1. \A c \in Channels : chan'[c].a1t \in Word /\ chan'[c].from = chan'[c].a1t
                            /\ chan'[c].step \in {1, 0, -1} /\ sent'[c] = 0
    BY <1>1, <1>2 DEF Idle
  <2>2. QED
    BY <2>1, ModSmall DEF Addresses, Word
<1>8. PatternInPhase'
  <2>1. \A c \in Channels : sent'[c] = 0
    BY <1>1
  <2>2. 0 % Unit = 0
    BY ModSmall
  <2>3. QED
    BY <1>1, <2>1, <2>2 DEF PatternInPhase
<1>9. QED
  BY <1>4, <1>5, <1>6, <1>7, <1>8

(* HDMA takes dasx of a channel for itself: the channel is excused.        *)
LEMMA HdmaKeeps == IInv /\ HdmaOverwrites => IInv'
<1> SUFFICES ASSUME IInv, HdmaOverwrites PROVE IInv'
  OBVIOUS
<1> USE DEF IInv
<1>1. PICK c \in enable \ hit, n \in Sizes : chan' = [chan EXCEPT ![c].das = n] /\ hit' = hit \cup {c}
  BY DEF HdmaOverwrites
<1>2. /\ pc = "cpu" /\ pc' = pc /\ enable' = enable /\ cycles' = cycles
      /\ uChan' = uChan /\ want' = want /\ sent' = sent
  BY DEF HdmaOverwrites
<1>3. c \in Channels /\ n \in Word
  BY DEF TypeOK
<1>4. chan[c] \in Channel
  BY <1>3 DEF TypeOK
<1>5. [chan[c] EXCEPT !.das = n] \in Channel
  BY <1>3, <1>4 DEF Channel
<1>6. chan' \in [Channels -> Channel]
  BY <1>1, <1>5 DEF TypeOK
<1>7. TypeOK'
  BY <1>1, <1>2, <1>3, <1>6 DEF TypeOK
<1>8. Serving' /\ LowestFirst' /\ OverrunBounded'
  BY <1>2 DEF Serving, LowestFirst, OverrunBounded
<1>9. \A k \in Channels \ hit' : k \notin hit /\ chan'[k] = chan[k]
  BY <1>1 DEF TypeOK
<1>10. Ledger' /\ Addresses' /\ PatternInPhase'
  BY <1>1, <1>2, <1>7, <1>9 DEF Ledger, Addresses, PatternInPhase, TypeOK
<1>11. QED
  BY <1>7, <1>8, <1>10

(* A slice begins, a channel is chosen, ProcessMDMA returns: no byte moves.*)
LEMMA SchedulingKeeps == IInv /\ (Slice \/ Return \/ NextChannel \/ ServeChannel) => IInv'
<1> SUFFICES ASSUME IInv, Slice \/ Return \/ NextChannel \/ ServeChannel PROVE IInv'
  OBVIOUS
<1> USE DEF IInv
<1>1. enable' = enable /\ chan' = chan /\ want' = want /\ sent' = sent /\ hit' = hit
  BY DEF Slice, Return, NextChannel, ServeChannel
<1>2. Ledger' /\ Addresses' /\ PatternInPhase'
  BY <1>1 DEF Ledger, Addresses, PatternInPhase
<1>3. Unit * ByteCycles \in Nat \ {0} /\ cycles \in Int /\ cycles > -(Unit * ByteCycles)
  BY DEF TypeOK, OverrunBounded
<1>4. CASE Slice
  <2>1. PICK n \in Slices : cycles' = cycles + n
    BY <1>4 DEF Slice
  <2>2. n \in Nat \ {0}
    OBVIOUS
  <2>3. pc' \in {"cpu", "mdma"} /\ uChan' \in 0..NumChannels /\ (pc' # "cpu" => uChan' = 0)
    BY <1>4 DEF Slice, FirstChannel, TypeOK
  <2>4. TypeOK' /\ OverrunBounded' /\ Serving'
    BY <1>1, <1>3, <2>1, <2>2, <2>3 DEF TypeOK, OverrunBounded, Serving
  <2>5. LowestFirst'
    BY <1>1, <2>3 DEF LowestFirst, TypeOK, Channels
  <2>6. QED
    BY <1>2, <2>4, <2>5
<1>5. CASE Return
  <2>1. pc' = "cpu" /\ cycles' \in Int /\ cycles' > -(Unit * ByteCycles) /\ uChan' = uChan
    BY <1>3, <1>5 DEF Return
  <2>2. QED
    BY <1>1, <1>2, <2>1 DEF TypeOK, OverrunBounded, Serving, LowestFirst
<1>6. CASE NextChannel
  <2>1. pc = "mdma" /\ pc' = pc /\ cycles' = cycles /\ uChan' = uChan + 1
    BY <1>6 DEF NextChannel
  <2>2. \A c \in enable : c \in 0..(NumChannels - 1) /\ uChan + 1 <= c
    BY <1>6 DEF NextChannel, LowestFirst, TypeOK, Channels
  <2>3. PICK c \in enable : TRUE
    BY <1>6 DEF NextChannel
  <2>4. uChan + 1 \in 0..NumChannels
    BY <2>2, <2>3 DEF TypeOK
  <2>5. QED
    BY <1>1, <1>2, <2>1, <2>2, <2>4 DEF TypeOK, OverrunBounded, Serving, LowestFirst
<1>7. CASE ServeChannel
  <2>1. /\ pc = "mdma" /\ cycles > 0 /\ uChan \in enable /\ cycles' = cycles /\ uChan' = uChan
        /\ pc' = IF chan[uChan].read THEN "read" ELSE "write"
    BY <1>7 DEF ServeChannel
  <2>2. QED
    BY <1>1, <1>2, <2>1 DEF TypeOK, OverrunBounded, Serving, LowestFirst
<1>8. QED
  BY <1>4, <1>5, <1>6, <1>7

(* Address and count may be reduced to sixteen bits at every step.         *)
LEMMA WrapAdd == \A p, q \in Int : ((p % Width) + q) % Width = (p + q) % Width
BY ModAdd

(* A transfer that is not read upwards past the end of its bank.           *)
Within(c) == ~chan[c].read /\ (chan[c].step # 1 \/ chan[c].from + want[c] <= Width)

(* Any number of bytes a loop may move in one round keeps the invariant,   *)
(* if it is paid for and, inside a bank, ends at a pattern.                *)
LEMMA TransferKeeps ==
  ASSUME IInv, pc \in {"write", "read"},
         NEW n \in 1..Count(chan[uChan].das),
         n * ByteCycles < cycles + Unit * ByteCycles,
         uChan \notin hit /\ Within(uChan) => n % Unit = 0 \/ n = Count(chan[uChan].das),
         Transfer(n)
  PROVE  IInv'
<1> USE DEF IInv
<1> DEFINE u == uChan
           ch == chan[u]
<1>1. u \in enable /\ u \in Channels /\ cycles > 0 /\ cycles \in Int
  BY DEF Serving, TypeOK
<1>2. ch \in Channel /\ ch.das \in Word /\ ch.a1t \in Word /\ ch.from \in Word /\ ch.step \in {1, 0, -1}
  BY <1>1 DEF TypeOK, Channel
<1>3. Count(ch.das) \in 1..Width /\ n \in Nat \ {0}
  BY <1>2, CountFacts
<1>4. /\ chan' = [chan EXCEPT ![u].a1t = Wrap(ch.a1t + ch.step * n), ![u].das = Wrap(ch.das - n)]
      /\ cycles' = cycles - n * ByteCycles
      /\ sent' = IF u \in hit THEN sent ELSE [sent EXCEPT ![u] = @ + n]
      /\ uChan' = uChan /\ want' = want /\ hit' = hit
  BY DEF Transfer
<1>5. /\ Wrap(ch.das - n) \in Word
      /\ Done(ch.das, n) <=> n = Count(ch.das)
      /\ n # Count(ch.das) => Count(Wrap(ch.das - n)) = Count(ch.das) - n
      /\ n = Count(ch.das) => Wrap(ch.das - n) = 0
  BY <1>2, DoneFacts
<1>6. /\ enable' = IF n = Count(ch.das) THEN enable \ {u} ELSE enable
      /\ pc' = IF n = Count(ch.das) \/ cycles' <= 0 THEN "mdma" ELSE pc
  BY <1>5 DEF Transfer
<1>7. /\ \A c \in Channels \ {u} : chan'[c] = chan[c] /\ sent'[c] = sent[c]
      /\ chan'[u] = [ch EXCEPT !.a1t = Wrap(ch.a1t + ch.step * n), !.das = Wrap(ch.das - n)]
      /\ sent'[u] = IF u \in hit THEN sent[u] ELSE sent[u] + n
  BY <1>1, <1>4 DEF TypeOK
<1>8. Wrap(ch.a1t + ch.step * n) \in Word
  <2>1. ch.a1t + ch.step * n \in Int
    BY <1>2, <1>3 DEF Word
  <2>2. QED
    BY <2>1, DivMod DEF Wrap, Word
<1>9. /\ chan'[u] \in Channel /\ chan'[u].das = Wrap(ch.das - n)
      /\ chan'[u].a1t = Wrap(ch.a1t + ch.step * n)
      /\ chan'[u].from = ch.from /\ chan'[u].step = ch.step /\ chan'[u].read = ch.read
  BY <1>2, <1>5, <1>7, <1>8 DEF Channel
<1>10. /\ \A c \in Channels : sent[c] \in Nat /\ want[c] \in 0..Width /\ sent[c] <= want[c]
       /\ u \notin hit => want[u] - sent[u] = Count(ch.das)
  BY <1>1 DEF Ledger, TypeOK
<1> HIDE DEF u, ch
<1>11. \A c \in Channels : sent'[c] \in 0..Width /\ sent'[c] <= want'[c]
  <2>1. \A c \in Channels \ {u} : sent'[c] \in 0..Width /\ sent'[c] <= want'[c]
    BY <1>4, <1>7, <1>10
  <2>2. sent'[u] \in 0..Width /\ sent'[u] <= want'[u]
    BY <1>1, <1>3, <1>4, <1>7, <1>10 DEF u, ch
  <2>3. QED
    BY <2>1, <2>2
<1>12. TypeOK'
  <2>1. chan' \in [Channels -> Channel]
    <3>1. \A c \in Channels : chan'[c] \in Channel
      BY <1>7, <1>9 DEF TypeOK
    <3>2. QED
      BY <1>4, <3>1 DEF TypeOK
  <2>2. sent' \in [Channels -> 0..Width]
    BY <1>4, <1>11 DEF TypeOK
  <2>3. cycles' \in Int
    BY <1>1, <1>3, <1>4
  <2>4. QED
    BY <1>4, <1>6, <2>1, <2>2, <2>3 DEF TypeOK
<1>13. OverrunBounded'
  <2>1. Unit * ByteCycles \in Int /\ n * ByteCycles \in Int
    BY <1>3
  <2>2. QED
    BY <1>1, <1>4, <2>1 DEF OverrunBounded
<1>14. Serving' /\ LowestFirst'
  BY <1>1, <1>4, <1>6, <1>9 DEF Serving, LowestFirst, u, ch
<1>15. Ledger'
  <2>1. \A c \in enable' \ hit' : want'[c] - sent'[c] = Count(chan'[c].das)
    <3>1. ASSUME NEW c \in enable' \ hit', c # u PROVE want'[c] - sent'[c] = Count(chan'[c].das)
      BY <1>4, <1>6, <1>7, <3>1 DEF Ledger, TypeOK
    <3>2. ASSUME u \in enable' \ hit' PROVE want'[u] - sent'[u] = Count(chan'[u].das)
      <4>1. u \notin hit /\ n # Count(ch.das)
        BY <1>4, <1>6, <3>2
      <4>2. sent'[u] = sent[u] + n /\ want'[u] = want[u] /\ want[u] - sent[u] = Count(ch.das)
        BY <1>4, <1>7, <1>10, <4>1
      <4>3. Count(chan'[u].das) = Count(ch.das) - n
        BY <1>5, <1>9, <4>1
      <4>4. QED
        BY <1>1, <1>3, <1>10, <4>2, <4>3 DEF u, ch
    <3>3. QED
      BY <3>1, <3>2
  <2>2. \A c \in Channels \ (enable' \cup hit') : sent'[c] = want'[c] /\ chan'[c].das = 0
    <3>1. ASSUME NEW c \in Channels \ (enable' \cup hit'), c # u
          PROVE  sent'[c] = want'[c] /\ chan'[c].das = 0
      BY <1>4, <1>6, <1>7, <3>1 DEF Ledger
    <3>2. ASSUME u \notin enable', u \notin hit' PROVE sent'[u] = want'[u] /\ chan'[u].das = 0
      <4>1. u \notin hit /\ n = Count(ch.das)
        BY <1>1, <1>4, <1>6, <3>2
      <4>2. sent'[u] = sent[u] + n /\ want'[u] = want[u] /\ want[u] - sent[u] = Count(ch.das)
        BY <1>4, <1>7, <1>10, <4>1
      <4>3. QED
        BY <1>1, <1>3, <1>5, <1>9, <1>10, <4>1, <4>2
    <3>3. QED
      BY <3>1, <3>2
  <2>3. QED
    BY <1>11, <2>1, <2>2 DEF Ledger
<1>16. Addresses'
  <2>1. ASSUME NEW c \in Channels \ hit', c # u
        PROVE  chan'[c].a1t = (chan'[c].from + chan'[c].step * sent'[c]) % Width
    BY <1>4, <1>7, <2>1 DEF Addresses
  <2>2. ASSUME u \notin hit'
        PROVE  chan'[u].a1t = (chan'[u].from + chan'[u].step * sent'[u]) % Width
    <3> DEFINE x == ch.from + ch.step * sent[u]
               y == ch.step * n
    <3>1. u \notin hit /\ sent'[u] = sent[u] + n /\ ch.a1t = x % Width
      BY <1>1, <1>4, <1>7, <2>2 DEF Addresses, ch
    <3>2. x \in Int /\ y \in Int /\ ch.from + ch.step * (sent[u] + n) = x + y
      BY <1>1, <1>2, <1>3, <1>10 DEF Word, u, ch
    <3>3. chan'[u].a1t = ((x % Width) + y) % Width
      BY <1>9, <3>1 DEF Wrap
    <3> HIDE DEF x, y
    <3>4. ((x % Width) + y) % Width = (x + y) % Width
      BY <3>2, WrapAdd
    <3>5. QED
      BY <1>9, <3>1, <3>2, <3>3, <3>4
  <2>3. QED
    BY <2>1, <2>2 DEF Addresses
<1>17. PatternInPhase'
  <2>1. ASSUME NEW c \in enable' \ hit', c # u,
               ~chan'[c].read /\ (chan'[c].step # 1 \/ chan'[c].from + want'[c] <= Width)
        PROVE  sent'[c] % Unit = 0
    BY <1>4, <1>6, <1>7, <2>1 DEF PatternInPhase, TypeOK
  <2>2. ASSUME u \in enable' \ hit',
               ~chan'[u].read /\ (chan'[u].step # 1 \/ chan'[u].from + want'[u] <= Width)
        PROVE  sent'[u] % Unit = 0
    <3>1. u \notin hit /\ n # Count(ch.das) /\ Within(u)
      BY <1>4, <1>6, <1>9, <2>2 DEF Within, ch
    <3>2. n % Unit = 0 /\ sent[u] % Unit = 0 /\ sent'[u] = sent[u] + n
      BY <1>1, <1>7, <3>1 DEF PatternInPhase, Within, u, ch
    <3>3. sent[u] \in Int /\ n \in Int /\ Unit \in Nat \ {0}
      BY <1>1, <1>3, <1>10, SizeAssumption
    <3>4. (sent[u] + n) % Unit = 0
      <4> HIDE DEF u
      <4>1. QED
        BY <3>2, <3>3, ModZero
    <3>5. QED
      BY <3>2, <3>4
  <2>3. QED
    BY <2>1, <2>2 DEF PatternInPhase
<1>18. QED
  BY <1>12, <1>13, <1>14, <1>15, <1>16, <1>17

(* A chunk cut at the end of the bank, in a transfer that stays inside its *)
(* bank, is the last one.                                                  *)
LEMMA WriteKeeps == IInv /\ WriteChunk => IInv'
<1> SUFFICES ASSUME IInv, WriteChunk PROVE IInv'
  OBVIOUS
<1> DEFINE u == uChan
           ch == chan[u]
           n == Chunk(ch)
<1>1. pc = "write" /\ u \in enable /\ u \in Channels /\ cycles > 0 /\ cycles \in Int /\ ch \in Channel
  BY DEF WriteChunk, IInv, Serving, TypeOK
<1>2. /\ n \in 1..Count(ch.das)
      /\ n * ByteCycles < cycles + Unit * ByteCycles
      /\ n = Count(ch.das) \/ n % Unit = 0 \/ (ch.step = 1 /\ n = Width - ch.a1t)
  BY <1>1, ChunkFacts
<1>3. Count(ch.das) \in 1..Width /\ ch.a1t \in Word /\ ch.from \in Word
  BY <1>1, CountFacts DEF Channel
<1>4. ASSUME u \notin hit, Within(u) PROVE n % Unit = 0 \/ n = Count(ch.das)
  <2>1. SUFFICES ASSUME ch.step = 1, n = Width - ch.a1t PROVE n = Count(ch.das)
    BY <1>2
  <2>2. want[u] - sent[u] = Count(ch.das) /\ sent[u] \in Nat /\ want[u] \in Nat
    BY <1>1, <1>4 DEF IInv, Ledger, TypeOK
  <2>3. ch.from + want[u] <= Width
    BY <1>4, <2>1 DEF Within
  <2>4. ch.from + ch.step * sent[u] \in 0..(Width - 1)
    BY <1>3, <2>1, <2>2, <2>3 DEF Word
  <2>5. ch.a1t = ch.from + sent[u]
    <3>1. ch.a1t = (ch.from + ch.step * sent[u]) % Width
      BY <1>1, <1>4 DEF IInv, Addresses
    <3>2. (ch.from + ch.step * sent[u]) % Width = ch.from + ch.step * sent[u]
      BY <2>4, ModSmall
    <3>3. QED
      BY <2>1, <2>2, <3>1, <3>2
  <2>6. QED
    BY <1>2, <1>3, <2>1, <2>2, <2>3, <2>5 DEF Word
<1>5. Transfer(n)
  BY DEF WriteChunk
<1> HIDE DEF n
<1>6. QED
  BY <1>1, <1>2, <1>4, <1>5, TransferKeeps

(* A read moves one byte.                                                  *)
LEMMA ReadKeeps == IInv /\ ReadByte => IInv'
<1> SUFFICES ASSUME IInv, ReadByte PROVE IInv'
  OBVIOUS
<1>1. /\ pc = "read" /\ Transfer(1) /\ uChan \in Channels /\ cycles > 0 /\ cycles \in Int
      /\ chan[uChan] \in Channel /\ chan[uChan].read
  BY DEF ReadByte, IInv, Serving, TypeOK
<1>2. 1 \in 1..Count(chan[uChan].das)
  BY <1>1, CountFacts DEF Channel
<1>3. 1 * ByteCycles < cycles + Unit * ByteCycles
  <2>1. PICK k \in Nat : Unit = 1 + k
    <3>1. Unit - 1 \in Nat
      OBVIOUS
    <3>2. QED
      BY <3>1
  <2>2. Unit * ByteCycles = ByteCycles + k * ByteCycles /\ k * ByteCycles \in Nat
    BY <2>1
  <2>3. QED
    BY <1>1, <2>2
<1>4. ~Within(uChan)
  BY <1>1 DEF Within
<1>5. QED
  BY <1>1, <1>2, <1>3, <1>4, TransferKeeps

(* Every step keeps the invariant.                                         *)
LEMMA NextIInv == IInv /\ [Next]_vars => IInv'
<1> SUFFICES ASSUME IInv, [Next]_vars PROVE IInv'
  OBVIOUS
<1>1. CASE Next
  BY <1>1, StartKeeps, HdmaKeeps, SchedulingKeeps, WriteKeeps, ReadKeeps DEF Next
<1>2. CASE UNCHANGED vars
  BY <1>2 DEF vars, IInv, TypeOK, Serving, LowestFirst, OverrunBounded, Ledger, Addresses, PatternInPhase
<1>3. QED
  BY <1>1, <1>2

-----------------------------------------------------------------------------
(* The invariant holds in every reachable state.                           *)
LEMMA Invariant == Spec => []IInv
BY InitIInv, NextIInv, PTL DEF Spec

(* Types are kept: a1tx and dasx stay in sixteen bits, the channel index   *)
(* never leaves the channels by more than one, and no channel is ever sent *)
(* more bytes than a bank holds.                                           *)
THEOREM TypeCorrect == Spec => []TypeOK
<1>1. IInv => TypeOK
  BY DEF IInv
<1>2. QED
  BY <1>1, Invariant, PTL

(* Channels are served in order, and ProcessMDMA's assertion that the      *)
(* index is a channel's holds wherever it transfers.                       *)
THEOREM ServedLowestFirst == Spec => []LowestFirst
<1>1. IInv => LowestFirst
  BY DEF IInv
<1>2. QED
  BY <1>1, Invariant, PTL

(* However large the buffer and the counts, a DMA runs over the slice it   *)
(* was given by less than one B-bus pattern.                               *)
THEOREM OverrunIsBounded == Spec => []OverrunBounded
<1>1. IInv => OverrunBounded
  BY DEF IInv
<1>2. QED
  BY <1>1, Invariant, PTL

(* A transfer moves exactly what it was asked for, from consecutive        *)
(* addresses, wherever slices, buffer and bank cut it.                     *)
THEOREM TransfersAreExact == Spec => []TransferExact
<1>1. IInv => TransferExact
  <2> SUFFICES ASSUME IInv, NEW c \in Channels \ hit
               PROVE  /\ c \in enable <=> sent[c] < want[c]
                      /\ chan[c].das = (want[c] - sent[c]) % Width \/ want[c] = 0
                      /\ chan[c].a1t = (chan[c].from + chan[c].step * sent[c]) % Width
    BY DEF TransferExact
  <2>1. chan[c].das \in Word /\ sent[c] \in Nat /\ want[c] \in Nat
    BY DEF IInv, TypeOK, Channel
  <2>2. Count(chan[c].das) \in 1..Width /\ chan[c].das = Count(chan[c].das) % Width
    BY <2>1, CountFacts
  <2>3. chan[c].a1t = (chan[c].from + chan[c].step * sent[c]) % Width
    BY DEF IInv, Addresses
  <2>4. CASE c \in enable
    <3>1. want[c] - sent[c] = Count(chan[c].das)
      BY <2>4 DEF IInv, Ledger
    <3>2. QED
      BY <2>1, <2>2, <2>3, <2>4, <3>1
  <2>5. CASE c \notin enable
    <3>1. sent[c] = want[c] /\ chan[c].das = 0
      BY <2>5 DEF IInv, Ledger
    <3>2. 0 % Width = 0
      BY ModSmall
    <3>3. QED
      BY <2>1, <2>3, <2>5, <3>1, <3>2
  <2>6. QED
    BY <2>4, <2>5
<1>2. QED
  BY <1>1, Invariant, PTL

(* A write transfer that stays inside its bank is cut only between         *)
(* patterns, for every buffer that holds whole patterns.                   *)
THEOREM PatternsStayInPhase == Spec => []PatternInPhase
<1>1. IInv => PatternInPhase
  BY DEF IInv
<1>2. QED
  BY <1>1, Invariant, PTL
=============================================================================
