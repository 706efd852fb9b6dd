---------------------------- MODULE SnesHdmaProofs ----------------------------
(***************************************************************************)
(* Proofs about SnesHdma for every table, unit and length of a frame: the  *)
(* walk of the channel's registers follows the meaning of the table.       *)
(***************************************************************************)
EXTENDS SnesHdma, Arithmetic

USE HdmaAssumption

-----------------------------------------------------------------------------
(* Count bytes.                                                            *)

Bytes == 0..(2 * Half - 1)

(* Memory holds bytes.                                                     *)
LEMMA PeekFacts ==
  ASSUME TypeOK, NEW a \in Nat
  PROVE  Peek(a) \in Bytes /\ Peek(a) \in Nat
<1>1. Bytes \subseteq Nat /\ 0 \in Bytes /\ CountBytes \subseteq Bytes
  BY DEF Bytes
<1>2. CASE a < TableSize
  <2>1. a \in 0..(TableSize - 1)
    BY <1>2
  <2>2. table[a] \in CountBytes
    BY <2>1 DEF TypeOK
  <2>3. QED
    BY <1>1, <1>2, <2>2 DEF Peek
<1>3. CASE ~ (a < TableSize)
  BY <1>1, <1>3 DEF Peek
<1>4. QED
  BY <1>2, <1>3

(* The low bits of a byte.                                                 *)
LEMMA LowBits ==
  ASSUME NEW b \in Bytes
  PROVE  b % Half = IF b < Half THEN b ELSE b - Half
<1>1. CASE b < Half
  BY <1>1, ModSmall DEF Bytes
<1>2. CASE b >= Half
  <2> DEFINE r == b - Half
             one == 1
  <2>1. r \in 0..(Half - 1) /\ one \in Int /\ b \in Int /\ b = Half * one + r
    BY <1>2 DEF Bytes
  <2> HIDE DEF r, one
  <2>2. b % Half = r
    BY <2>1, ModUnique
  <2>3. QED
    BY <1>2, <2>2 DEF r, Bytes
<1>3. QED
  BY <1>1, <1>2 DEF Bytes

(* An entry holds for at least one line.  After j of them ntlrx is b - j:  *)
(* its low bits are 0 exactly when the entry is used up, and until then    *)
(* its high bit is the repeat bit of the byte.                             *)
LEMMA CountDown ==
  ASSUME NEW b \in Bytes, b # 0
  PROVE  /\ Lines(b) \in Nat \ {0} /\ Sends(b) \in Nat \ {0}
         /\ \A j \in 1..Lines(b) :
               /\ b - j \in Bytes
               /\ (b - j) % Half = 0 <=> j = Lines(b)
               /\ Skipped(b - j) <=> ~Repeats(b)
<1>1. Lines(b) = IF b <= Half THEN b ELSE b - Half
  BY LowBits DEF Lines, Bytes
<1>2. Lines(b) \in Nat \ {0} /\ Sends(b) \in Nat \ {0}
  BY <1>1 DEF Sends, Bytes
<1>3. ASSUME NEW j \in 1..Lines(b)
      PROVE  /\ b - j \in Bytes
             /\ (b - j) % Half = 0 <=> j = Lines(b)
             /\ Skipped(b - j) <=> ~Repeats(b)
  <2>1. b - j \in Bytes
    BY <1>1, <1>3 DEF Bytes
  <2>2. (b - j) % Half = IF b - j < Half THEN b - j ELSE b - j - Half
    BY <2>1, LowBits
  <2>3. QED
    BY <1>1, <1>3, <2>1, <2>2 DEF Skipped, Repeats, Bytes
<1>4. QED
  BY <1>2, <1>3

-----------------------------------------------------------------------------
(* The entries of a table.                                                 *)

Extent == [at : Nat, line : Nat]

(* Where the entry behind e lies.                                          *)
Following(e) ==
    LET b == Peek(e.at)
    IN IF b = 0 THEN e
       ELSE [at |-> e.at + 1 + (IF indirect THEN 2 ELSE unit * Sends(b)),
             line |-> e.line + Lines(b)]

FirstEntry == [at |-> 0, line |-> 0]

(* The entry behind an entry is an entry.                                  *)
LEMMA FollowingType ==
  ASSUME TypeOK, NEW e \in Extent
  PROVE  Following(e) \in Extent
<1> DEFINE b == Peek(e.at)
<1>1. e.at \in Nat /\ e.line \in Nat /\ b \in Bytes /\ unit \in Nat
  BY PeekFacts DEF Extent, TypeOK
<1>2. CASE b = 0
  BY <1>2 DEF Following
<1>3. CASE b # 0
  <2>1. Lines(b) \in Nat /\ Sends(b) \in Nat
    BY <1>1, <1>3, CountDown
  <2>2. unit * Sends(b) \in Nat
    BY <1>1, <2>1
  <2> HIDE DEF b
  <2>3. e.at + 1 + (IF indirect THEN 2 ELSE unit * Sends(b)) \in Nat /\ e.line + Lines(b) \in Nat
    BY <1>1, <2>1, <2>2
  <2>4. QED
    BY <1>3, <2>3 DEF Following, Extent, b
<1>4. QED
  BY <1>2, <1>3

(* The equation a function meets that lists the entries up to the k-th.    *)
Meets(f, k) == f[k] = IF k = 0 THEN FirstEntry ELSE Following(f[k - 1])

(* The recursive definition of Entry defines a function: the least n for   *)
(* which no function lists the entries up to the n-th would have one,      *)
(* extended from the function for n - 1.                                   *)
LEMMA EntryDefined ==
  ASSUME TypeOK
  PROVE  /\ Entry \in [0..FrameLines -> Extent]
         /\ \A k \in 0..FrameLines : Meets(Entry, k)
<1> DEFINE Lists(f, n) == f \in [0..FrameLines -> Extent] /\ \A k \in 0..n : Meets(f, k)
           S == {n \in 0..FrameLines : ~ \E f : Lists(f, n)}
<1>1. FirstEntry \in Extent
  BY DEF FirstEntry, Extent
<1>2. S = {}
  <2>1. SUFFICES ASSUME S # {} PROVE FALSE
    OBVIOUS
  <2>2. S \in SUBSET Nat
    OBVIOUS
  <2> HIDE DEF S
  <2>3. PICK n \in S : \A x \in S : n <= x
    BY <2>1, <2>2, NatLeast
  <2> USE DEF S
  <2>4. n \in 0..FrameLines /\ ~ \E f : Lists(f, n)
    BY <2>3
  <2>5. CASE n = 0
    <3> DEFINE f == [k \in 0..FrameLines |-> FirstEntry]
    <3>1. f \in [0..FrameLines -> Extent]
      BY <1>1
    <3>2. \A k \in 0..0 : Meets(f, k)
      BY DEF Meets
    <3>3. QED
      BY <2>4, <2>5, <3>1, <3>2
  <2>6. CASE n # 0
    <3>1. n - 1 \in 0..FrameLines /\ n - 1 \notin S
      <4>1. n - 1 \in 0..FrameLines /\ ~ (n <= n - 1)
        BY <2>4, <2>6
      <4> HIDE DEF S
      <4>2. n - 1 \notin S
        BY <2>3, <4>1
      <4>3. QED
        BY <4>1, <4>2
    <3>2. PICK f : Lists(f, n - 1)
      BY <3>1
    <3> DEFINE g == [f EXCEPT ![n] = Following(f[n - 1])]
    <3>3. f[n - 1] \in Extent
      BY <3>1, <3>2
    <3>4. g \in [0..FrameLines -> Extent]
      BY <2>4, <3>2, <3>3, FollowingType
    <3>5. \A k \in 0..n : Meets(g, k)
      <4>1. ASSUME NEW k \in 0..(n - 1) PROVE Meets(g, k)
        BY <2>4, <3>2, <4>1 DEF Meets
      <4>2. Meets(g, n)
        BY <2>4, <2>6, <3>1, <3>2 DEF Meets
      <4>3. \A k \in 0..n : k \in 0..(n - 1) \/ k = n
        BY <2>4
      <4>4. QED
        BY <4>1, <4>2, <4>3
    <3>6. QED
      BY <2>4, <3>4, <3>5
  <2>7. QED
    BY <2>5, <2>6
<1>3. PICK f : Lists(f, FrameLines)
  <2>1. FrameLines \in 0..FrameLines
    OBVIOUS
  <2>2. FrameLines \notin S
    <3> HIDE DEF S
    <3>1. QED
      BY <1>2
  <2>3. QED
    BY <2>1, <2>2
<1>4. f = [k \in 0..FrameLines |->
             IF k = 0 THEN [at |-> 0, line |-> 0]
             ELSE LET e == f[k - 1]
                      b == Peek(e.at)
                  IN IF b = 0 THEN e
                     ELSE [at |-> e.at + 1 + (IF indirect THEN 2 ELSE unit * Sends(b)),
                           line |-> e.line + Lines(b)]]
  BY <1>3 DEF Meets, Following, FirstEntry
<1>5. Entry = [k \in 0..FrameLines |->
             IF k = 0 THEN [at |-> 0, line |-> 0]
             ELSE LET e == Entry[k - 1]
                      b == Peek(e.at)
                  IN IF b = 0 THEN e
                     ELSE [at |-> e.at + 1 + (IF indirect THEN 2 ELSE unit * Sends(b)),
                           line |-> e.line + Lines(b)]]
  BY <1>4 DEF Entry
<1>6. \A k \in 0..FrameLines : Meets(Entry, k)
  BY <1>5 DEF Meets, Following, FirstEntry
<1>7. Entry \in [0..FrameLines -> Extent]
  <2> DEFINE B == {n \in 0..FrameLines : Entry[n] \notin Extent}
  <2>1. B = {}
    <3>1. SUFFICES ASSUME B # {} PROVE FALSE
      OBVIOUS
    <3>2. B \in SUBSET Nat
      OBVIOUS
    <3> HIDE DEF B
    <3>3. PICK n \in B : \A x \in B : n <= x
      BY <3>1, <3>2, NatLeast
    <3>4. n \in 0..FrameLines /\ Entry[n] \notin Extent
      BY DEF B
    <3>5. Meets(Entry, n)
      BY <1>6, <3>4
    <3>6. n # 0
      BY <1>1, <3>4, <3>5 DEF Meets
    <3>7. n - 1 \in 0..FrameLines /\ ~ (n <= n - 1)
      BY <3>4, <3>6
    <3>8. Entry[n - 1] \in Extent
      BY <3>3, <3>7 DEF B
    <3>9. QED
      BY <3>4, <3>5, <3>6, <3>8, FollowingType DEF Meets
  <2>2. \A n \in 0..FrameLines : Entry[n] \in Extent
    BY <2>1
  <2> DEFINE body(k) == IF k = 0 THEN [at |-> 0, line |-> 0]
             ELSE LET e == Entry[k - 1]
                      b == Peek(e.at)
                  IN IF b = 0 THEN e
                     ELSE [at |-> e.at + 1 + (IF indirect THEN 2 ELSE unit * Sends(b)),
                           line |-> e.line + Lines(b)]
  <2>3. Entry = [k \in 0..FrameLines |-> body(k)]
    BY <1>5
  <2> HIDE DEF body
  <2>4. QED
    BY <2>2, <2>3
<1>8. QED
  BY <1>6, <1>7

(* Entries lie one behind the other: a later one begins where an earlier   *)
(* one has ended, and behind the end of the table there is nothing else.   *)
LEMMA EntriesInOrder ==
  ASSUME TypeOK, NEW k \in 0..FrameLines, NEW j \in 0..FrameLines, k < j
  PROVE  IF Peek(Entry[k].at) = 0 THEN Entry[j] = Entry[k]
         ELSE Entry[j].line >= Entry[k].line + Lines(Peek(Entry[k].at))
<1> DEFINE Behind(i) == IF Peek(Entry[k].at) = 0 THEN Entry[i] = Entry[k]
                        ELSE Entry[i].line >= Entry[k].line + Lines(Peek(Entry[k].at))
           S == {i \in 0..FrameLines : k < i /\ ~ Behind(i)}
<1>1. \A i \in 0..FrameLines : Entry[i] \in Extent /\ Entry[i].at \in Nat /\ Entry[i].line \in Nat
  BY EntryDefined DEF Extent
<1>2. \A i \in 0..FrameLines : i # 0 => Entry[i] = Following(Entry[i - 1])
  BY EntryDefined DEF Meets
<1>3. \A i \in 0..FrameLines : Peek(Entry[i].at) # 0 => Lines(Peek(Entry[i].at)) \in Nat \ {0}
  BY <1>1, PeekFacts, CountDown
<1>4. S = {}
  <2>1. SUFFICES ASSUME S # {} PROVE FALSE
    OBVIOUS
  <2>2. S \in SUBSET Nat
    OBVIOUS
  <2> HIDE DEF S
  <2>3. PICK n \in S : \A x \in S : n <= x
    BY <2>1, <2>2, NatLeast
  <2>4. n \in 0..FrameLines /\ k < n /\ ~ Behind(n)
    BY DEF S
  <2>5. n - 1 \in 0..FrameLines /\ k <= n - 1 /\ n # 0 /\ ~ (n <= n - 1)
    BY <2>4
  <2>6. n - 1 # k => Behind(n - 1)
    BY <2>3, <2>5 DEF S
  <2> DEFINE e == Entry[n - 1]
             b == Peek(e.at)
  <2>7. Entry[n] = Following(e)
    BY <1>2, <2>4, <2>5
  <2>8. Entry[n] = e \/ (b # 0 /\ Entry[n].line = e.line + Lines(b))
    BY <2>7 DEF Following
  <2>9. b = 0 => Entry[n] = e
    BY <2>7 DEF Following
  <2>10. CASE n - 1 = k
    BY <1>1, <2>4, <2>5, <2>7, <2>10 DEF Following
  <2>11. CASE n - 1 # k
    <3>1. Behind(n - 1)
      BY <2>6, <2>11
    <3>2. CASE Peek(Entry[k].at) = 0
      BY <2>4, <2>9, <3>1, <3>2
    <3>3. CASE Peek(Entry[k].at) # 0
      <4>1. e.line >= Entry[k].line + Lines(Peek(Entry[k].at))
        BY <3>1, <3>3
      <4>2. Entry[n].line >= e.line
        BY <1>1, <1>3, <2>5, <2>8
      <4>3. Entry[k].line \in Nat /\ Lines(Peek(Entry[k].at)) \in Nat /\ e.line \in Nat /\ Entry[n].line \in Nat
        BY <1>1, <1>3, <2>4, <2>5, <3>3
      <4> HIDE DEF e, b
      <4>4. Entry[n].line >= Entry[k].line + Lines(Peek(Entry[k].at))
        BY <4>1, <4>2, <4>3
      <4>5. QED
        BY <2>4, <3>3, <4>4
    <3>4. QED
      BY <3>2, <3>3
  <2>12. QED
    BY <2>10, <2>11
<1>5. Behind(j)
  <2>1. j \notin S
    <3> HIDE DEF S
    <3>1. QED
      BY <1>4
  <2>2. QED
    BY <2>1
<1>6. QED
  BY <1>5

Holds(k, l) ==
    LET e == Entry[k] IN
    /\ Peek(e.at) # 0
    /\ e.line <= l /\ l < e.line + Lines(Peek(e.at))

(* At most one entry holds for a line.                                     *)
LEMMA OneHolds ==
  ASSUME TypeOK, NEW l \in Nat, NEW k \in 0..FrameLines, NEW j \in 0..FrameLines,
         Holds(k, l), Holds(j, l)
  PROVE  k = j
<1>1. \A i \in 0..FrameLines : Entry[i].line \in Nat /\ Entry[i].at \in Nat
  BY EntryDefined DEF Extent
<1>2. \A i \in 0..FrameLines : Peek(Entry[i].at) # 0 => Lines(Peek(Entry[i].at)) \in Nat
  BY <1>1, PeekFacts, CountDown
<1>3. ~ (k < j)
  BY <1>1, <1>2, EntriesInOrder DEF Holds
<1>4. ~ (j < k)
  BY <1>1, <1>2, EntriesInOrder DEF Holds
<1>5. QED
  BY <1>3, <1>4

(* What the table says for a line of its k-th entry ...                    *)
LEMMA ExpectedInEntry ==
  ASSUME TypeOK, NEW l \in Nat, NEW k \in 0..FrameLines, Holds(k, l)
  PROVE  LET e == Entry[k]
             first == IF indirect THEN Peek(e.at + 1) ELSE e.at + 1
         IN Expected(l) = IF l = e.line \/ Repeats(Peek(e.at)) THEN first + unit * (l - e.line) ELSE None
<1> DEFINE S == {i \in 0..FrameLines : LET e == Entry[i] IN
                       /\ Peek(e.at) # 0
                       /\ e.line <= l /\ l < e.line + Lines(Peek(e.at))}
<1>1. S = {i \in 0..FrameLines : Holds(i, l)}
  BY DEF Holds
<1>2. S = {k}
  BY <1>1, OneHolds
<1>3. S # {} /\ (CHOOSE i \in S : TRUE) = k
  BY <1>2
<1>4. Expected(l) =
        IF S = {} THEN None
        ELSE LET e == Entry[CHOOSE i \in S : TRUE]
                 first == IF indirect THEN Peek(e.at + 1) ELSE e.at + 1
             IN IF l = e.line \/ Repeats(Peek(e.at)) THEN first + unit * (l - e.line)
                ELSE None
  BY DEF Expected
<1> HIDE DEF S
<1>5. QED
  BY <1>3, <1>4

(* ... and for a line behind its end.                                      *)
LEMMA ExpectedBehind ==
  ASSUME TypeOK, NEW l \in Nat, NEW k \in 0..FrameLines,
         Peek(Entry[k].at) = 0, Entry[k].line <= l
  PROVE  Expected(l) = None
<1>1. \A i \in 0..FrameLines : Entry[i].line \in Nat /\ Entry[i].at \in Nat
  BY EntryDefined DEF Extent
<1>2. \A i \in 0..FrameLines : Peek(Entry[i].at) # 0 => Lines(Peek(Entry[i].at)) \in Nat
  BY <1>1, PeekFacts, CountDown
<1>3. ASSUME NEW i \in 0..FrameLines PROVE ~ Holds(i, l)
  <2>1. CASE i = k
    BY <2>1 DEF Holds
  <2>2. CASE k < i
    BY <2>2, EntriesInOrder DEF Holds
  <2>3. CASE i < k
    BY <1>1, <1>2, <2>3, EntriesInOrder DEF Holds
  <2>4. QED
    BY <2>1, <2>2, <2>3
<1>4. QED
  BY <1>3 DEF Expected, Holds

-----------------------------------------------------------------------------
(* The inductive invariant.                                                *)

(* The channel is about to fetch the k-th entry, which is due now or is    *)
(* the end of the table.                                                   *)
Between(k) ==
    LET e == Entry[k] IN
    /\ UsedUp /\ a2ax = e.at
    /\ e.line = line \/ (Peek(e.at) = 0 /\ e.line <= line)

(* The channel has done n lines of the k-th entry, but not all of them.    *)
Inside(k) ==
    LET e == Entry[k]
        b == Peek(e.at)
        n == line - e.line
        done == unit * (IF Repeats(b) THEN n ELSE 1)
    IN /\ b # 0 /\ n \in 1..(Lines(b) - 1)
       /\ ntlrx = b - n
       /\ IF indirect THEN a2ax = e.at + 3 /\ dasx = Peek(e.at + 1) + done
          ELSE a2ax = e.at + 1 + done /\ dasx = a2ax

(* The registers stand where the table's entries say, no more entries on   *)
(* than there have been lines.                                             *)
Walk ==
    rewound => /\ enabled
               /\ \E k \in 0..FrameLines : k <= line /\ (Between(k) \/ Inside(k))

IInv == TypeOK /\ Walk /\ FollowsTable

(* Before the first frame the channel has not been rewound.                *)
LEMMA InitIInv == Init => IInv
<1> SUFFICES ASSUME Init PROVE IInv
  OBVIOUS
<1>1. TypeOK
  <2>1. FrameLines \in 0..FrameLines /\ TableSize \in Nat /\ 2 * Half - 1 \in 0..(2 * Half - 1) /\ 0 \in Nat
    OBVIOUS
  <2>2. QED
    BY <2>1 DEF Init, TypeOK
<1>2. Walk /\ FollowsTable
  BY DEF Init, Walk, FollowsTable
<1>3. QED
  BY <1>1, <1>2 DEF IInv

(* The table is not written while it is used.                              *)
LEMMA SameTable ==
  ASSUME UNCHANGED setting
  PROVE  /\ \A a : Peek(a)' = Peek(a)
         /\ Entry' = Entry
         /\ \A l : Expected(l)' = Expected(l)
<1>1. table' = table /\ indirect' = indirect /\ unit' = unit
  BY DEF setting
<1>2. \A a : Peek(a)' = Peek(a)
  BY <1>1 DEF Peek
<1>3. Entry' = Entry
  BY <1>1 DEF Entry, Peek
<1>4. \A l : Expected(l)' = Expected(l)
  BY <1>1, <1>3 DEF Expected, Peek
<1>5. QED
  BY <1>2, <1>3, <1>4

(* The start of a frame rewinds an enabled channel to the first entry.     *)
LEMMA BeginKeeps == IInv /\ BeginHDMA => IInv'
<1> SUFFICES ASSUME IInv, BeginHDMA PROVE IInv'
  OBVIOUS
<1>1. UNCHANGED setting /\ enabled' = enabled /\ line' = 0 /\ out' = None /\ rewound' = enabled /\ dasx' = dasx
  BY DEF BeginHDMA
<1>2. TypeOK'
  BY <1>1 DEF IInv, TypeOK, BeginHDMA, setting, None
<1>3. Walk'
  <2>1. SUFFICES ASSUME enabled PROVE 0 \in 0..FrameLines /\ 0 <= line' /\ Between(0)'
    BY <1>1 DEF Walk
  <2>2. Entry'[0] = FirstEntry
    BY <1>1, SameTable, EntryDefined DEF Meets, IInv
  <2>3. a2ax' = 0 /\ ntlrx' = 0 /\ 0 % Half = 0
    BY <2>1, ModSmall DEF BeginHDMA
  <2>4. QED
    BY <1>1, <2>2, <2>3 DEF Between, UsedUp, FirstEntry
<1>4. FollowsTable'
  BY <1>1 DEF FollowsTable
<1>5. QED
  BY <1>2, <1>3, <1>4 DEF IInv

(* A channel switched on or off, or passed over, promises nothing.         *)
LEMMA SwitchKeeps == IInv /\ (SetHDMAEnable \/ NotEnabled) => IInv'
<1> SUFFICES ASSUME IInv, SetHDMAEnable \/ NotEnabled PROVE IInv'
  OBVIOUS
<1>1. rewound' = FALSE
  BY DEF SetHDMAEnable, NotEnabled, IInv, Walk, TypeOK
<1>2. TypeOK'
  <2>1. CASE SetHDMAEnable
    BY <2>1 DEF IInv, TypeOK, SetHDMAEnable, setting
  <2>2. CASE NotEnabled
    BY <2>2 DEF IInv, TypeOK, NotEnabled, setting, None
  <2>3. QED
    BY <2>1, <2>2
<1>3. QED
  BY <1>1, <1>2 DEF IInv, Walk, FollowsTable

(* Whatever the registers hold, ProcessHDMACh keeps them in range.         *)
LEMMA ProcessTypes == TypeOK /\ ProcessHDMACh => TypeOK'
<1> SUFFICES ASSUME TypeOK, ProcessHDMACh PROVE TypeOK'
  OBVIOUS
<1>1. UNCHANGED setting /\ enabled' = enabled /\ rewound' = rewound /\ line' = line + 1 /\ line < FrameLines
  BY DEF ProcessHDMACh
<1>2. a2ax \in Nat /\ dasx \in Nat /\ unit \in Nat /\ ntlrx \in Bytes
  BY DEF TypeOK, Bytes
<1>3. Peek(a2ax) \in Bytes /\ Peek(a2ax + 1) \in Nat
  BY <1>2, PeekFacts
<1>4. ntlrx' \in Bytes /\ a2ax' \in Nat /\ dasx' \in Nat /\ out' \in Nat \cup {None}
  <2>1. CASE UsedUp /\ NextEntry
    BY <1>2, <1>3, <2>1 DEF NextEntry, Send, Ends, Bytes
  <2>2. CASE UsedUp /\ EndOfTable
    BY <1>2, <2>2 DEF EndOfTable, Bytes
  <2>3. CASE ~UsedUp /\ SameEntry
    <3>1. 0 % Half = 0
      BY ModSmall
    <3>2. ntlrx # 0
      BY <2>3, <3>1 DEF UsedUp
    <3>3. QED
      BY <1>2, <2>3, <3>2 DEF SameEntry, Send, Bytes
  <2>4. QED
    BY <2>1, <2>2, <2>3 DEF ProcessHDMACh
<1>5. QED
  BY <1>1, <1>4 DEF TypeOK, setting, Bytes

(* The arrival of a channel behind its n-th line of the k-th entry: inside *)
(* it still, or at the next one.                                           *)
LEMMA Arrives ==
  ASSUME TypeOK, UNCHANGED setting, NEW k \in 0..(FrameLines - 1),
         line \in 0..(FrameLines - 1), line' = line + 1, k <= line,
         Peek(Entry[k].at) # 0,
         line' - Entry[k].line \in 1..Lines(Peek(Entry[k].at)),
         ntlrx' = Peek(Entry[k].at) - (line' - Entry[k].line),
         LET e == Entry[k]
             done == unit * (IF Repeats(Peek(e.at)) THEN line' - e.line ELSE 1)
         IN IF indirect THEN a2ax' = e.at + 3 /\ dasx' = Peek(e.at + 1) + done
            ELSE a2ax' = e.at + 1 + done /\ dasx' = a2ax'
  PROVE  \E i \in 0..FrameLines : i <= line' /\ (Between(i)' \/ Inside(i)')
<1> DEFINE e == Entry[k]
           b == Peek(e.at)
           n == line' - e.line
           done == unit * (IF Repeats(b) THEN n ELSE 1)
<1>1. e \in Extent /\ e.at \in Nat /\ e.line \in Nat
  BY EntryDefined DEF Extent
<1>2. b \in Bytes /\ b # 0 /\ Lines(b) \in Nat \ {0}
  BY <1>1, PeekFacts, CountDown
<1>3. Entry'[k] = e /\ (\A a : Peek(a)' = Peek(a)) /\ indirect' = indirect /\ unit' = unit
  BY SameTable DEF setting
<1>4. CASE n # Lines(b)
  <2>1. n \in 1..(Lines(b) - 1)
    BY <1>1, <1>2, <1>4
  <2>2. Inside(k)'
    BY <1>3, <2>1 DEF Inside
  <2>3. k \in 0..FrameLines /\ k <= line'
    OBVIOUS
  <2>4. QED
    BY <2>2, <2>3
<1>5. CASE n = Lines(b)
  <2>1. k + 1 \in 0..FrameLines /\ k + 1 <= line' /\ k + 1 # 0 /\ (k + 1) - 1 = k
    OBVIOUS
  <2>2. Entry[k + 1] = Following(e)
    BY <2>1, EntryDefined DEF Meets
  <2>3. Entry[k + 1].line = line'
    BY <1>1, <1>2, <1>5, <2>2 DEF Following
  <2>4. Entry[k + 1].at = a2ax'
    <3>1. Entry[k + 1].at = e.at + 1 + (IF indirect THEN 2 ELSE unit * Sends(b))
      BY <1>2, <2>2 DEF Following
    <3>2. unit * Sends(b) = done
      BY <1>5 DEF Sends
    <3> HIDE DEF done, b
    <3>3. CASE indirect
      BY <1>1, <3>1, <3>3 DEF b, done
    <3>4. CASE ~indirect
      BY <1>1, <3>1, <3>2, <3>4 DEF b, done
    <3>5. QED
      BY <3>3, <3>4
  <2>5. UsedUp'
    <3>1. n \in 1..Lines(b) /\ ntlrx' = b - n
      OBVIOUS
    <3>2. (b - n) % Half = 0
      BY <1>2, <1>5, <3>1, CountDown
    <3>3. QED
      BY <3>1, <3>2 DEF UsedUp
  <2>6. Entry' = Entry
    BY SameTable
  <2>7. Between(k + 1)'
    BY <2>3, <2>4, <2>5, <2>6 DEF Between
  <2>8. QED
    BY <2>1, <2>7
<1>6. QED
  BY <1>4, <1>5

(* A line fetches the next entry, meets the end of the table, or goes on   *)
(* with the entry it is in; each sends what the table says.                *)
LEMMA ProcessKeeps == IInv /\ ProcessHDMACh => IInv'
<1> SUFFICES ASSUME IInv, ProcessHDMACh PROVE IInv'
  OBVIOUS
<1>1. /\ UNCHANGED setting /\ enabled' = enabled /\ rewound' = rewound
      /\ line' = line + 1 /\ line \in 0..(FrameLines - 1) /\ line \in Nat
  BY DEF ProcessHDMACh, IInv, TypeOK
<1>2. TypeOK /\ TypeOK'
  BY ProcessTypes DEF IInv
<1>3. SUFFICES ASSUME rewound
               PROVE  /\ out' = Expected(line)
                      /\ \E k \in 0..FrameLines : k <= line' /\ (Between(k)' \/ Inside(k)')
  <2>1. (~rewound) => Walk' /\ FollowsTable'
    BY <1>1 DEF Walk, FollowsTable
  <2>2. line' - 1 = line /\ \A l : Expected(l)' = Expected(l)
    BY <1>1, SameTable
  <2>3. ASSUME out' = Expected(line), \E k \in 0..FrameLines : k <= line' /\ (Between(k)' \/ Inside(k)')
        PROVE  Walk' /\ FollowsTable'
    BY <1>1, <2>2, <2>3 DEF Walk, FollowsTable, ProcessHDMACh
  <2>4. QED
    BY <1>2, <2>1, <2>3 DEF IInv
<1>4. PICK k \in 0..FrameLines : k <= line /\ (Between(k) \/ Inside(k))
  BY <1>3 DEF IInv, Walk
<1> DEFINE e == Entry[k]
           b == Peek(e.at)
<1>5. e \in Extent /\ e.at \in Nat /\ e.line \in Nat /\ unit \in Nat
  BY <1>2, EntryDefined DEF Extent, TypeOK
<1>6. b \in Bytes /\ Peek(e.at + 1) \in Nat
  BY <1>2, <1>5, PeekFacts
<1>7. k \in 0..(FrameLines - 1)
  BY <1>1, <1>4
<1>8. CASE Between(k)
  <2>1. UsedUp /\ a2ax = e.at /\ (e.line = line \/ (b = 0 /\ e.line <= line))
    BY <1>8 DEF Between
  <2>2. CASE b = 0
    <3>1. ntlrx' = 0 /\ out' = None /\ a2ax' = a2ax
      BY <2>1, <2>2 DEF ProcessHDMACh, NextEntry, EndOfTable, Ends
    <3>2. Expected(line) = None
      BY <1>1, <1>2, <2>1, <2>2, <1>5, ExpectedBehind
    <3>3. 0 % Half = 0 /\ e.line <= line'
      BY <1>1, <1>5, <2>1, ModSmall
    <3>4. Between(k)'
      BY <1>1, <2>1, <2>2, <3>1, <3>3, SameTable DEF Between, UsedUp
    <3>5. QED
      BY <1>1, <1>4, <3>1, <3>2, <3>4
  <2>3. CASE b # 0
    <3>1. e.line = line /\ Lines(b) \in Nat \ {0}
      BY <1>6, <2>1, <2>3, CountDown
    <3>2. NextEntry
      BY <2>1, <2>3 DEF ProcessHDMACh, EndOfTable, Ends
    <3> DEFINE first == IF indirect THEN Peek(e.at + 1) ELSE e.at + 1
    <3>3. ntlrx' = b - 1 /\ out' = first /\ dasx' = first + unit
          /\ a2ax' = IF indirect THEN e.at + 3 ELSE first + unit
      BY <1>5, <2>1, <3>2 DEF NextEntry, Send
    <3>4. Expected(line) = first
      <4>1. Holds(k, line)
        BY <1>5, <2>3, <3>1 DEF Holds
      <4>2. Expected(line) = first + unit * (line - e.line)
        BY <1>1, <1>2, <3>1, <4>1, ExpectedInEntry
      <4>3. unit * (line - e.line) = 0
        BY <1>5, <3>1
      <4>4. QED
        BY <1>5, <1>6, <4>2, <4>3
    <3>5. line' - e.line = 1 /\ 1 \in 1..Lines(b)
      BY <1>1, <3>1
    <3>6. unit * (IF Repeats(b) THEN line' - e.line ELSE 1) = unit
      BY <1>5, <3>5
    <3>7. \E i \in 0..FrameLines : i <= line' /\ (Between(i)' \/ Inside(i)')
      BY <1>1, <1>2, <1>4, <1>5, <1>7, <2>3, <3>3, <3>5, <3>6, Arrives
    <3>8. QED
      BY <3>3, <3>4, <3>7
  <2>4. QED
    BY <2>2, <2>3
<1>9. CASE Inside(k)
  <2> DEFINE n == line - e.line
             first == IF indirect THEN Peek(e.at + 1) ELSE e.at + 1
  <2>1. /\ b # 0 /\ n \in 1..(Lines(b) - 1) /\ ntlrx = b - n
        /\ IF indirect THEN a2ax = e.at + 3 /\ dasx = Peek(e.at + 1) + unit * (IF Repeats(b) THEN n ELSE 1)
           ELSE a2ax = e.at + 1 + unit * (IF Repeats(b) THEN n ELSE 1) /\ dasx = a2ax
    BY <1>9 DEF Inside
  <2>2. Lines(b) \in Nat \ {0} /\ n \in 1..Lines(b) /\ n + 1 \in 1..Lines(b)
    BY <1>6, <2>1, CountDown
  <2>3. ~UsedUp /\ (Skipped(b - (n + 1)) <=> ~Repeats(b))
    BY <1>6, <2>1, <2>2, CountDown DEF UsedUp
  <2>4. SameEntry /\ ntlrx - 1 = b - (n + 1)
    BY <1>1, <1>5, <1>6, <2>1, <2>3 DEF ProcessHDMACh, Bytes
  <2>5. Holds(k, line)
    BY <1>1, <1>5, <2>1, <2>2 DEF Holds
  <2>6. Expected(line) = IF Repeats(b) THEN first + unit * n ELSE None
    BY <1>1, <1>2, <1>5, <2>1, <2>5, ExpectedInEntry
  <2>7. line' - e.line = n + 1 /\ ntlrx' = b - (n + 1)
    BY <1>1, <1>5, <2>4 DEF SameEntry
  <2>8. CASE Repeats(b)
    <3>1. out' = dasx /\ dasx' = dasx + unit /\ a2ax' = IF indirect THEN a2ax ELSE dasx + unit
      BY <2>3, <2>4, <2>8 DEF SameEntry, Send
    <3>2. unit * n \in Nat /\ unit * (n + 1) = unit * n + unit
      BY <1>5, <2>1
    <3>3. out' = Expected(line)
      BY <1>5, <1>6, <2>1, <2>6, <2>8, <3>1
    <3>4. IF indirect THEN a2ax' = e.at + 3 /\ dasx' = Peek(e.at + 1) + unit * (n + 1)
          ELSE a2ax' = e.at + 1 + unit * (n + 1) /\ dasx' = a2ax'
      BY <1>5, <1>6, <2>1, <2>8, <3>1, <3>2
    <3>5. \E i \in 0..FrameLines : i <= line' /\ (Between(i)' \/ Inside(i)')
      BY <1>1, <1>2, <1>4, <1>7, <2>1, <2>2, <2>7, <2>8, <3>4, Arrives
    <3>6. QED
      BY <3>3, <3>5
  <2>9. CASE ~Repeats(b)
    <3>1. out' = None /\ a2ax' = a2ax /\ dasx' = dasx
      BY <2>3, <2>4, <2>9 DEF SameEntry
    <3>2. out' = Expected(line)
      BY <2>6, <2>9, <3>1
    <3>3. IF indirect THEN a2ax' = e.at + 3 /\ dasx' = Peek(e.at + 1) + unit * 1
          ELSE a2ax' = e.at + 1 + unit * 1 /\ dasx' = a2ax'
      BY <2>1, <2>9, <3>1
    <3>4. \E i \in 0..FrameLines : i <= line' /\ (Between(i)' \/ Inside(i)')
      BY <1>1, <1>2, <1>4, <1>7, <2>1, <2>2, <2>7, <2>9, <3>3, Arrives
    <3>5. QED
      BY <3>2, <3>4
  <2>10. QED
    BY <2>8, <2>9
<1>10. QED
  BY <1>4, <1>8, <1>9

(* Every step keeps the invariant.                                         *)
LEMMA NextIInv == IInv /\ [Next]_vars => IInv'
<1> SUFFICES ASSUME IInv, [Next]_vars PROVE IInv'
  OBVIOUS
<1>1. CASE Next
  BY <1>1, BeginKeeps, SwitchKeeps, ProcessKeeps DEF Next
<1>2. CASE UNCHANGED vars
  <2>1. UNCHANGED setting /\ enabled' = enabled /\ a2ax' = a2ax /\ ntlrx' = ntlrx /\ dasx' = dasx
        /\ line' = line /\ out' = out /\ rewound' = rewound
    BY <1>2 DEF vars, setting
  <2>2. TypeOK'
    BY <2>1 DEF IInv, TypeOK, setting
  <2>3. FollowsTable'
    BY <2>1, SameTable DEF IInv, FollowsTable
  <2>4. \A k \in 0..FrameLines : (Between(k)' <=> Between(k)) /\ (Inside(k)' <=> Inside(k))
    BY <2>1, SameTable DEF Between, Inside, UsedUp, setting
  <2>5. Walk'
    BY <2>1, <2>4 DEF IInv, Walk
  <2>6. QED
    BY <2>2, <2>3, <2>5 DEF IInv
<1>3. QED
  BY <1>1, <1>2

-----------------------------------------------------------------------------
(* The invariant holds in every reachable state.                           *)
LEMMA Invariant == Spec => []IInv
BY InitIInv, NextIInv, PTL DEF Spec

(* ntlrx never leaves eight bits, though it is decremented on every line   *)
(* and may have been left anywhere when HDMA is switched on.               *)
THEOREM TypeCorrect == Spec => []TypeOK
<1>1. IInv => TypeOK
  BY DEF IInv
<1>2. QED
  BY <1>1, Invariant, PTL

(* For every table a game can write, direct or indirect, and for every     *)
(* length of a frame, a channel enabled when the frame starts sends on     *)
(* every line what its table says.                                         *)
THEOREM HdmaFollowsTable == Spec => []FollowsTable
<1>1. IInv => FollowsTable
  BY DEF IInv
<1>2. QED
  BY <1>1, Invariant, PTL
=============================================================================
