------------------------------ MODULE SnesProgram ------------------------------
(***************************************************************************)
(* The 65816 executing a program a few instructions at a time, while the   *)
(* scheduler ends its slice at any instruction boundary: it packs the      *)
(* registers, perhaps enters an interrupt, and unpacks them again.  A      *)
(* piece of code lies at Origin; the interrupt handlers are REP #$30, RTI. *)
(***************************************************************************)
EXTENDS SnesOpcodes

CONSTANTS
  Programs,         \* names of the programs
  Processors(_),    \* the processors a program may start on
  Code(_, _),       \* the code it may execute next, after so many pieces:
                    \* [bytes |-> sequence of bytes, n |-> instructions in it]
  MaxPieces         \* bound: pieces of code executed

VARIABLES
  program,
  s,                \* the processor, in a slice
  was,              \* the processor before the last step, its code in place
  act,              \* the last step: "start", "code", "cut", "nmi" or "irq"
  piece,            \* the piece of code it executed
  pieces,           \* pieces executed so far
  toggled           \* XCE has been executed in this slice

vars == <<program, s, was, act, piece, pieces, toggled>>

Origin == \h18000
XCE == \hFB
NoPiece == [bytes |-> <<>>, n |-> 0]

-----------------------------------------------------------------------------
RECURSIVE Instructions(_, _)
Instructions(q, n) == IF n = 0 THEN q ELSE Instructions(Instruction(q), n - 1)

Placed(q, bytes) ==
  [q EXCEPT !.PC = Origin,
            !.mem = [a \in Origin..(Origin + Len(bytes) - 1) |-> bytes[a - Origin + 1]] @@ @]

Init ==
  /\ program \in Programs
  /\ s \in {UNPACKFLAGS(q) : q \in Processors(program)}
  /\ was = s
  /\ act = "start"
  /\ piece = NoPiece
  /\ pieces = 0
  /\ toggled = FALSE

Execute ==
  /\ pieces < MaxPieces
  /\ "WAI" \notin s.sig
  /\ piece' \in Code(program, pieces)
  /\ was' = Placed(s, piece'.bytes)
  /\ s' = Instructions(was', piece'.n)
  /\ act' = "code"
  /\ pieces' = pieces + 1
  /\ toggled' = (toggled \/ XCE \in {piece'.bytes[k] : k \in DOMAIN piece'.bytes})
  /\ UNCHANGED program

\* The slice ends: what is private to SNCPUExecute_C is packed and lost.
Return(a, handled) ==
  /\ was' = s
  /\ s' = handled
  /\ act' = a
  /\ piece' = NoPiece
  /\ toggled' = FALSE
  /\ UNCHANGED <<program, pieces>>

Cut == act = "code" /\ Return("cut", UNPACKFLAGS(PACKFLAGS(s)))

\* The handler runs from its first instruction to its RTI.
Handled(q) == Instructions(UNPACKFLAGS(q), 2)
Nmi == act = "code" /\ Return("nmi", Handled(SNCPUNMI(PACKFLAGS(s))))
Irq == act = "code" /\ "I" \notin s.P /\ Return("irq", Handled(SNCPUIRQ(PACKFLAGS(s))))

Next == Execute \/ Cut \/ Nmi \/ Irq
Spec == Init /\ [][Next]_vars

-----------------------------------------------------------------------------
(* The 65816's instructions as its encoding defines them: the operation in *)
(* bits 5-7 of the opcode, the addressing mode in bits 0-4.                 *)

Op == piece.bytes[1]
Aaa == Op \div 32
Form == Op % 32
Lo == piece.bytes[2]
Abs == Lo + 256 * piece.bytes[3]
AbsLong == Abs + 65536 * piece.bytes[4]
Peek(a) == Byte(was, a)
Peek2(a) == Peek(a) + 256 * Peek(a + 1)
Peek3(a) == Peek2(a) + 65536 * Peek(a + 2)
Native == ~was.E
M == IF Native /\ "M" \notin was.P THEN 2 ELSE 1
X == IF Native /\ "X" \notin was.P THEN 2 ELSE 1

\* A direct address: in emulation mode it stays in page 0.
Direct(i) == IF Native THEN (Lo + was.DP + i) % 65536 ELSE (Lo + i) % 256
Stack == (Lo + was.S) % 65536
\* The operand's address and the instruction's length.
Operand(i) ==
  CASE Form = 1 -> <<was.DB + Peek2(Direct(was.X)), 2>>
    [] Form = 3 -> <<Stack, 2>>
    [] Form \in {4, 5, 6} -> <<Direct(0), 2>>
    [] Form = 7 -> <<Peek3(Direct(0)), 2>>
    [] Form \in {12, 13, 14} -> <<was.DB + Abs, 3>>
    [] Form = 15 -> <<AbsLong, 4>>
    [] Form = 17 -> <<was.DB + Peek2(Direct(0)) + was.Y, 2>>
    [] Form = 18 -> <<was.DB + Peek2(Direct(0)), 2>>
    [] Form = 19 -> <<was.DB + Peek2(Stack) + was.Y, 2>>
    [] Form \in {20, 21, 22} -> <<Direct(i), 2>>
    [] Form = 23 -> <<Peek3(Direct(0)) + was.Y, 2>>
    [] Form = 25 -> <<was.DB + Abs + was.Y, 3>>
    [] Form \in {28, 29, 30} -> <<was.DB + Abs + i, 3>>
    [] Form = 31 -> <<AbsLong + was.X, 4>>
    [] OTHER -> <<0, 0>>
Load(a, n) == IF n = 2 THEN Peek2(a) ELSE Peek(a)
Store(q, a, n, v) ==
  LET one(p, b, w) == IF IsRam(b) THEN [p EXCEPT !.mem = (b :> w) @@ @] ELSE p
  IN  IF n = 2 THEN one(one(q, a, v % 256), a + 1, (v \div 256) % 256) ELSE one(q, a, v % 256)

\* Registers and flags after the piece.
Size(n) == 256^n
If(c, f) == IF c THEN {f} ELSE {}
NZOf(v, n) == If(2 * (v % Size(n)) >= Size(n), "N") \cup If(v % Size(n) = 0, "Z")
Result(f, g) == [was EXCEPT !.live = (@ \ f) \cup g]
Into(r, v, n) == IF n = 2 THEN v % 65536 ELSE 256 * (r \div 256) + (v % 256)
Acc == was.A % Size(M)
InA(f, g, v) == [Result({"N", "Z"} \cup f, NZOf(v, M) \cup g) EXCEPT !.A = Into(was.A, v, M)]
Minus(v, n) == IF 2 * v >= Size(n) THEN v - Size(n) ELSE v
CarryIn == IF "C" \in was.live THEN 1 ELSE 0

\* Binary-coded decimals.
Nibble(v, k) == (v \div 16^k) % 16
IsBcd(v) == \A k \in 0..3 : Nibble(v, k) < 10
Bcd(v) == Nibble(v, 0) + 10 * Nibble(v, 1) + 100 * Nibble(v, 2) + 1000 * Nibble(v, 3)
ToBcd(v) == (v % 10) + 16 * ((v \div 10) % 10) + 256 * ((v \div 100) % 10) + 4096 * ((v \div 1000) % 10)

\* A plus or minus the operand: sum and signed sum, as binary or decimal.
Decimal == "D" \in was.P
Sums(d) == IF Decimal THEN Bcd(Acc) + Bcd(d) + CarryIn ELSE Acc + d + CarryIn
Differences(d) == IF Decimal THEN Bcd(Acc) - Bcd(d) - 1 + CarryIn ELSE Acc - d - 1 + CarryIn
Full == IF Decimal THEN 10^(2 * M) ELSE Size(M)
Total(v, carry, signed) ==
  LET r == IF Decimal THEN ToBcd(v % Full) ELSE v
  IN  [InA({"C"}, If(carry, "C"), r) EXCEPT
         !.P = (@ \ {"V"}) \cup If(2 * signed >= Size(M) \/ 2 * signed < -Size(M), "V")]
GroupOne(d) ==
  CASE Aaa = 0 -> InA({}, {}, Acc | d)
    [] Aaa = 1 -> InA({}, {}, Acc & d)
    [] Aaa = 2 -> InA({}, {}, Acc ^^ d)
    [] Aaa = 3 -> Total(Sums(d), Sums(d) >= Full, Minus(Acc, M) + Minus(d, M) + CarryIn)
    [] Aaa = 5 -> InA({}, {}, d)
    [] Aaa = 6 -> Result({"N", "Z", "C"}, NZOf(Acc - d, M) \cup If(Acc >= d, "C"))
    [] Aaa = 7 -> Total(Differences(d), Differences(d) >= 0, Minus(Acc, M) - Minus(d, M) - 1 + CarryIn)
\* Shifts and counts of an operand: the new value and the carry.
GroupTwo(d) ==
  LET top == 2 * d >= Size(M)
  IN  CASE Aaa = 0 -> <<2 * d, top>>
        [] Aaa = 1 -> <<2 * d + CarryIn, top>>
        [] Aaa = 2 -> <<d \div 2, d % 2 = 1>>
        [] Aaa = 3 -> <<(d \div 2) + (CarryIn * Size(M)) \div 2, d % 2 = 1>>
        [] Aaa = 6 -> <<d - 1, CarryIn = 1>>
        [] Aaa = 7 -> <<d + 1, CarryIn = 1>>

After(q, length) == [q EXCEPT !.PC = Origin + length]
Counted(d) == Result({"N", "Z", "C"}, NZOf(GroupTwo(d)[1], M) \cup If(GroupTwo(d)[2], "C"))
GroupOneForms == {1, 3, 5, 7, 13, 15, 17, 18, 19, 21, 23, 25, 29, 31}
Immediate(n) == IF n = 2 THEN Abs ELSE Lo
Expected ==
  LET x == Operand(was.X)
      y == Operand(was.Y)
      m == Load(x[1], M)
      on == CASE Op \div 64 = 0 -> "N" [] Op \div 64 = 1 -> "V" [] Op \div 64 = 2 -> "C" [] OTHER -> "Z"
  IN  CASE Form \in GroupOneForms /\ Aaa # 4 -> After(GroupOne(m), x[2])
        [] Form \in GroupOneForms /\ Aaa = 4 -> After(Store(was, x[1], M, was.A), x[2])
        [] Form = 9 /\ Aaa # 4 -> After(GroupOne(Immediate(M)), 1 + M)
        [] Form \in {6, 14, 22, 30} /\ Aaa \notin {4, 5} ->
             After(Store(Counted(m), x[1], M, GroupTwo(m)[1]), x[2])
        [] Form = 10 /\ Aaa < 4 ->
             After([Counted(Acc) EXCEPT !.A = Into(was.A, GroupTwo(Acc)[1], M)], 1)
        [] Op \in {\hA6, \hAE, \hB6, \hBE} ->
             LET v == Load(y[1], X) IN After([Result({"N", "Z"}, NZOf(v, X)) EXCEPT !.X = v], y[2])
        [] Op \in {\hA4, \hAC, \hB4, \hBC} ->
             LET v == Load(x[1], X) IN After([Result({"N", "Z"}, NZOf(v, X)) EXCEPT !.Y = v], x[2])
        [] Op \in {\h86, \h8E, \h96} -> After(Store(was, y[1], X, was.X), y[2])
        [] Op \in {\h84, \h8C, \h94} -> After(Store(was, x[1], X, was.Y), x[2])
        [] Op \in {\h64, \h74} -> After(Store(was, x[1], M, 0), 2)
        [] Form = 16 ->
             After(was, 2 + (IF (on \in was.live \cup (was.P \cap {"V"})) = ((Op \div 32) % 2 = 1)
                               THEN Minus(Lo, 1) ELSE 0))
        [] OTHER -> s

-----------------------------------------------------------------------------
(* Properties. *)

\* What a program sees of a processor.
Registers(q) ==
  LET p == PACKFLAGS(q)
  IN  <<p.A, p.X, p.Y, p.S, p.DP, p.DB, p.PC, p.P, p.E, q.live, q.mod>>

\* Whether the operands of a decimal sum are decimals.
Operands ==
  Decimal /\ Aaa \in {3, 7} /\ Form \in GroupOneForms \cup {9} =>
    IsBcd(Acc) /\ IsBcd(IF Form = 9 THEN Immediate(M) ELSE Load(Operand(was.X)[1], M))

\* The arms of the opcode switch decode like the 65816, in all five modes:
\* where the opcode is made of fields, the arm does what the fields say to
\* the operand the addressing mode names, of the width the flags give, in
\* binary and decimal, and nothing else.
DecodesByFields ==
  act = "code" /\ piece.n = 1 /\ Operands =>
    Registers(s) = Registers(Expected) /\ s.mem = Expected.mem

\* A slice may end at any instruction boundary: packing and unpacking the
\* registers changes nothing, so uOpcodeMod and the live flags always agree
\* with the registers.  Not so the direct page in emulation mode (every
\* unpacking clears it) and the index registers in a slice that has executed
\* XCE (which leaves their high bytes to the next unpacking).
SliceTransparent ==
  LET q == UNPACKFLAGS(PACKFLAGS(s))
  IN  ~toggled => Registers(IF s.E THEN [q EXCEPT !.DP = s.DP] ELSE q) = Registers(s)

\* An interrupt taken between two instructions whose handler changes the
\* width of the registers and returns leaves the program as a cut of the
\* slice would; from WAI it goes on behind it.  (In emulation mode the
\* program bank is not pushed; the stack has to lie in RAM.)
StackIsRam == \A k \in 0..3 : IsRam(Moved(was, -k))
InterruptTransparent ==
  act \in {"nmi", "irq"} /\ StackIsRam =>
    LET q == UNPACKFLAGS(PACKFLAGS(was))
        w == IF "WAI" \in was.sig THEN [q EXCEPT !.PC = @ + 1] ELSE q
    IN  Registers(s) = Registers(IF was.E THEN [w EXCEPT !.PC = @ % 65536] ELSE w)

\* sncpu_c.c:679, which does not hold: an opcode with the X bit (8-bit index
\* registers) finds their high bytes 0.
IndexHighZero == "X" \in s.mod => s.X < 256 /\ s.Y < 256
=============================================================================
