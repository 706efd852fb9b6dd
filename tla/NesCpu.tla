-------------------------------- MODULE NesCpu --------------------------------
(***************************************************************************)
(* The 6502 interpreter of the NES (K6502.cpp): the macros it is built     *)
(* from, one operator each, the case table of its opcodes, in rows of 32,  *)
(* and the entry into interrupts.  Operators take a console and return it; *)
(* an addressing mode leaves the address in ea (AA_...) or the byte it     *)
(* finds there in d (A_...), an operation uses them.                       *)
(***************************************************************************)
EXTENDS NesBus

Flags == {"N", "V", "R", "B", "D", "I", "Z", "C"}
Weight == [N |-> 128, V |-> 64, R |-> 32, B |-> 16, D |-> 8, I |-> 4, Z |-> 2, C |-> 1]
\* F as a byte, and back.
FlagByte(f) ==
  LET w(x) == IF x \in f THEN Weight[x] ELSE 0
  IN  w("N") + w("V") + w("R") + w("B") + w("D") + w("I") + w("Z") + w("C")
FlagSet(d) == {x \in Flags : (d \div Weight[x]) % 2 = 1}

CLK(s, n) == [s EXCEPT !.clk = @ + n]
SETF(s, f) == [s EXCEPT !.F = @ \cup f]
RSTF(s, f) == [s EXCEPT !.F = @ \ f]
\* Flags f become exactly the ones of g that are among them.
Flag(s, f, g) == SETF(RSTF(s, f), g)
NZ(v) == {x \in {"N", "Z"} : IF x = "N" THEN v > 127 ELSE v = 0}
CIf(c) == IF c THEN {"C"} ELSE {}
C(s) == IF "C" \in s.F THEN 1 ELSE 0
TEST(s, v) == Flag(s, {"N", "Z"}, NZ(v))

-----------------------------------------------------------------------------
(* Addressing modes. *)

Fetch6502(s) == K6502_Read([s EXCEPT !.PC = (@ + 1) % 65536], s.PC)
At(s, a) == [s EXCEPT !.ea = a]
Index(s, i) == At(s, (s.ea + i) % 65536)

\* The word at PC.
SecondByte(l) == Word(l, Fetch6502(l))
FetchW6502(s) == SecondByte(Fetch6502(s))
AtD(s) == At(s, s.d)
AtZp(s, i) == At(s, (s.d + i) % 256)

AA_IX(s) == LET q == Fetch6502(s) IN AtD(K6502_ReadZpW(q, (q.d + s.X) % 256))
AA_IND(s) == LET q == Fetch6502(s) IN AtD(K6502_ReadZpW(q, q.d))
AA_IY(s) == Index(AA_IND(s), s.Y)
AA_ZP(s) == AtD(Fetch6502(s))
AA_ZPX(s) == AtZp(Fetch6502(s), s.X)
AA_ZPY(s) == AtZp(Fetch6502(s), s.Y)
AA_ABS(s) == AtD(FetchW6502(s))
AA_ABSX(s) == Index(AA_ABS(s), s.X)
AA_ABSY(s) == Index(AA_ABS(s), s.Y)

Load(s) == K6502_Read(s, s.ea)
LoadZp(s) == K6502_ReadZp(s, s.ea)
\* An indexed read takes a clock more when the index leaves the page.
LoadIndexed(s, i) ==
  LET q == Index(s, i) IN Load(CLK(q, IF Bit(s.ea, 8) # Bit(q.ea, 8) THEN 1 ELSE 0))

A_IX(s) == Load(AA_IX(s))
A_IY(s) == LoadIndexed(AA_IND(s), s.Y)
A_ZP(s) == LoadZp(AA_ZP(s))
A_ZPX(s) == LoadZp(AA_ZPX(s))
A_ZPY(s) == LoadZp(AA_ZPY(s))
A_ABS(s) == Load(AA_ABS(s))
A_ABSX(s) == LoadIndexed(AA_ABS(s), s.X)
A_ABSY(s) == LoadIndexed(AA_ABS(s), s.Y)
A_IMM(s) == Fetch6502(s)

-----------------------------------------------------------------------------
(* Operations. *)

LDA(s, v) == TEST([s EXCEPT !.A = v], v)
LDX(s, v) == TEST([s EXCEPT !.X = v], v)
LDY(s, v) == TEST([s EXCEPT !.Y = v], v)
LDAD(s) == LDA(s, s.d)
LDXD(s) == LDX(s, s.d)
LDYD(s) == LDY(s, s.d)
\* An instruction that stores leaves the byte in d; Instruction writes it.
STA(s) == [s EXCEPT !.d = s.A]
STX(s) == [s EXCEPT !.d = s.X]
STY(s) == [s EXCEPT !.d = s.Y]

\* The stack page is RAM.
PUSH(s, v) == [WriteRam(s, 256 + s.SP, v) EXCEPT !.SP = (@ + 255) % 256]
PUSHW(s, w) == PUSH(PUSH(s, w \div 256), w % 256)
POP(s) == LET p == (s.SP + 1) % 256 IN K6502_Read([s EXCEPT !.SP = p], 256 + p)
\* POPW( PC ), and n more.
POPW(s, n) == LET l == POP(s) h == POP(l) IN [h EXCEPT !.PC = (l.d + 256 * h.d + n) % 65536]

ORA(s) == LDA(s, Or(s.A, s.d))
AND(s) == LDA(s, And(s.A, s.d))
EOR(s) == LDA(s, Xor(s.A, s.d))
BIT(s) ==
  Flag(s, {"N", "V", "Z"}, {x \in {"N", "V"} : x \in FlagSet(s.d)}
                           \cup (IF And(s.d, s.A) = 0 THEN {"Z"} ELSE {}))
\* Mutant: > for >=.
Compare_Above(s, r) == Flag(s, {"N", "Z", "C"}, NZ((r + 256 - s.d) % 256) \cup CIf(r > s.d))
Compare(s, r) == Flag(s, {"N", "Z", "C"}, NZ((r + 256 - s.d) % 256) \cup CIf(r >= s.d))
CMP(s) == Compare(s, s.A)
CPX(s) == Compare(s, s.X)
CPY(s) == Compare(s, s.Y)

\* v is the sum or difference before it is cut to a byte, m the byte whose
\* sign together with A's decides the overflow.
Arith(s, v, m, c) ==
  LET r == v % 256
      o == Bit(s.A, 7) = Bit(m, 7) /\ Bit(s.A, 7) # Bit(r, 7)
  IN  [Flag(s, {"N", "V", "Z", "C"}, NZ(r) \cup CIf(c) \cup (IF o THEN {"V"} ELSE {})) EXCEPT !.A = r]
ADC(s) == LET v == s.A + s.d + C(s) IN Arith(s, v, s.d, v > 255)
SBC(s) == LET v == 256 + s.A - s.d - (1 - C(s)) IN Arith(s, v, 255 - s.d, v > 255)

\* Read, modify, write: the byte read is in d.
Modify(s, v) == TEST([s EXCEPT !.d = v], v)
DEC(s) == Modify(s, (s.d + 255) % 256)
INC(s) == Modify(s, (s.d + 1) % 256)

\* The tables of the shifts: the value, and the bit that becomes the carry.
AslValue(d) == (2 * d) % 256
LsrValue(d) == d \div 2
RolValue(d, c) == ((2 * d) % 256) + c
RorValue(d, c) == (d \div 2) + 128 * c
Shifted(s, v, out) == Flag(s, {"N", "Z", "C"}, NZ(v) \cup CIf(out))
Shift(s, v, k) == Shifted([s EXCEPT !.d = v], v, On(s.d, k))
ShiftA(s, v, k) == Shifted([s EXCEPT !.A = v], v, On(s.A, k))
ASL(s) == Shift(s, AslValue(s.d), 7)
LSR(s) == Shift(s, LsrValue(s.d), 0)
ROL(s) == Shift(s, RolValue(s.d, C(s)), 7)
ROR(s) == Shift(s, RorValue(s.d, C(s)), 0)
ASLA(s) == ShiftA(s, AslValue(s.A), 7)
LSRA(s) == ShiftA(s, LsrValue(s.A), 0)
ROLA(s) == ShiftA(s, RolValue(s.A, C(s)), 7)
RORA(s) == ShiftA(s, RorValue(s.A, C(s)), 0)

JMP(s) == [s EXCEPT !.PC = s.ea]
INDIRECT(s) == LET q == K6502_ReadW2(s, s.ea) IN At(q, q.d)
\* The address of the last byte of the instruction is pushed.
Call(s, target) == CLK([PUSHW(s, s.PC) EXCEPT !.PC = target], 6)
JumpTo(l, h) == Call(h, l.d + 256 * h.d)
JSR(s) == LET l == Fetch6502(s) IN JumpTo(l, K6502_Read(l, l.PC))
\* A taken branch takes a clock more when the target, less one, is not in the
\* page of the operand.
BRA(s, taken) ==
  LET q == K6502_Read(s, s.PC)
      t == (s.PC + q.d + (IF q.d > 127 THEN \hFF00 ELSE 0)) % 65536
  IN  IF taken THEN CLK([q EXCEPT !.PC = (t + 1) % 65536], 3 + (IF Bit(s.PC, 8) # Bit(t, 8) THEN 1 ELSE 0))
      ELSE CLK([s EXCEPT !.PC = (@ + 1) % 65536], 2)

-----------------------------------------------------------------------------
(* Interrupts. *)

Vector(s, a) == LET q == K6502_ReadW(s, a) IN [q EXCEPT !.PC = q.d]

\* The entry NMI and IRQ share: what is pushed never has FLAG_B.
Interrupt(s, vector) ==
  LET q == PUSH(PUSHW(CLK(s, 7), s.PC), FlagByte(s.F \ {"B"}))
  IN  Vector(SETF(RSTF(q, {"D"}), {"I"}), vector)
TakeNmi(s) == Interrupt([s EXCEPT !.nmi = FALSE], \hFFFA)
TakeIRQ(s) == Interrupt([s EXCEPT !.board.irq = FALSE], \hFFFE)

BRK(s) ==
  LET q == SETF(PUSHW(s, (s.PC + 1) % 65536), {"B"})
  IN  CLK(Vector(RSTF(SETF(PUSH(q, FlagByte(q.F)), {"I"}), {"D"}), \hFFFE), 7)
PHP(s) == LET q == SETF(s, {"B"}) IN CLK(PUSH(q, FlagByte(q.F)), 3)
PLP(s) == LET q == POP(s) IN [q EXCEPT !.F = FlagSet(q.d) \cup {"R"}]
PLA(s) == LET q == POP(s) IN LDA(q, q.d)
\* CLI lets a pending request in at once.
CLI(s) ==
  LET q == CLK(RSTF(s, {"I"}), 2) IN IF "I" \in s.F /\ s.board.irq THEN TakeIRQ(q) ELSE q

-----------------------------------------------------------------------------
(* The opcodes. *)

\* The unlisted instructions and, one byte and two clocks, all others.
NOP(s, c) ==
  LET skip(n, k) == CLK([s EXCEPT !.PC = (@ + n) % 65536], k)
  IN  CASE c \in {\h80, \h82, \h89, \hC2, \hE2} -> skip(1, 2)
        [] c \in {\h04, \h44, \h64} -> skip(1, 3)
        [] c \in {\h14, \h34, \h54, \h74, \hD4, \hF4} -> skip(1, 4)
        [] c \in {\h0C, \h1C, \h3C, \h5C, \h7C, \hDC, \hFC} -> skip(2, 4)
        [] OTHER -> skip(0, 2)

Code00(s, c) ==
  CASE c = \h00 -> BRK(s) [] c = \h01 -> CLK(ORA(A_IX(s)), 6)
    [] c = \h05 -> CLK(ORA(A_ZP(s)), 3) [] c = \h06 -> CLK(ASL(Load(AA_ZP(s))), 5)
    [] c = \h08 -> PHP(s) [] c = \h09 -> CLK(ORA(A_IMM(s)), 2) [] c = \h0A -> CLK(ASLA(s), 2)
    [] c = \h0D -> CLK(ORA(A_ABS(s)), 4) [] c = \h0E -> CLK(ASL(Load(AA_ABS(s))), 6)
    [] c = \h10 -> BRA(s, "N" \notin s.F) [] c = \h11 -> CLK(ORA(A_IY(s)), 5)
    [] c = \h15 -> CLK(ORA(A_ZPX(s)), 4) [] c = \h16 -> CLK(ASL(Load(AA_ZPX(s))), 6)
    [] c = \h18 -> CLK(RSTF(s, {"C"}), 2) [] c = \h19 -> CLK(ORA(A_ABSY(s)), 4)
    [] c = \h1D -> CLK(ORA(A_ABSX(s)), 4) [] c = \h1E -> CLK(ASL(Load(AA_ABSX(s))), 7)
    [] OTHER -> NOP(s, c)
Code20(s, c) ==
  CASE c = \h20 -> JSR(s) [] c = \h21 -> CLK(AND(A_IX(s)), 6)
    [] c = \h24 -> CLK(BIT(A_ZP(s)), 3) [] c = \h25 -> CLK(AND(A_ZP(s)), 3)
    [] c = \h26 -> CLK(ROL(Load(AA_ZP(s))), 5) [] c = \h28 -> CLK(PLP(s), 4)
    [] c = \h29 -> CLK(AND(A_IMM(s)), 2) [] c = \h2A -> CLK(ROLA(s), 2)
    [] c = \h2C -> CLK(BIT(A_ABS(s)), 4) [] c = \h2D -> CLK(AND(A_ABS(s)), 4)
    [] c = \h2E -> CLK(ROL(Load(AA_ABS(s))), 6) [] c = \h30 -> BRA(s, "N" \in s.F)
    [] c = \h31 -> CLK(AND(A_IY(s)), 5) [] c = \h35 -> CLK(AND(A_ZPX(s)), 4)
    [] c = \h36 -> CLK(ROL(Load(AA_ZPX(s))), 6) [] c = \h38 -> CLK(SETF(s, {"C"}), 2)
    [] c = \h39 -> CLK(AND(A_ABSY(s)), 4) [] c = \h3D -> CLK(AND(A_ABSX(s)), 4)
    [] c = \h3E -> CLK(ROL(Load(AA_ABSX(s))), 7) [] OTHER -> NOP(s, c)
Code40(s, c) ==
  CASE c = \h40 -> CLK(POPW(PLP(s), 0), 6) [] c = \h41 -> CLK(EOR(A_IX(s)), 6)
    [] c = \h45 -> CLK(EOR(A_ZP(s)), 3) [] c = \h46 -> CLK(LSR(Load(AA_ZP(s))), 5)
    [] c = \h48 -> CLK(PUSH(s, s.A), 3) [] c = \h49 -> CLK(EOR(A_IMM(s)), 2)
    [] c = \h4A -> CLK(LSRA(s), 2) [] c = \h4C -> CLK(JMP(AA_ABS(s)), 3)
    [] c = \h4D -> CLK(EOR(A_ABS(s)), 4) [] c = \h4E -> CLK(LSR(Load(AA_ABS(s))), 6)
    [] c = \h50 -> BRA(s, "V" \notin s.F) [] c = \h51 -> CLK(EOR(A_IY(s)), 5)
    [] c = \h55 -> CLK(EOR(A_ZPX(s)), 4) [] c = \h56 -> CLK(LSR(Load(AA_ZPX(s))), 6)
    [] c = \h58 -> CLI(s) [] c = \h59 -> CLK(EOR(A_ABSY(s)), 4)
    [] c = \h5D -> CLK(EOR(A_ABSX(s)), 4) [] c = \h5E -> CLK(LSR(Load(AA_ABSX(s))), 7)
    [] OTHER -> NOP(s, c)
Code60(s, c) ==
  CASE c = \h60 -> CLK(POPW(s, 1), 6) [] c = \h61 -> CLK(ADC(A_IX(s)), 6)
    [] c = \h65 -> CLK(ADC(A_ZP(s)), 3) [] c = \h66 -> CLK(ROR(Load(AA_ZP(s))), 5)
    [] c = \h68 -> CLK(PLA(s), 4) [] c = \h69 -> CLK(ADC(A_IMM(s)), 2)
    [] c = \h6A -> CLK(RORA(s), 2) [] c = \h6C -> CLK(JMP(INDIRECT(AA_ABS(s))), 5)
    [] c = \h6D -> CLK(ADC(A_ABS(s)), 4) [] c = \h6E -> CLK(ROR(Load(AA_ABS(s))), 6)
    [] c = \h70 -> BRA(s, "V" \in s.F) [] c = \h71 -> CLK(ADC(A_IY(s)), 5)
    [] c = \h75 -> CLK(ADC(A_ZPX(s)), 4) [] c = \h76 -> CLK(ROR(Load(AA_ZPX(s))), 6)
    [] c = \h78 -> CLK(SETF(s, {"I"}), 2) [] c = \h79 -> CLK(ADC(A_ABSY(s)), 4)
    [] c = \h7D -> CLK(ADC(A_ABSX(s)), 4) [] c = \h7E -> CLK(ROR(Load(AA_ABSX(s))), 7)
    [] OTHER -> NOP(s, c)
Code80(s, c) ==
  CASE c = \h81 -> CLK(STA(AA_IX(s)), 6) [] c = \h84 -> CLK(STY(AA_ZP(s)), 3)
    [] c = \h85 -> CLK(STA(AA_ZP(s)), 3) [] c = \h86 -> CLK(STX(AA_ZP(s)), 3)
    [] c = \h88 -> CLK(LDY(s, (s.Y + 255) % 256), 2) [] c = \h8A -> CLK(LDA(s, s.X), 2)
    [] c = \h8C -> CLK(STY(AA_ABS(s)), 4) [] c = \h8D -> CLK(STA(AA_ABS(s)), 4)
    [] c = \h8E -> CLK(STX(AA_ABS(s)), 4) [] c = \h90 -> BRA(s, "C" \notin s.F)
    [] c = \h91 -> CLK(STA(AA_IY(s)), 6) [] c = \h94 -> CLK(STY(AA_ZPX(s)), 4)
    [] c = \h95 -> CLK(STA(AA_ZPX(s)), 4) [] c = \h96 -> CLK(STX(AA_ZPY(s)), 4)
    [] c = \h98 -> CLK(LDA(s, s.Y), 2) [] c = \h99 -> CLK(STA(AA_ABSY(s)), 5)
    [] c = \h9A -> CLK([s EXCEPT !.SP = s.X], 2) [] c = \h9D -> CLK(STA(AA_ABSX(s)), 5)
    [] OTHER -> NOP(s, c)
CodeA0(s, c) ==
  CASE c = \hA0 -> CLK(LDYD(A_IMM(s)), 2) [] c = \hA1 -> CLK(LDAD(A_IX(s)), 6)
    [] c = \hA2 -> CLK(LDXD(A_IMM(s)), 2) [] c = \hA4 -> CLK(LDYD(A_ZP(s)), 3)
    [] c = \hA5 -> CLK(LDAD(A_ZP(s)), 3) [] c = \hA6 -> CLK(LDXD(A_ZP(s)), 3)
    [] c = \hA8 -> CLK(LDY(s, s.A), 2) [] c = \hA9 -> CLK(LDAD(A_IMM(s)), 2)
    [] c = \hAA -> CLK(LDX(s, s.A), 2) [] c = \hAC -> CLK(LDYD(A_ABS(s)), 4)
    [] c = \hAD -> CLK(LDAD(A_ABS(s)), 4) [] c = \hAE -> CLK(LDXD(A_ABS(s)), 4)
    [] c = \hB0 -> BRA(s, "C" \in s.F) [] c = \hB1 -> CLK(LDAD(A_IY(s)), 5)
    [] c = \hB4 -> CLK(LDYD(A_ZPX(s)), 4) [] c = \hB5 -> CLK(LDAD(A_ZPX(s)), 4)
    [] c = \hB6 -> CLK(LDXD(A_ZPY(s)), 4) [] c = \hB8 -> CLK(RSTF(s, {"V"}), 2)
    [] c = \hB9 -> CLK(LDAD(A_ABSY(s)), 4) [] c = \hBA -> CLK(LDX(s, s.SP), 2)
    [] c = \hBC -> CLK(LDYD(A_ABSX(s)), 4) [] c = \hBD -> CLK(LDAD(A_ABSX(s)), 4)
    [] c = \hBE -> CLK(LDXD(A_ABSY(s)), 4) [] OTHER -> NOP(s, c)
CodeC0(s, c) ==
  CASE c = \hC0 -> CLK(CPY(A_IMM(s)), 2) [] c = \hC1 -> CLK(CMP(A_IX(s)), 6)
    [] c = \hC4 -> CLK(CPY(A_ZP(s)), 3) [] c = \hC5 -> CLK(CMP(A_ZP(s)), 3)
    [] c = \hC6 -> CLK(DEC(Load(AA_ZP(s))), 5) [] c = \hC8 -> CLK(LDY(s, (s.Y + 1) % 256), 2)
    [] c = \hC9 -> CLK(CMP(A_IMM(s)), 2) [] c = \hCA -> CLK(LDX(s, (s.X + 255) % 256), 2)
    [] c = \hCC -> CLK(CPY(A_ABS(s)), 4) [] c = \hCD -> CLK(CMP(A_ABS(s)), 4)
    [] c = \hCE -> CLK(DEC(Load(AA_ABS(s))), 6) [] c = \hD0 -> BRA(s, "Z" \notin s.F)
    [] c = \hD1 -> CLK(CMP(A_IY(s)), 5) [] c = \hD5 -> CLK(CMP(A_ZPX(s)), 4)
    [] c = \hD6 -> CLK(DEC(Load(AA_ZPX(s))), 6) [] c = \hD8 -> CLK(RSTF(s, {"D"}), 2)
    [] c = \hD9 -> CLK(CMP(A_ABSY(s)), 4) [] c = \hDD -> CLK(CMP(A_ABSX(s)), 4)
    [] c = \hDE -> CLK(DEC(Load(AA_ABSX(s))), 7) [] OTHER -> NOP(s, c)
CodeE0(s, c) ==
  CASE c = \hE0 -> CLK(CPX(A_IMM(s)), 2) [] c = \hE1 -> CLK(SBC(A_IX(s)), 6)
    [] c = \hE4 -> CLK(CPX(A_ZP(s)), 3) [] c = \hE5 -> CLK(SBC(A_ZP(s)), 3)
    [] c = \hE6 -> CLK(INC(Load(AA_ZP(s))), 5) [] c = \hE8 -> CLK(LDX(s, (s.X + 1) % 256), 2)
    [] c = \hE9 -> CLK(SBC(A_IMM(s)), 2) [] c = \hEA -> CLK(s, 2)
    [] c = \hEC -> CLK(CPX(A_ABS(s)), 4) [] c = \hED -> CLK(SBC(A_ABS(s)), 4)
    [] c = \hEE -> CLK(INC(Load(AA_ABS(s))), 6) [] c = \hF0 -> BRA(s, "Z" \in s.F)
    [] c = \hF1 -> CLK(SBC(A_IY(s)), 5) [] c = \hF5 -> CLK(SBC(A_ZPX(s)), 4)
    [] c = \hF6 -> CLK(INC(Load(AA_ZPX(s))), 6) [] c = \hF8 -> CLK(SETF(s, {"D"}), 2)
    [] c = \hF9 -> CLK(SBC(A_ABSY(s)), 4) [] c = \hFD -> CLK(SBC(A_ABSX(s)), 4)
    [] c = \hFE -> CLK(INC(Load(AA_ABSX(s))), 7) [] OTHER -> NOP(s, c)

\* STA, STX and STY; ASL, ROL, LSR, ROR, DEC and INC on memory.
Stores ==
  {\h81, \h84, \h85, \h86, \h8C, \h8D, \h8E, \h91, \h94, \h95, \h96, \h99, \h9D}
  \cup {r + k : r \in {\h00, \h20, \h40, \h60, \hC0, \hE0}, k \in {\h06, \h0E, \h16, \h1E}}

\* The code of an instruction, up to the write of what it stores.
Execute6502(q, c) ==
  CASE c < 32 -> Code00(q, c) [] c \in 32..63 -> Code20(q, c)
    [] c \in 64..95 -> Code40(q, c) [] c \in 96..127 -> Code60(q, c)
    [] c \in 128..159 -> Code80(q, c) [] c \in 160..191 -> CodeA0(q, c)
    [] c \in 192..223 -> CodeC0(q, c) [] OTHER -> CodeE0(q, c)

\* One turn of the loop of K6502_Step.
WriteBack(s, c) == IF c \in Stores THEN K6502_Write(s, s.ea, s.d) ELSE s
ExecuteOpcode(q) == WriteBack(Execute6502(q, q.d), q.d)
Instruction(s) == ExecuteOpcode(Fetch6502(s))

\* What K6502_Step does first: NMI before IRQ, IRQ only if I is clear.
\* Mutant: an IRQ that finds I set is forgotten.
EnterInterrupt_Drop(s) ==
  CASE s.nmi -> TakeNmi(s)
    [] ~s.nmi /\ s.board.irq /\ "I" \notin s.F -> TakeIRQ(s)
    [] OTHER -> [s EXCEPT !.board.irq = FALSE]
EnterInterrupt(s) ==
  CASE s.nmi -> TakeNmi(s)
    [] ~s.nmi /\ s.board.irq /\ "I" \notin s.F -> TakeIRQ(s)
    [] OTHER -> s

K6502_Reset(s) ==
  Vector([s EXCEPT !.SP = 255, !.A = 0, !.X = 0, !.Y = 0, !.F = {"Z", "R", "I"},
                   !.nmi = FALSE, !.board.irq = FALSE, !.clk = 0], \hFFFC)
=============================================================================
