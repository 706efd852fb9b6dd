-------------------------------- MODULE SnesCpu --------------------------------
(***************************************************************************)
(* The 65816 interpreter of the SNES (sncpu_c.c): its registers, the       *)
(* private copies it works on inside a slice, memory access, the           *)
(* operations the opcode table is built from, and the entry into           *)
(* interrupts (sncpu.c).  SnesOpcodes holds the table.                     *)
(*                                                                         *)
(* A processor is a record: the registers A, X, Y, S, DP (16 bits), DB     *)
(* (already shifted to bits 16-23), PC (with the program bank), P (a set   *)
(* of flags) and E; the copies live (fC, fZ, fN: the flags of P that are   *)
(* stale there during a slice) and mod (uOpcodeMod); cyc (Cycles), sig     *)
(* (uSignal), mem (the bytes written so far); d and ea, the temporaries of *)
(* an instruction.  Memory is RAM or ROM: what a port does when it is read *)
(* or written is the subject of other modules.                             *)
(***************************************************************************)
EXTENDS Integers, Sequences, FiniteSets, TLC, Bitwise

CONSTANTS
  Image(_),       \* the contents of memory at the start
  IsRam(_),       \* the addresses that can be written (Bank[].bRAM)
  Speed(_)        \* cycles of one access at an address (Bank[].uBankCycle)

FAST == 6
SLOW == 8

Flags == {"N", "V", "M", "X", "D", "I", "Z", "C"}
Weight == [N |-> 128, V |-> 64, M |-> 32, X |-> 16, D |-> 8, I |-> 4, Z |-> 2, C |-> 1]
FlagByte(f) ==
  LET w(x) == IF x \in f THEN Weight[x] ELSE 0
  IN  w("N") + w("V") + w("M") + w("X") + w("D") + w("I") + w("Z") + w("C")
FlagSet(v) == {x \in Flags : (v \div Weight[x]) % 2 = 1}

\* Widths in bytes: of memory and accumulator, of the index registers.
Wm(s) == IF s.mod \cap {"M", "E"} = {} THEN 2 ELSE 1
Wx(s) == IF s.mod \cap {"X", "E"} = {} THEN 2 ELSE 1
Low(v, n) == v % 256^n
\* Register r after a store of n bytes.
Put(r, n, v) == IF n = 2 THEN v % 65536 ELSE r - (r % 256) + (v % 256)
Sign(v, n) == (v \div (128 * 256^(n - 1))) % 2 = 1

SUBCYCLES(s, k) == [s EXCEPT !.cyc = @ - k * FAST]

-----------------------------------------------------------------------------
(* Flags and modes. *)

SETFLAG_E(s, e) ==
  IF e THEN [s EXCEPT !.E = TRUE, !.mod = {"E"}, !.P = @ \cup {"M", "X"},
                      !.S = 256 + (@ % 256), !.DP = 0]
  ELSE [s EXCEPT !.E = FALSE, !.mod = s.P \cap {"M", "X"}]

ClearHigh(s) == [s EXCEPT !.X = @ % 256, !.Y = @ % 256]
UNPACKFLAGS(s) ==
  LET q == [s EXCEPT !.live = s.P \cap {"N", "Z", "C"}]
  IN  SETFLAG_E(IF "X" \in s.P THEN ClearHigh(q) ELSE q, s.E)
PACKFLAGS(s) == [s EXCEPT !.P = (@ \ {"N", "Z", "C"}) \cup s.live]

SET_P(s, p) == UNPACKFLAGS([s EXCEPT !.P = p])

\* Flags g of the live ones become what holds.
Live(s, g, now) == [s EXCEPT !.live = (@ \ g) \cup now]
When(c, f) == IF c THEN {f} ELSE {}
SETFLAG_NZ(s, n, v) == Live(s, {"N", "Z"}, When(Sign(v, n), "N") \cup When(Low(v, n) = 0, "Z"))
SETFLAG_C(s, c) == Live(s, {"C"}, When(c, "C"))
SETFLAG_V(s, c) == [s EXCEPT !.P = (@ \ {"V"}) \cup When(c, "V")]
Carry(s) == IF "C" \in s.live THEN 1 ELSE 0

\* Mutant: the high bytes of the index registers survive.
SEP_High(s, t) ==
  LET f == FlagSet(t)
      q == Live([s EXCEPT !.P = @ \cup f], f \cap {"N", "Z", "C"}, f \cap {"N", "Z", "C"})
  IN  SETFLAG_E(q, s.E)
SEP(s, t) ==
  LET f == FlagSet(t)
      q == Live([s EXCEPT !.P = @ \cup f], f \cap {"N", "Z", "C"}, f \cap {"N", "Z", "C"})
  IN  SETFLAG_E(IF "X" \in f THEN ClearHigh(q) ELSE q, s.E)
REP(s, t) ==
  LET f == FlagSet(t) IN SETFLAG_E(Live([s EXCEPT !.P = @ \ f], f \cap {"N", "Z", "C"}, {}), s.E)

-----------------------------------------------------------------------------
(* Memory and stack. *)

Byte(s, a) == IF a \in DOMAIN s.mem THEN s.mem[a] ELSE Image(a)
Word(s, a, n) ==
  Byte(s, a) + (IF n > 1 THEN 256 * Byte(s, a + 1) ELSE 0) + (IF n > 2 THEN 65536 * Byte(s, a + 2) ELSE 0)
Write8(s, a, v) == IF IsRam(a) THEN [s EXCEPT !.mem = (a :> (v % 256)) @@ @] ELSE s

FETCH(s, n) == [s EXCEPT !.d = Word(s, s.PC, n), !.PC = @ + n, !.cyc = @ - n * Speed(s.PC)]
READ(s, n) == [s EXCEPT !.d = Word(s, s.ea, n), !.cyc = @ - n * Speed(s.ea)]
WRITE(s, n, v) ==
  LET q == Write8([s EXCEPT !.cyc = @ - n * Speed(s.ea)], s.ea, v)
  IN  IF n = 2 THEN Write8(q, s.ea + 1, v \div 256) ELSE q

\* In emulation mode the stack stays in its page.
Moved(s, k) == IF s.E THEN s.S - (s.S % 256) + ((s.S + k) % 256) ELSE (s.S + k) % 65536
Push8(s, v) == [Write8(s, s.S, v) EXCEPT !.S = Moved(s, -1)]
Pop8(s) == LET p == Moved(s, 1) IN [s EXCEPT !.S = p, !.d = Byte(s, p), !.cyc = @ - SLOW]
PUSH8(s, v) == Push8([s EXCEPT !.cyc = @ - SLOW], v)
PUSH16(s, v) == PUSH8(PUSH8(s, v \div 256), v)
PUSH24(s, v) == PUSH16(PUSH8(s, v \div 65536), v)
PUSH(s, n, v) == IF n = 2 THEN PUSH16(s, v) ELSE PUSH8(s, v)
POP8(s) == Pop8(s)
POP16(s) == LET l == Pop8(s) h == Pop8(l) IN [h EXCEPT !.d = l.d + 256 * @]
POP24(s) == LET l == POP16(s) h == Pop8(l) IN [h EXCEPT !.d = l.d + 65536 * @]
POP(s, n) == IF n = 2 THEN POP16(s) ELSE POP8(s)

\* The program bank survives, unless a return address wraps to 0x10000.
SET_PC16(s, a) == [s EXCEPT !.PC = ((@ - 1) - ((@ - 1) % 65536)) | a]
SET_PC24(s, a) == [s EXCEPT !.PC = a % 2^24]

-----------------------------------------------------------------------------
(* Addressing modes: the address is left in ea. *)

At(s, a) == [s EXCEPT !.ea = a]
abs(s) == LET q == FETCH(s, 2) IN At(q, q.d + q.DB)
abs_ix(s) == LET q == abs(s) IN At(q, q.ea + q.X)
abs_iy(s) == LET q == abs(s) IN At(q, q.ea + q.Y)
abslong(s) == LET q == FETCH(s, 3) IN At(q, q.d)
abslong_ix(s) == LET q == abslong(s) IN At(q, q.ea + q.X)
dp(s) == LET q == FETCH(s, 1) IN At(q, (q.d + q.DP) % 65536)
\* Mutant: an index leaves page 0 in every mode.
Indexed_Leave(s, i) == SUBCYCLES(At(s, (s.ea + i) % 65536), 1)
\* R_DPMASK: in emulation mode an index does not leave page 0.
Indexed(s, i) == SUBCYCLES(At(s, (s.ea + i) % (IF "E" \in s.mod THEN 256 ELSE 65536)), 1)
dp_ix(s) == LET q == dp(s) IN Indexed(q, q.X)
dp_iy(s) == LET q == dp(s) IN Indexed(q, q.Y)
Indirect(s) == LET q == READ(s, 2) IN At(q, q.d + q.DB)
IndirectLong(s) == LET q == READ(s, 3) IN At(q, q.d)
dp_indirect(s) == Indirect(dp(s))
dp_ix_indirect(s) == Indirect(dp_ix(s))
dp_indirect_iy(s) == LET q == dp_indirect(s) IN At(q, q.ea + q.Y)
dp_indirectlong(s) == IndirectLong(dp(s))
dp_indirectlong_iy(s) == LET q == dp_indirectlong(s) IN At(q, q.ea + q.Y)
sr(s) == LET q == FETCH(s, 1) IN SUBCYCLES(At(q, (q.d + q.S) % 65536), 1)
sr_indirect_iy(s) == LET q == Indirect(sr(s)) IN SUBCYCLES(At(q, q.ea + q.Y), 1)
\* A store through an index takes a cycle more.
cycle(s) == SUBCYCLES(s, 1)

\* Operands.
imma(s) == FETCH(s, Wm(s))
immx(s) == FETCH(s, Wx(s))
read(s) == READ(s, Wm(s))
readx(s) == READ(s, Wx(s))

-----------------------------------------------------------------------------
(* Operations on the operand d. *)

SET_A(s, n, v) == [SETFLAG_NZ(s, n, v) EXCEPT !.A = Put(@, n, v)]
SET_X(s, v) == [SETFLAG_NZ(s, Wx(s), v) EXCEPT !.X = Put(@, Wx(s), v)]
SET_Y(s, v) == [SETFLAG_NZ(s, Wx(s), v) EXCEPT !.Y = Put(@, Wx(s), v)]
LDA(s) == SET_A(s, Wm(s), s.d)
LDX(s) == SET_X(s, s.d)
LDY(s) == SET_Y(s, s.d)
STA(s) == WRITE(s, Wm(s), s.A)
STX(s) == WRITE(s, Wx(s), s.X)
STY(s) == WRITE(s, Wx(s), s.Y)
STZ(s) == WRITE(s, Wm(s), 0)
AND(s) == SET_A(s, Wm(s), Low(s.A, Wm(s)) & s.d)
ORA(s) == SET_A(s, Wm(s), Low(s.A, Wm(s)) | s.d)
EOR(s) == SET_A(s, Wm(s), Low(s.A, Wm(s)) ^^ s.d)

\* _SNCpuDecimalADC8/16, digit by digit: a digit above 9 wraps and carries.
Digit(v, k) == (v \div 16^k) % 16
DecimalADC(c, a, v, n) ==
  LET sum[k \in 0..2 * n] ==
        IF k = 0 THEN c
        ELSE LET w == 16^(k - 1)
                 u == sum[k - 1] + w * (Digit(a, k - 1) + Digit(v, k - 1))
             IN  IF u >= 10 * w THEN ((u - 10 * w) % (16 * w)) + 16 * w ELSE u
  IN  sum[2 * n]
\* _SNCpuDecimalSBC8/16; v is the complement of the operand.
DecimalSBC(c, a, v, n) ==
  LET b == 256^n - 1 - v
      diff[k \in 0..2 * n] ==
        IF k = 0 THEN c - 1
        ELSE LET w == 16^(k - 1)
                 u == diff[k - 1] + w * (Digit(a, k - 1) - Digit(b, k - 1))
             IN  IF u < 0 \/ u >= 10 * w THEN ((u + 10 * w) % (16 * w)) - 16 * w ELSE u
  IN  (diff[2 * n] + 256^n) % (2 * 256^n)

\* The overflow is the one of the binary sum, also in decimal mode.
Added(s, v, Decimal(_, _, _, _)) ==
  LET n == Wm(s)
      a == Low(s.A, n)
      sum == a + v + Carry(s)
      r == IF "D" \in s.P THEN Decimal(Carry(s), a, v, n) ELSE sum
      q == SETFLAG_V(s, Sign(a, n) = Sign(v, n) /\ Sign(sum, n) # Sign(a, n))
  IN  SETFLAG_C(SET_A(q, n, r), (r \div 256^n) % 2 = 1)
ADC(s) == Added(s, s.d, DecimalADC)
SBC(s) == Added(s, 256^Wm(s) - 1 - s.d, DecimalSBC)

Compare(s, r, n) == SETFLAG_C(SETFLAG_NZ(s, n, Low(r, n) - s.d), Low(r, n) >= s.d)
CMP(s) == Compare(s, s.A, Wm(s))
CPX(s) == Compare(s, s.X, Wx(s))
CPY(s) == Compare(s, s.Y, Wx(s))

\* The bits of d that A has too.
Masked(s) == Low(s.A, Wm(s)) & s.d
Zero(s, v) == Live(s, {"Z"}, When(v = 0, "Z"))
BITI(s) == Zero(s, Masked(s))
BIT(s) ==
  LET n == Wm(s)
      q == SETFLAG_V(Zero(s, Masked(s)), (s.d \div (64 * 256^(n - 1))) % 2 = 1)
  IN  Live(q, {"N"}, When(Sign(s.d, n), "N"))
TRB(s) == SUBCYCLES(WRITE(Zero(s, Masked(s)), Wm(s), s.d - Masked(s)), 1)
TSB(s) == SUBCYCLES(WRITE(Zero(s, Masked(s)), Wm(s), s.d + Low(s.A, Wm(s)) - Masked(s)), 1)

\* The operations on memory or accumulator: the new value, wider than the
\* operand where a carry comes out of the top.
IncValue(v, c, n) == v + 1
DecValue(v, c, n) == v - 1
AslValue(v, c, n) == 2 * v
LsrValue(v, c, n) == v \div 2
RolValue(v, c, n) == 2 * v + c
RorValue(v, c, n) == (v + c * 256^n) \div 2

Modify(s, V(_, _, _)) ==
  LET n == Wm(s) v == V(s.d, Carry(s), n) IN SETFLAG_NZ(WRITE(s, n, v), n, v)
ModifyA(s, V(_, _, _)) ==
  LET n == Wm(s) IN SUBCYCLES(SET_A(s, n, V(Low(s.A, n), Carry(s), n)), 1)
\* The carry of a shift left or right of v.
OutLeft(s, v) == SETFLAG_C(s, Sign(v, Wm(s)))
OutRight(s, v) == SETFLAG_C(s, v % 2 = 1)
INC(s) == Modify(s, IncValue)
DEC(s) == Modify(s, DecValue)
ASL(s) == OutLeft(Modify(s, AslValue), s.d)
LSR(s) == OutRight(Modify(s, LsrValue), s.d)
ROL(s) == OutLeft(Modify(s, RolValue), s.d)
ROR(s) == OutRight(Modify(s, RorValue), s.d)

-----------------------------------------------------------------------------
(* Branches, block moves and waiting (sncpu_c.c). *)

Signed(v, n) == IF Sign(v, n) THEN v - 256^n ELSE v
\* A taken branch may leave the bank.
BRREL(s, taken) ==
  LET q == FETCH(s, 1)
  IN  IF taken THEN SUBCYCLES([q EXCEPT !.PC = @ + Signed(q.d, 1)], 1) ELSE q
BRL(s) ==
  LET q == FETCH(s, 2)
  IN  SUBCYCLES([q EXCEPT !.PC = (@ - (@ % 65536)) + ((@ + q.d) % 65536)], 1)

\* One byte moved; the instruction is executed again while A has not run out.
Move(s, step) ==
  LET to == FETCH(s, 1)
      from == FETCH(to, 1)
      n == Wx(s)
      r == READ([from EXCEPT !.DB = 65536 * to.d, !.ea = 65536 * from.d + Low(s.X, n)], 1)
      w == WRITE(At(r, 65536 * to.d + Low(s.Y, n)), 1, r.d)
  IN  SUBCYCLES([w EXCEPT !.X = Put(@, n, @ + step), !.Y = Put(@, n, @ + step),
                          !.PC = IF s.A # 0 THEN @ - 3 ELSE @, !.A = (@ - 1) % 65536], 2)

WAI(s) ==
  IF "IRQ" \in s.sig THEN SUBCYCLES([s EXCEPT !.sig = @ \ {"WAI"}], 2)
  ELSE SUBCYCLES([s EXCEPT !.sig = @ \cup {"WAI"}, !.PC = @ - 1, !.cyc = 0], 2)

-----------------------------------------------------------------------------
(* Interrupts, taken between slices: the registers are packed. *)

VectorTo(s, a) == [s EXCEPT !.PC = Word(s, a, 2)]
\* A processor stopped at WAI goes on behind it.
Awake(s) == IF "WAI" \in s.sig THEN [s EXCEPT !.PC = @ + 1, !.sig = @ \ {"WAI"}] ELSE s
Enter(s, emulation, native) ==
  LET q == Awake(s)
      pc == Push8(Push8(IF s.E THEN q ELSE Push8(q, q.PC \div 65536), q.PC \div 256), q.PC)
      p == Push8(pc, FlagByte(IF s.E THEN s.P \ {"X"} ELSE s.P))
      v == VectorTo(p, IF s.E THEN emulation ELSE native)
  IN  [v EXCEPT !.P = @ \ {"D"}, !.cyc = @ - (6 * SLOW + 2 * FAST)]
SNCPUNMI(s) == Enter(s, \hFFFA, \hFFEA)
SNCPUIRQ(s) == IF "I" \in s.P THEN s ELSE [Enter(s, \hFFFE, \hFFEE) EXCEPT !.P = @ \cup {"I"}]
=============================================================================
