------------------------------- MODULE NesProgram -------------------------------
(***************************************************************************)
(* The CPU of the NES executing a game's code a few instructions at a      *)
(* time, between interrupts: the instruction table, and the protocols of   *)
(* the PPU's ports.  The code lies in work RAM from Origin on.             *)
(***************************************************************************)
EXTENDS NesCpu

CONSTANTS
  Games,          \* names of the games
  Consoles(_),    \* the consoles a game may find itself in
  Code(_, _),     \* the code a game may execute next, after so many pieces:
                  \* [bytes |-> sequence of bytes, n |-> instructions in it]
  MaxPieces       \* bound: pieces of code executed

VARIABLES
  game,
  s,              \* the console
  was,            \* the console before the last piece, its code in place
  piece,          \* the last piece
  pieces,         \* pieces executed so far
  pointer         \* the PPU address the game believes it has set:
                  \* [known, first, addr]

vars == <<game, s, was, piece, pieces, pointer>>

Origin == \h0200
NoPiece == [bytes |-> <<>>, n |-> 0]

-----------------------------------------------------------------------------
RECURSIVE Instructions(_, _)
Instructions(q, n) == IF n = 0 THEN q ELSE Instructions(Instruction(q), n - 1)

Placed(q, bytes) ==
  [q EXCEPT !.PC = Origin,
            !.ram = [a \in Origin..(Origin + Len(bytes) - 1) |-> bytes[a - Origin + 1]] @@ @]

\* What a game keeps in mind: a pair of writes to $2006 sets the address, a
\* read of $2002 says that the next write is the first of a pair, $2007 moves
\* the address by the step chosen in $2000.  first is the half of a pair
\* already written, -1 if none, -2 if the game has lost count.
IsStore(p) == p.n = 2 /\ p.bytes[3] = \h8D
StorePort(p) == p.bytes[4] + 256 * p.bytes[5]
Loads(p, port) == p.n = 1 /\ p.bytes[1] = \hAD /\ p.bytes[2] + 256 * p.bytes[3] = port
Believed(b, p, step) ==
  LET d == p.bytes[2]
  IN  CASE Loads(p, \h2002) -> [b EXCEPT !.first = -1]
        [] Loads(p, \h2007) -> [b EXCEPT !.addr = (@ + step) % 65536]
        [] IsStore(p) /\ StorePort(p) = \h2007 -> [b EXCEPT !.addr = (@ + step) % 65536]
        [] IsStore(p) /\ StorePort(p) = \h2006 /\ b.first = -1 -> [b EXCEPT !.first = d]
        [] IsStore(p) /\ StorePort(p) = \h2006 /\ b.first >= 0 ->
             [known |-> TRUE, first |-> -1, addr |-> 256 * (b.first % 64) + d]
        [] IsStore(p) /\ StorePort(p) = \h2006 /\ b.first = -2 -> [b EXCEPT !.known = FALSE]
        [] IsStore(p) /\ StorePort(p) = \h2005 -> [b EXCEPT !.first = -2]
        [] IsStore(p) /\ StorePort(p) = \h2000 /\ b.first # -1 -> [b EXCEPT !.first = -2]
        [] OTHER -> b

Init ==
  /\ game \in Games
  /\ s \in Consoles(game)
  /\ was = s
  /\ piece = NoPiece
  /\ pieces = 0
  /\ pointer = [known |-> FALSE, first |-> -1, addr |-> 0]

Execute ==
  /\ pieces < MaxPieces
  /\ piece' \in Code(game, pieces)
  /\ was' = Placed(s, piece'.bytes)
  /\ s' = Instructions(was', piece'.n)
  /\ pieces' = pieces + 1
  /\ pointer' = Believed(pointer, piece', IF On(s.R0, 2) THEN 32 ELSE 1)
  /\ UNCHANGED game

Spec == Init /\ [][Execute]_vars

-----------------------------------------------------------------------------
(* The 6502's instructions as its manual defines them: where the opcode is   *)
(* made of fields, aaabbbcc, they name the operation and the addressing mode.*)

Op == piece.bytes[1]
Aaa == Op \div 32
Bbb == Field(Op, 2, 3)
Lo == piece.bytes[2]
Abs == piece.bytes[2] + 256 * piece.bytes[3]
\* Memory: work RAM and ROM.
Peek(a) == IF a < \h2000 THEN Get(was.ram, a % \h800)
           ELSE Byte(was, was.board.cpu[(a - \h8000) \div \h2000], a % \h2000)
Poke(q, a, v) == IF a < \h2000 THEN [q EXCEPT !.ram = Put(@, a % \h800, v)] ELSE q
IsMemory(a) == a \in 0..\h1FFF \cup \h8000..\hFFFF
Pointer(z) == Peek(z % 256) + 256 * Peek((z + 1) % 256)
Signed(d) == IF d > 127 THEN d - 256 ELSE d
Crosses(a, i) == IF (a \div 256) # ((a + i) \div 256) THEN 1 ELSE 0

\* The operand's address, the instruction's length, its clocks when it reads
\* and when it writes; i is the index register.
Mode(i) ==
  CASE Bbb = 0 -> <<Pointer(Lo + was.X), 2, 6, 6>>
    [] Bbb = 1 -> <<Lo, 2, 3, 3>>
    [] Bbb = 2 -> <<Origin + 1, 2, 2, 2>>
    [] Bbb = 3 -> <<Abs, 3, 4, 4>>
    [] Bbb = 4 -> <<(Pointer(Lo) + was.Y) % 65536, 2, 5 + Crosses(Pointer(Lo), was.Y), 6>>
    [] Bbb = 5 -> <<(Lo + i) % 256, 2, 4, 4>>
    [] Bbb = 6 -> <<(Abs + was.Y) % 65536, 3, 4 + Crosses(Abs, was.Y), 5>>
    [] Bbb = 7 -> <<(Abs + i) % 65536, 3, 4 + Crosses(Abs, i), 5>>
\* Outside the group cc = 1 mode 0 is immediate, and 4 and 6 address nothing.
Operand(i) == IF Op % 4 # 1 /\ Bbb \in {0, 4, 6} THEN <<Origin + 1, 2, 2, 2>> ELSE Mode(i)

Carry == IF "C" \in was.F THEN 1 ELSE 0
\* Registers and flags after the piece, and the byte written, if any.
Result(f, flags) == [was EXCEPT !.F = (@ \ f) \cup flags]
If(c, x) == IF c THEN {x} ELSE {}
NZOf(v) == If(v % 256 > 127, "N") \cup If(v % 256 = 0, "Z")
Bits(x, y, B(_, _)) ==
  LET p(k) == IF B(On(x, k), On(y, k)) THEN 2^k ELSE 0
  IN  p(0) + p(1) + p(2) + p(3) + p(4) + p(5) + p(6) + p(7)
\* A receives v + carry-in of a sum or difference with the signed value w.
Sum(v, w, carry) ==
  [Result({"N", "V", "Z", "C"}, NZOf(v) \cup If(w \notin -128..127, "V") \cup If(carry, "C"))
     EXCEPT !.A = v % 256]
\* Register r receives v, compares with d.
To(r, v) == [Result({"N", "Z"}, NZOf(v)) EXCEPT ![r] = v % 256]
Logic(v) == To("A", v)
With(r, d) == Result({"N", "Z", "C"}, NZOf(256 + r - d) \cup If(r >= d, "C"))
GroupOne(d) ==
  CASE Aaa = 0 -> Logic(Bits(was.A, d, LAMBDA p, q : p \/ q))
    [] Aaa = 1 -> Logic(Bits(was.A, d, LAMBDA p, q : p /\ q))
    [] Aaa = 2 -> Logic(Bits(was.A, d, LAMBDA p, q : p # q))
    [] Aaa = 3 -> Sum(was.A + d + Carry, Signed(was.A) + Signed(d) + Carry, was.A + d + Carry > 255)
    [] Aaa = 5 -> Logic(d)
    [] Aaa = 6 -> With(was.A, d)
    [] Aaa = 7 -> Sum(255 + was.A - d + Carry, Signed(was.A) - Signed(d) - 1 + Carry, was.A + Carry > d)
    [] OTHER -> was
\* BIT, LDY, CPY and CPX.
GroupZero(d) ==
  CASE Aaa = 1 -> Result({"N", "V", "Z"}, If(d > 127, "N") \cup If(On(d, 6), "V")
                           \cup If(Bits(was.A, d, LAMBDA p, q : p /\ q) = 0, "Z"))
    [] Aaa = 5 -> To("Y", d)
    [] Aaa = 6 -> With(was.Y, d)
    [] Aaa = 7 -> With(was.X, d)
\* Shifts and counts of a byte: the new byte and the carry.
GroupTwo(d) ==
  CASE Aaa = 0 -> <<2 * d, d > 127>>
    [] Aaa = 1 -> <<2 * d + Carry, d > 127>>
    [] Aaa = 2 -> <<d \div 2, d % 2 = 1>>
    [] Aaa = 3 -> <<(d \div 2) + 128 * Carry, d % 2 = 1>>
    [] Aaa = 6 -> <<d + 255, Carry = 1>>
    [] Aaa = 7 -> <<d + 1, Carry = 1>>
Counted(c) == Result({"N", "Z", "C"}, NZOf(c[1]) \cup If(c[2], "C"))

\* The stack: pushes grow down from SP, Top(1) is the byte pushed last.
Push(q, v) == [Poke(q, 256 + q.SP, v) EXCEPT !.SP = (@ + 255) % 256]
PushWord(q, w) == Push(Push(q, w \div 256), w % 256)
Top(k) == Peek(256 + ((was.SP + k) % 256))
Popped(q, n) == [q EXCEPT !.SP = (@ + n) % 256]
Status == FlagByte(was.F \cup {"B", "R"})
Restored == [was EXCEPT !.F = FlagSet(Top(1)) \cup {"R"}]

Jump(q, target, clocks) == [q EXCEPT !.PC = target % 65536, !.clk = was.clk + clocks]
After(q, length, clocks) == Jump(q, Origin + length, clocks)

\* BRK, JSR, RTI, RTS and the two JMPs.
Jumps ==
  LET vector == Peek(\hFFFE) + 256 * Peek(\hFFFF)
      broken == [was EXCEPT !.F = (@ \cup {"I"}) \ {"D"}]
  IN  CASE Op = \h00 -> Jump(Push(PushWord(broken, Origin + 2), Status), vector, 7)
        [] Op = \h20 -> Jump(PushWord(was, Origin + 2), Abs, 6)
        [] Op = \h40 -> Jump(Popped(Restored, 3), Top(2) + 256 * Top(3), 6)
        [] Op = \h60 -> Jump(Popped(was, 2), Top(1) + 256 * Top(2) + 1, 6)
        [] Op = \h4C -> Jump(was, Abs, 3)
        [] Op = \h6C -> Jump(was, Peek(Abs) + 256 * Peek(256 * (Abs \div 256) + ((Abs + 1) % 256)), 5)

\* Instructions of one byte: the stack, the registers, the flags.
Implied ==
  LET flag == <<"C", "I", "V", "D">>[(Op \div 64) + 1]
      shift == GroupTwo(was.A)
  IN  CASE Op = \h08 -> After(Push(was, Status), 1, 3)
        [] Op = \h48 -> After(Push(was, was.A), 1, 3)
        [] Op = \h28 -> After(Popped(Restored, 1), 1, 4)
        [] Op = \h68 -> After(Popped(To("A", Top(1)), 1), 1, 4)
        [] Op = \h88 -> After(To("Y", was.Y + 255), 1, 2)
        [] Op = \hA8 -> After(To("Y", was.A), 1, 2)
        [] Op = \hC8 -> After(To("Y", was.Y + 1), 1, 2)
        [] Op = \hE8 -> After(To("X", was.X + 1), 1, 2)
        [] Op = \hCA -> After(To("X", was.X + 255), 1, 2)
        [] Op = \hAA -> After(To("X", was.A), 1, 2)
        [] Op = \hBA -> After(To("X", was.SP), 1, 2)
        [] Op = \h8A -> After(To("A", was.X), 1, 2)
        [] Op = \h98 -> After(To("A", was.Y), 1, 2)
        [] Op = \h9A -> After([was EXCEPT !.SP = was.X], 1, 2)
        [] Op \in {\h0A, \h2A, \h4A, \h6A} -> After([Counted(shift) EXCEPT !.A = shift[1] % 256], 1, 2)
        [] Op \in {\h18, \h38, \h58, \h78, \hB8, \hD8, \hF8} ->
             After(Result({flag}, If(On(Op, 5) /\ Op # \hB8, flag)), 1, 2)
        [] Op = \hEA -> After(was, 1, 2)

\* The opcodes of the 6502's manual; the code passes over all others.
Jumping == {\h00, \h20, \h40, \h60, \h4C, \h6C}
OneByte == {\h08, \h48, \h28, \h68, \h88, \hA8, \hC8, \hE8, \hCA, \hAA, \hBA, \h8A, \h98, \h9A,
            \h0A, \h2A, \h4A, \h6A, \h18, \h38, \h58, \h78, \hB8, \hD8, \hF8, \hEA}
ZeroModes == [a \in {1, 5, 6, 7} |-> CASE a = 1 -> {1, 3} [] a = 5 -> {0, 1, 3, 5, 7} [] OTHER -> {0, 1, 3}]

\* A taken branch takes a clock more when it leaves the page of the next
\* instruction; where it leads to the first byte of a page the code's rule
\* (BRA) differs, and its clock is taken.
Branch ==
  LET target == (Origin + 2 + Signed(Lo)) % 65536
      on == CASE Op \div 64 = 0 -> "N" [] Op \div 64 = 1 -> "V" [] Op \div 64 = 2 -> "C" [] OTHER -> "Z"
      clocks == IF target % 256 = 0 THEN s.clk - was.clk ELSE 3 + Crosses(Origin + 2, Signed(Lo))
  IN  IF (on \in was.F) = On(Op, 5) THEN Jump(was, target, clocks) ELSE After(was, 2, 2)

Expected ==
  LET m == Operand(was.X)
      my == Operand(was.Y)
      count == GroupTwo(Peek(m[1]))
  IN  CASE Op % 4 = 1 /\ Aaa # 4 -> After(GroupOne(Peek(m[1])), m[2], m[3])
        [] Op % 4 = 1 /\ Aaa = 4 /\ Bbb # 2 -> After(Poke(was, m[1], was.A), m[2], m[4])
        [] Op % 4 = 2 /\ Bbb \in {1, 3, 5, 7} /\ Aaa \notin {4, 5} ->
             After(Poke(Counted(count), m[1], count[1] % 256), m[2], IF Bbb = 7 THEN 7 ELSE m[3] + 2)
        [] Op \in {\h86, \h8E, \h96} -> After(Poke(was, my[1], was.X), my[2], my[4])
        [] Op % 4 = 2 /\ Aaa = 5 /\ Bbb \in {0, 1, 3, 5, 7} -> After(To("X", Peek(my[1])), my[2], my[3])
        [] Op \in {\h84, \h8C, \h94} -> After(Poke(was, m[1], was.Y), m[2], m[4])
        [] Op % 4 = 0 /\ Aaa \in DOMAIN ZeroModes /\ Bbb \in ZeroModes[Aaa] ->
             After(GroupZero(Peek(m[1])), m[2], m[3])
        [] Op % 32 = 16 -> Branch
        [] Op \in Jumping -> Jumps
        [] Op \in OneByte -> Implied
        [] OTHER -> [was EXCEPT !.PC = s.PC, !.clk = s.clk]

-----------------------------------------------------------------------------
(* Properties. *)

\* B is not a flag of the 6502, only a bit of the bytes it pushes.
Visible(q) == [q EXCEPT !.d = 0, !.ea = 0, !.F = @ \ {"B"}]

\* The arms of the opcode switch decode like the 6502: for each of its 151
\* instructions the arm does what the manual says, in the clocks of the
\* addressing mode, to the operand the mode names, and nothing else (operands
\* in RAM and ROM); the opcodes it does not define change nothing but PC and
\* the clock.
DecodesByFields ==
  piece.n = 1 /\ IsMemory(Operand(was.X)[1]) /\ IsMemory(Operand(was.Y)[1])
    => Visible(s) = Visible(Expected)

\* The PPU address is the one the game has set, whatever it did to the ports
\* in between: the latch shared by $2005, $2006 and $2002, the temporary
\* address shared with $2000, and the steps of $2007 agree.
PointerAgrees == pointer.known => s.addr = pointer.addr

\* The pattern ROM of a cartridge keeps the contents of its file.
VRomIntact == \A k \in DOMAIN s.mem : k[1][1] # "VROM"
=============================================================================
