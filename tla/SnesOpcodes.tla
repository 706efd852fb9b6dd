------------------------------ MODULE SnesOpcodes ------------------------------
(***************************************************************************)
(* The opcode table of the 65816 (op65816.h, and the instructions written  *)
(* by hand in sncpu_c.c): all that SnesOperands does not have.  A          *)
(* definition has the name the table gives the instruction; where the      *)
(* table holds it twice, for operands of 16 and of 8 bits, the definition  *)
(* stands for both.                                                        *)
(***************************************************************************)
EXTENDS SnesOperands

-----------------------------------------------------------------------------
(* Flags, transfers and counts. *)

NOP_(s) == SUBCYCLES(s, 1)
SEI_(s) == SUBCYCLES([s EXCEPT !.P = @ \cup {"I"}], 1)
CLI_(s) == SUBCYCLES([s EXCEPT !.P = @ \ {"I"}], 1)
CLV_(s) == SUBCYCLES([s EXCEPT !.P = @ \ {"V"}], 1)
CLC_(s) == SUBCYCLES(SETFLAG_C(s, FALSE), 1)
SEC_(s) == SUBCYCLES(SETFLAG_C(s, TRUE), 1)
CLD_(s) == SUBCYCLES([s EXCEPT !.P = @ \ {"D"}], 1)
SED_(s) == SUBCYCLES([s EXCEPT !.P = @ \cup {"D"}], 1)
xce_(s) == SUBCYCLES(SETFLAG_E(SETFLAG_C(s, s.E), Carry(s) = 1), 1)
tcd_(s) == SUBCYCLES([SETFLAG_NZ(s, 2, s.A) EXCEPT !.DP = s.A], 1)
TDC_(s) == SUBCYCLES(SET_A(s, 2, s.DP), 1)
TSC_(s) == SUBCYCLES(SET_A(s, 2, s.S), 1)
\* In emulation mode a transfer to S leaves its page alone.
Ws(s) == IF s.E THEN 1 ELSE 2
tas_(s) == SUBCYCLES([s EXCEPT !.S = Put(@, Ws(s), s.A)], 1)
txa(s) == SUBCYCLES(SET_A(s, Wm(s), s.X), 1)
tya(s) == SUBCYCLES(SET_A(s, Wm(s), s.Y), 1)
tay(s) == SUBCYCLES(SET_Y(s, s.A), 1)
tax(s) == SUBCYCLES(SET_X(s, s.A), 1)
TXY(s) == SUBCYCLES([SETFLAG_NZ(s, Wx(s), s.X) EXCEPT !.Y = s.X], 1)
TYX(s) == SUBCYCLES([SETFLAG_NZ(s, Wx(s), s.Y) EXCEPT !.X = s.Y], 1)
txs_(s) == SUBCYCLES([s EXCEPT !.S = Put(@, Ws(s), s.X)], 1)
tsx(s) == SUBCYCLES(SET_X(s, s.S), 1)
DEX(s) == SUBCYCLES(SET_X(s, s.X - 1), 1)
DEY(s) == SUBCYCLES(SET_Y(s, s.Y - 1), 1)
INX(s) == SUBCYCLES(SET_X(s, s.X + 1), 1)
INY(s) == SUBCYCLES(SET_Y(s, s.Y + 1), 1)

-----------------------------------------------------------------------------
(* Jumps and returns. *)

addr_abs_zero_JSR_(s) == LET q == FETCH(s, 2) IN SUBCYCLES(SET_PC16(PUSH16(q, q.PC - 1), q.d), 1)
addr_abs_zero_JMP_(s) == LET q == FETCH(s, 2) IN SET_PC16(q, q.d)
addr_abslong_JSL_(s) == LET q == FETCH(s, 3) IN SUBCYCLES(SET_PC24(PUSH24(q, q.PC - 1), q.d), 1)
addr_abslong_JMPL_(s) == LET q == FETCH(s, 3) IN SET_PC24(q, q.d)
zero(s) == LET q == FETCH(s, 2) IN At(q, q.d)
addr_abs_indirect_JMP_(s) == LET q == READ(zero(s), 2) IN SET_PC16(q, q.d)
addr_abs_indirectlong_JMPL_(s) == LET q == READ(zero(s), 3) IN SET_PC24(q, q.d)
pb_abs_ix(s) ==
  LET q == FETCH(s, 2) IN At(q, q.PC - (q.PC % 65536) + ((q.d + q.X) % 65536))
addr_pb_abs_ix_indirect_JSR_(s) ==
  LET q == READ(pb_abs_ix(s), 2) IN SUBCYCLES(SET_PC16(PUSH16(q, q.PC - 1), q.d), 1)
addr_pb_abs_ix_indirect_JMP_(s) == LET q == READ(pb_abs_ix(s), 2) IN SUBCYCLES(SET_PC16(q, q.d), 1)
RTS_(s) == LET q == POP16(s) IN SUBCYCLES(SET_PC16(q, q.d + 1), 3)
RTL_(s) == LET q == POP24(s) IN SUBCYCLES(SET_PC24(q, q.d + 1), 2)
\* Mutant: the flags are restored without setting the mode they select.
RTI__Mode(s) ==
  LET q == POP8(s)
      p == [q EXCEPT !.P = FlagSet(q.d), !.live = FlagSet(q.d) \cap {"N", "Z", "C"}]
      r == IF s.E THEN POP16(p) ELSE POP24(p)
  IN  SUBCYCLES(IF s.E THEN SET_PC16(r, r.d) ELSE SET_PC24(r, r.d), 2)
RTI_(s) ==
  LET q == POP8(s)
      p == SET_P(q, FlagSet(q.d))
      r == IF s.E THEN POP16(p) ELSE POP24(p)
  IN  SUBCYCLES(IF s.E THEN SET_PC16(r, r.d) ELSE SET_PC24(r, r.d), 2)

-----------------------------------------------------------------------------
(* Operations on the accumulator alone and on memory. *)

DEA(s) == ModifyA(s, DecValue)
INA(s) == ModifyA(s, IncValue)
ASLA(s) == OutLeft(ModifyA(s, AslValue), s.A)
LSRA(s) == OutRight(ModifyA(s, LsrValue), s.A)
ROLA(s) == OutLeft(ModifyA(s, RolValue), s.A)
RORA(s) == OutRight(ModifyA(s, RorValue), s.A)
addr_dp_read_DEC(s) == SUBCYCLES(DEC(read(dp(s))), 1)
addr_abs_read_DEC(s) == SUBCYCLES(DEC(read(abs(s))), 1)
addr_dp_ix_read_DEC(s) == SUBCYCLES(DEC(read(dp_ix(s))), 1)
addr_abs_ix_read_DEC(s) == SUBCYCLES(DEC(read(abs_ix(s))), 2)
addr_dp_read_INC(s) == SUBCYCLES(INC(read(dp(s))), 1)
addr_abs_read_INC(s) == SUBCYCLES(INC(read(abs(s))), 1)
addr_dp_ix_read_INC(s) == SUBCYCLES(INC(read(dp_ix(s))), 1)
addr_abs_ix_read_INC(s) == SUBCYCLES(INC(read(abs_ix(s))), 2)
addr_dp_read_ASL(s) == SUBCYCLES(ASL(read(dp(s))), 1)
addr_abs_read_ASL(s) == SUBCYCLES(ASL(read(abs(s))), 1)
addr_dp_ix_read_ASL(s) == SUBCYCLES(ASL(read(dp_ix(s))), 1)
addr_abs_ix_read_ASL(s) == SUBCYCLES(ASL(read(abs_ix(s))), 2)
addr_dp_read_LSR(s) == SUBCYCLES(LSR(read(dp(s))), 1)
addr_abs_read_LSR(s) == SUBCYCLES(LSR(read(abs(s))), 1)
addr_dp_ix_read_LSR(s) == SUBCYCLES(LSR(read(dp_ix(s))), 1)
addr_abs_ix_read_LSR(s) == SUBCYCLES(LSR(read(abs_ix(s))), 2)
addr_dp_read_ROL(s) == SUBCYCLES(ROL(read(dp(s))), 1)
addr_abs_read_ROL(s) == SUBCYCLES(ROL(read(abs(s))), 1)
addr_dp_ix_read_ROL(s) == SUBCYCLES(ROL(read(dp_ix(s))), 1)
addr_abs_ix_read_ROL(s) == SUBCYCLES(ROL(read(abs_ix(s))), 2)
addr_dp_read_ROR(s) == SUBCYCLES(ROR(read(dp(s))), 1)
addr_abs_read_ROR(s) == SUBCYCLES(ROR(read(abs(s))), 1)
addr_dp_ix_read_ROR(s) == SUBCYCLES(ROR(read(dp_ix(s))), 1)
addr_abs_ix_read_ROR(s) == SUBCYCLES(ROR(read(abs_ix(s))), 2)
addr_dp_read_BIT(s) == BIT(read(dp(s)))
addr_abs_read_BIT(s) == BIT(read(abs(s)))
addr_dp_ix_read_BIT(s) == BIT(read(dp_ix(s)))
addr_abs_ix_read_BIT(s) == BIT(read(abs_ix(s)))
addr_imma_BITI(s) == BITI(imma(s))
addr_dp_read_TRB(s) == TRB(read(dp(s)))
addr_abs_read_TRB(s) == TRB(read(abs(s)))
addr_dp_read_TSB(s) == TSB(read(dp(s)))
addr_abs_read_TSB(s) == TSB(read(abs(s)))

-----------------------------------------------------------------------------
(* The stack. *)

PER_(s) == LET q == FETCH(s, 2) IN SUBCYCLES(PUSH16(q, q.d + q.PC), 1)
PEA_(s) == LET q == FETCH(s, 2) IN PUSH16(q, q.d)
PEI_addr_dp_indirect_(s) == LET q == READ(dp(s), 2) IN PUSH16(q, q.d)
PHK_(s) == SUBCYCLES(PUSH8(s, s.PC \div 65536), 1)
PHP_(s) == LET q == PACKFLAGS(s) IN SUBCYCLES(PUSH8(q, FlagByte(q.P)), 1)
PLP_(s) == LET q == POP8(s) IN SUBCYCLES(SET_P(q, FlagSet(q.d)), 2)
PHA(s) == SUBCYCLES(PUSH(s, Wm(s), s.A), 1)
PLA(s) == LET q == POP(s, Wm(s)) IN SUBCYCLES(SET_A(q, Wm(s), q.d), 2)
PHX(s) == SUBCYCLES(PUSH(s, Wx(s), s.X), 1)
PLX(s) == LET q == POP(s, Wx(s)) IN SUBCYCLES(SET_X(q, q.d), 2)
PHY(s) == SUBCYCLES(PUSH(s, Wx(s), s.Y), 1)
PLY(s) == LET q == POP(s, Wx(s)) IN SUBCYCLES(SET_Y(q, q.d), 2)
PHD_(s) == SUBCYCLES(PUSH16(s, s.DP), 1)
PLD_(s) == LET q == POP16(s) IN SUBCYCLES([SETFLAG_NZ(q, 2, q.d) EXCEPT !.DP = q.d], 2)
PHB_(s) == SUBCYCLES(PUSH8(s, s.DB \div 65536), 1)
PLB_(s) == LET q == POP8(s) IN SUBCYCLES([SETFLAG_NZ(q, 1, q.d) EXCEPT !.DB = 65536 * q.d], 2)
XBA_(s) ==
  LET l == s.A \div 256 IN SUBCYCLES([SETFLAG_NZ(s, 1, l) EXCEPT !.A = 256 * (@ % 256) + l], 2)
\* A software interrupt; the byte behind the opcode is skipped.
Software(s, n, vector, k) ==
  LET q == PACKFLAGS(IF n = 2 THEN PUSH16(s, s.PC + 1) ELSE PUSH24(s, s.PC + 1))
      p == PUSH8(q, FlagByte(q.P))
      v == READ(At([p EXCEPT !.P = (@ \ {"D"}) \cup {"I"}], vector), 2)
  IN  SUBCYCLES(SET_PC24(v, v.d), k)
BRK_(s) == IF s.E THEN Software(s, 2, \hFFF6, 2) ELSE Software(s, 3, \hFFE6, 1)
COP_(s) == Software(s, 3, \hFFE4, 1)

-----------------------------------------------------------------------------
(* Opcodes: the case labels, in rows of 16. *)

Op00(s, c) ==
  CASE c = \h00 -> BRK_(s) [] c = \h01 -> addr_dp_ix_indirect_read_ORA(s) [] c = \h02 -> COP_(s)
    [] c = \h03 -> addr_sr_read_ORA(s) [] c = \h04 -> addr_dp_read_TSB(s)
    [] c = \h05 -> addr_dp_read_ORA(s) [] c = \h06 -> addr_dp_read_ASL(s)
    [] c = \h07 -> addr_dp_indirectlong_read_ORA(s) [] c = \h08 -> PHP_(s)
    [] c = \h09 -> addr_imma_ORA(s) [] c = \h0A -> ASLA(s) [] c = \h0B -> PHD_(s)
    [] c = \h0C -> addr_abs_read_TSB(s) [] c = \h0D -> addr_abs_read_ORA(s)
    [] c = \h0E -> addr_abs_read_ASL(s) [] OTHER -> addr_abslong_read_ORA(s)
Op10(s, c) ==
  CASE c = \h10 -> BRREL(s, "N" \notin s.live) [] c = \h11 -> addr_dp_indirect_iy_read_ORA(s)
    [] c = \h12 -> addr_dp_indirect_read_ORA(s) [] c = \h13 -> addr_sr_indirect_iy_read_ORA(s)
    [] c = \h14 -> addr_dp_read_TRB(s) [] c = \h15 -> addr_dp_ix_read_ORA(s)
    [] c = \h16 -> addr_dp_ix_read_ASL(s) [] c = \h17 -> addr_dp_indirectlong_iy_read_ORA(s)
    [] c = \h18 -> CLC_(s) [] c = \h19 -> addr_abs_iy_read_ORA(s) [] c = \h1A -> INA(s)
    [] c = \h1B -> tas_(s) [] c = \h1C -> addr_abs_read_TRB(s)
    [] c = \h1D -> addr_abs_ix_read_ORA(s) [] c = \h1E -> addr_abs_ix_read_ASL(s)
    [] OTHER -> addr_abslong_ix_read_ORA(s)
Op20(s, c) ==
  CASE c = \h20 -> addr_abs_zero_JSR_(s) [] c = \h21 -> addr_dp_ix_indirect_read_AND(s)
    [] c = \h22 -> addr_abslong_JSL_(s) [] c = \h23 -> addr_sr_read_AND(s)
    [] c = \h24 -> addr_dp_read_BIT(s) [] c = \h25 -> addr_dp_read_AND(s)
    [] c = \h26 -> addr_dp_read_ROL(s) [] c = \h27 -> addr_dp_indirectlong_read_AND(s)
    [] c = \h28 -> PLP_(s) [] c = \h29 -> addr_imma_AND(s) [] c = \h2A -> ROLA(s)
    [] c = \h2B -> PLD_(s) [] c = \h2C -> addr_abs_read_BIT(s) [] c = \h2D -> addr_abs_read_AND(s)
    [] c = \h2E -> addr_abs_read_ROL(s) [] OTHER -> addr_abslong_read_AND(s)
Op30(s, c) ==
  CASE c = \h30 -> BRREL(s, "N" \in s.live) [] c = \h31 -> addr_dp_indirect_iy_read_AND(s)
    [] c = \h32 -> addr_dp_indirect_read_AND(s) [] c = \h33 -> addr_sr_indirect_iy_read_AND(s)
    [] c = \h34 -> addr_dp_ix_read_BIT(s) [] c = \h35 -> addr_dp_ix_read_AND(s)
    [] c = \h36 -> addr_dp_ix_read_ROL(s) [] c = \h37 -> addr_dp_indirectlong_iy_read_AND(s)
    [] c = \h38 -> SEC_(s) [] c = \h39 -> addr_abs_iy_read_AND(s) [] c = \h3A -> DEA(s)
    [] c = \h3B -> TSC_(s) [] c = \h3C -> addr_abs_ix_read_BIT(s)
    [] c = \h3D -> addr_abs_ix_read_AND(s) [] c = \h3E -> addr_abs_ix_read_ROL(s)
    [] OTHER -> addr_abslong_ix_read_AND(s)
Op40(s, c) ==
  CASE c = \h40 -> RTI_(s) [] c = \h41 -> addr_dp_ix_indirect_read_EOR(s)
    [] c = \h42 -> SUBCYCLES(FETCH(s, 1), 2) [] c = \h43 -> addr_sr_read_EOR(s)
    [] c = \h44 -> Move(s, -1) [] c = \h45 -> addr_dp_read_EOR(s)
    [] c = \h46 -> addr_dp_read_LSR(s) [] c = \h47 -> addr_dp_indirectlong_read_EOR(s)
    [] c = \h48 -> PHA(s) [] c = \h49 -> addr_imma_EOR(s) [] c = \h4A -> LSRA(s)
    [] c = \h4B -> PHK_(s) [] c = \h4C -> addr_abs_zero_JMP_(s) [] c = \h4D -> addr_abs_read_EOR(s)
    [] c = \h4E -> addr_abs_read_LSR(s) [] OTHER -> addr_abslong_read_EOR(s)
Op50(s, c) ==
  CASE c = \h50 -> BRREL(s, "V" \notin s.P) [] c = \h51 -> addr_dp_indirect_iy_read_EOR(s)
    [] c = \h52 -> addr_dp_indirect_read_EOR(s) [] c = \h53 -> addr_sr_indirect_iy_read_EOR(s)
    [] c = \h54 -> Move(s, 1) [] c = \h55 -> addr_dp_ix_read_EOR(s)
    [] c = \h56 -> addr_dp_ix_read_LSR(s) [] c = \h57 -> addr_dp_indirectlong_iy_read_EOR(s)
    [] c = \h58 -> CLI_(s) [] c = \h59 -> addr_abs_iy_read_EOR(s) [] c = \h5A -> PHY(s)
    [] c = \h5B -> tcd_(s) [] c = \h5C -> addr_abslong_JMPL_(s)
    [] c = \h5D -> addr_abs_ix_read_EOR(s) [] c = \h5E -> addr_abs_ix_read_LSR(s)
    [] OTHER -> addr_abslong_ix_read_EOR(s)
Op60(s, c) ==
  CASE c = \h60 -> RTS_(s) [] c = \h61 -> addr_dp_ix_indirect_read_ADC(s) [] c = \h62 -> PER_(s)
    [] c = \h63 -> addr_sr_read_ADC(s) [] c = \h64 -> addr_dp_STZ(s)
    [] c = \h65 -> addr_dp_read_ADC(s) [] c = \h66 -> addr_dp_read_ROR(s)
    [] c = \h67 -> addr_dp_indirectlong_read_ADC(s) [] c = \h68 -> PLA(s)
    [] c = \h69 -> addr_imma_ADC(s) [] c = \h6A -> RORA(s) [] c = \h6B -> RTL_(s)
    [] c = \h6C -> addr_abs_indirect_JMP_(s) [] c = \h6D -> addr_abs_read_ADC(s)
    [] c = \h6E -> addr_abs_read_ROR(s) [] OTHER -> addr_abslong_read_ADC(s)
Op70(s, c) ==
  CASE c = \h70 -> BRREL(s, "V" \in s.P) [] c = \h71 -> addr_dp_indirect_iy_read_ADC(s)
    [] c = \h72 -> addr_dp_indirect_read_ADC(s) [] c = \h73 -> addr_sr_indirect_iy_read_ADC(s)
    [] c = \h74 -> addr_dp_ix_STZ(s) [] c = \h75 -> addr_dp_ix_read_ADC(s)
    [] c = \h76 -> addr_dp_ix_read_ROR(s) [] c = \h77 -> addr_dp_indirectlong_iy_read_ADC(s)
    [] c = \h78 -> SEI_(s) [] c = \h79 -> addr_abs_iy_read_ADC(s) [] c = \h7A -> PLY(s)
    [] c = \h7B -> TDC_(s) [] c = \h7C -> addr_pb_abs_ix_indirect_JMP_(s)
    [] c = \h7D -> addr_abs_ix_read_ADC(s) [] c = \h7E -> addr_abs_ix_read_ROR(s)
    [] OTHER -> addr_abslong_ix_read_ADC(s)
Op80(s, c) ==
  CASE c = \h80 -> BRREL(s, TRUE) [] c = \h81 -> addr_dp_ix_indirect_STA(s) [] c = \h82 -> BRL(s)
    [] c = \h83 -> addr_sr_STA(s) [] c = \h84 -> addr_dp_STY(s) [] c = \h85 -> addr_dp_STA(s)
    [] c = \h86 -> addr_dp_STX(s) [] c = \h87 -> addr_dp_indirectlong_STA(s) [] c = \h88 -> DEY(s)
    [] c = \h89 -> addr_imma_BITI(s) [] c = \h8A -> txa(s) [] c = \h8B -> PHB_(s)
    [] c = \h8C -> addr_abs_STY(s) [] c = \h8D -> addr_abs_STA(s) [] c = \h8E -> addr_abs_STX(s)
    [] OTHER -> addr_abslong_STA(s)
Op90(s, c) ==
  CASE c = \h90 -> BRREL(s, "C" \notin s.live) [] c = \h91 -> addr_dp_indirect_iy_cycle_STA(s)
    [] c = \h92 -> addr_dp_indirect_STA(s) [] c = \h93 -> addr_sr_indirect_iy_STA(s)
    [] c = \h94 -> addr_dp_ix_STY(s) [] c = \h95 -> addr_dp_ix_STA(s)
    [] c = \h96 -> addr_dp_iy_STX(s) [] c = \h97 -> addr_dp_indirectlong_iy_STA(s)
    [] c = \h98 -> tya(s) [] c = \h99 -> addr_abs_iy_cycle_STA(s) [] c = \h9A -> txs_(s)
    [] c = \h9B -> TXY(s) [] c = \h9C -> addr_abs_STZ(s) [] c = \h9D -> addr_abs_ix_cycle_STA(s)
    [] c = \h9E -> addr_abs_ix_cycle_STZ(s) [] OTHER -> addr_abslong_ix_STA(s)
OpA0(s, c) ==
  CASE c = \hA0 -> addr_immx_LDY(s) [] c = \hA1 -> addr_dp_ix_indirect_read_LDA(s)
    [] c = \hA2 -> addr_immx_LDX(s) [] c = \hA3 -> addr_sr_read_LDA(s)
    [] c = \hA4 -> addr_dp_read_LDY(s) [] c = \hA5 -> addr_dp_read_LDA(s)
    [] c = \hA6 -> addr_dp_read_LDX(s) [] c = \hA7 -> addr_dp_indirectlong_read_LDA(s)
    [] c = \hA8 -> tay(s) [] c = \hA9 -> addr_imma_LDA(s) [] c = \hAA -> tax(s)
    [] c = \hAB -> PLB_(s) [] c = \hAC -> addr_abs_read_LDY(s) [] c = \hAD -> addr_abs_read_LDA(s)
    [] c = \hAE -> addr_abs_read_LDX(s) [] OTHER -> addr_abslong_read_LDA(s)
OpB0(s, c) ==
  CASE c = \hB0 -> BRREL(s, "C" \in s.live) [] c = \hB1 -> addr_dp_indirect_iy_read_LDA(s)
    [] c = \hB2 -> addr_dp_indirect_read_LDA(s) [] c = \hB3 -> addr_sr_indirect_iy_read_LDA(s)
    [] c = \hB4 -> addr_dp_ix_read_LDY(s) [] c = \hB5 -> addr_dp_ix_read_LDA(s)
    [] c = \hB6 -> addr_dp_iy_read_LDX(s) [] c = \hB7 -> addr_dp_indirectlong_iy_read_LDA(s)
    [] c = \hB8 -> CLV_(s) [] c = \hB9 -> addr_abs_iy_read_LDA(s) [] c = \hBA -> tsx(s)
    [] c = \hBB -> TYX(s) [] c = \hBC -> addr_abs_ix_read_LDY(s)
    [] c = \hBD -> addr_abs_ix_read_LDA(s) [] c = \hBE -> addr_abs_iy_read_LDX(s)
    [] OTHER -> addr_abslong_ix_read_LDA(s)
OpC0(s, c) ==
  CASE c = \hC0 -> addr_immx_CPY(s) [] c = \hC1 -> addr_dp_ix_indirect_read_CMP(s)
    [] c = \hC2 -> LET q == FETCH(s, 1) IN SUBCYCLES(REP(q, q.d), 1)
    [] c = \hC3 -> addr_sr_read_CMP(s) [] c = \hC4 -> addr_dp_read_CPY(s)
    [] c = \hC5 -> addr_dp_read_CMP(s) [] c = \hC6 -> addr_dp_read_DEC(s)
    [] c = \hC7 -> addr_dp_indirectlong_read_CMP(s) [] c = \hC8 -> INY(s)
    [] c = \hC9 -> addr_imma_CMP(s) [] c = \hCA -> DEX(s) [] c = \hCB -> WAI(s)
    [] c = \hCC -> addr_abs_read_CPY(s) [] c = \hCD -> addr_abs_read_CMP(s)
    [] c = \hCE -> addr_abs_read_DEC(s) [] OTHER -> addr_abslong_read_CMP(s)
OpD0(s, c) ==
  CASE c = \hD0 -> BRREL(s, "Z" \notin s.live) [] c = \hD1 -> addr_dp_indirect_iy_read_CMP(s)
    [] c = \hD2 -> addr_dp_indirect_read_CMP(s) [] c = \hD3 -> addr_sr_indirect_iy_read_CMP(s)
    [] c = \hD4 -> PEI_addr_dp_indirect_(s) [] c = \hD5 -> addr_dp_ix_read_CMP(s)
    [] c = \hD6 -> addr_dp_ix_read_DEC(s) [] c = \hD7 -> addr_dp_indirectlong_iy_read_CMP(s)
    [] c = \hD8 -> CLD_(s) [] c = \hD9 -> addr_abs_iy_read_CMP(s) [] c = \hDA -> PHX(s)
    [] c = \hDB -> SUBCYCLES(s, 1) [] c = \hDC -> addr_abs_indirectlong_JMPL_(s)
    [] c = \hDD -> addr_abs_ix_read_CMP(s) [] c = \hDE -> addr_abs_ix_read_DEC(s)
    [] OTHER -> addr_abslong_ix_read_CMP(s)
OpE0(s, c) ==
  CASE c = \hE0 -> addr_immx_CPX(s) [] c = \hE1 -> addr_dp_ix_indirect_read_SBC(s)
    [] c = \hE2 -> LET q == FETCH(s, 1) IN SUBCYCLES(SEP(q, q.d), 1)
    [] c = \hE3 -> addr_sr_read_SBC(s) [] c = \hE4 -> addr_dp_read_CPX(s)
    [] c = \hE5 -> addr_dp_read_SBC(s) [] c = \hE6 -> addr_dp_read_INC(s)
    [] c = \hE7 -> addr_dp_indirectlong_read_SBC(s) [] c = \hE8 -> INX(s)
    [] c = \hE9 -> addr_imma_SBC(s) [] c = \hEA -> NOP_(s) [] c = \hEB -> XBA_(s)
    [] c = \hEC -> addr_abs_read_CPX(s) [] c = \hED -> addr_abs_read_SBC(s)
    [] c = \hEE -> addr_abs_read_INC(s) [] OTHER -> addr_abslong_read_SBC(s)
OpF0(s, c) ==
  CASE c = \hF0 -> BRREL(s, "Z" \in s.live) [] c = \hF1 -> addr_dp_indirect_iy_read_SBC(s)
    [] c = \hF2 -> addr_dp_indirect_read_SBC(s) [] c = \hF3 -> addr_sr_indirect_iy_read_SBC(s)
    [] c = \hF4 -> PEA_(s) [] c = \hF5 -> addr_dp_ix_read_SBC(s)
    [] c = \hF6 -> addr_dp_ix_read_INC(s) [] c = \hF7 -> addr_dp_indirectlong_iy_read_SBC(s)
    [] c = \hF8 -> SED_(s) [] c = \hF9 -> addr_abs_iy_read_SBC(s) [] c = \hFA -> PLX(s)
    [] c = \hFB -> xce_(s) [] c = \hFC -> addr_pb_abs_ix_indirect_JSR_(s)
    [] c = \hFD -> addr_abs_ix_read_SBC(s) [] c = \hFE -> addr_abs_ix_read_INC(s)
    [] OTHER -> addr_abslong_ix_read_SBC(s)

\* One turn of the loop of SNCPUExecute_C.
Instruction(s) ==
  LET q == FETCH(s, 1)
      c == q.d
      r == c \div 16
  IN  CASE r = 0 -> Op00(q, c) [] r = 1 -> Op10(q, c) [] r = 2 -> Op20(q, c) [] r = 3 -> Op30(q, c)
        [] r = 4 -> Op40(q, c) [] r = 5 -> Op50(q, c) [] r = 6 -> Op60(q, c) [] r = 7 -> Op70(q, c)
        [] r = 8 -> Op80(q, c) [] r = 9 -> Op90(q, c) [] r = 10 -> OpA0(q, c) [] r = 11 -> OpB0(q, c)
        [] r = 12 -> OpC0(q, c) [] r = 13 -> OpD0(q, c) [] r = 14 -> OpE0(q, c) [] r = 15 -> OpF0(q, c)
=============================================================================
