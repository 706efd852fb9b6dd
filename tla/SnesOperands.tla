------------------------------ MODULE SnesOperands ------------------------------
(***************************************************************************)
(* The opcodes of the 65816 that bring an operand to a register or a       *)
(* register to memory (op65816.h): an addressing mode, an access and an    *)
(* operation.  A definition has the name the table gives the instruction   *)
(* and stands for both of its entries, for operands of 16 and of 8 bits;   *)
(* the widths Wm, Wx tell them apart.                                      *)
(***************************************************************************)
EXTENDS SnesCpu

-----------------------------------------------------------------------------
(* Operations on the accumulator, loads and stores. *)

addr_dp_ix_indirect_read_ADC(s) == ADC(read(dp_ix_indirect(s)))
addr_sr_read_ADC(s) == ADC(read(sr(s)))
addr_dp_read_ADC(s) == ADC(read(dp(s)))
addr_dp_indirectlong_read_ADC(s) == ADC(read(dp_indirectlong(s)))
addr_imma_ADC(s) == ADC(imma(s))
addr_abs_read_ADC(s) == ADC(read(abs(s)))
addr_abslong_read_ADC(s) == ADC(read(abslong(s)))
addr_dp_indirect_iy_read_ADC(s) == ADC(read(dp_indirect_iy(s)))
addr_dp_indirect_read_ADC(s) == ADC(read(dp_indirect(s)))
addr_sr_indirect_iy_read_ADC(s) == ADC(read(sr_indirect_iy(s)))
addr_dp_ix_read_ADC(s) == ADC(read(dp_ix(s)))
addr_dp_indirectlong_iy_read_ADC(s) == ADC(read(dp_indirectlong_iy(s)))
addr_abs_iy_read_ADC(s) == ADC(read(abs_iy(s)))
addr_abs_ix_read_ADC(s) == ADC(read(abs_ix(s)))
addr_abslong_ix_read_ADC(s) == ADC(read(abslong_ix(s)))
addr_dp_ix_indirect_read_SBC(s) == SBC(read(dp_ix_indirect(s)))
addr_sr_read_SBC(s) == SBC(read(sr(s)))
addr_dp_read_SBC(s) == SBC(read(dp(s)))
addr_dp_indirectlong_read_SBC(s) == SBC(read(dp_indirectlong(s)))
addr_imma_SBC(s) == SBC(imma(s))
addr_abs_read_SBC(s) == SBC(read(abs(s)))
addr_abslong_read_SBC(s) == SBC(read(abslong(s)))
addr_dp_indirect_iy_read_SBC(s) == SBC(read(dp_indirect_iy(s)))
addr_dp_indirect_read_SBC(s) == SBC(read(dp_indirect(s)))
addr_sr_indirect_iy_read_SBC(s) == SBC(read(sr_indirect_iy(s)))
addr_dp_ix_read_SBC(s) == SBC(read(dp_ix(s)))
addr_dp_indirectlong_iy_read_SBC(s) == SBC(read(dp_indirectlong_iy(s)))
addr_abs_iy_read_SBC(s) == SBC(read(abs_iy(s)))
addr_abs_ix_read_SBC(s) == SBC(read(abs_ix(s)))
addr_abslong_ix_read_SBC(s) == SBC(read(abslong_ix(s)))
addr_imma_LDA(s) == LDA(imma(s))
addr_abs_read_LDA(s) == LDA(read(abs(s)))
addr_abslong_read_LDA(s) == LDA(read(abslong(s)))
addr_abslong_ix_read_LDA(s) == LDA(read(abslong_ix(s)))
addr_dp_ix_indirect_read_LDA(s) == LDA(read(dp_ix_indirect(s)))
addr_sr_read_LDA(s) == LDA(read(sr(s)))
addr_dp_read_LDA(s) == LDA(read(dp(s)))
addr_dp_indirectlong_read_LDA(s) == LDA(read(dp_indirectlong(s)))
addr_dp_indirect_iy_read_LDA(s) == LDA(read(dp_indirect_iy(s)))
addr_dp_indirect_read_LDA(s) == LDA(read(dp_indirect(s)))
addr_sr_indirect_iy_read_LDA(s) == LDA(read(sr_indirect_iy(s)))
addr_dp_ix_read_LDA(s) == LDA(read(dp_ix(s)))
addr_dp_indirectlong_iy_read_LDA(s) == LDA(read(dp_indirectlong_iy(s)))
addr_abs_iy_read_LDA(s) == LDA(read(abs_iy(s)))
addr_abs_ix_read_LDA(s) == LDA(read(abs_ix(s)))
addr_abs_STA(s) == STA(abs(s))
addr_abslong_STA(s) == STA(abslong(s))
addr_abslong_ix_STA(s) == STA(abslong_ix(s))
addr_dp_ix_indirect_STA(s) == STA(dp_ix_indirect(s))
addr_sr_STA(s) == STA(sr(s))
addr_dp_STA(s) == STA(dp(s))
addr_dp_indirectlong_STA(s) == STA(dp_indirectlong(s))
addr_dp_indirect_iy_cycle_STA(s) == STA(cycle(dp_indirect_iy(s)))
addr_dp_indirect_STA(s) == STA(dp_indirect(s))
addr_sr_indirect_iy_STA(s) == STA(sr_indirect_iy(s))
addr_dp_ix_STA(s) == STA(dp_ix(s))
addr_dp_indirectlong_iy_STA(s) == STA(dp_indirectlong_iy(s))
addr_abs_iy_cycle_STA(s) == STA(cycle(abs_iy(s)))
addr_abs_ix_cycle_STA(s) == STA(cycle(abs_ix(s)))
addr_dp_STX(s) == STX(dp(s))
addr_abs_STX(s) == STX(abs(s))
addr_dp_iy_STX(s) == STX(dp_iy(s))
addr_dp_STY(s) == STY(dp(s))
addr_abs_STY(s) == STY(abs(s))
addr_dp_ix_STY(s) == STY(dp_ix(s))
addr_dp_STZ(s) == STZ(dp(s))
addr_dp_ix_STZ(s) == STZ(dp_ix(s))
addr_abs_STZ(s) == STZ(abs(s))
addr_abs_ix_cycle_STZ(s) == STZ(cycle(abs_ix(s)))
addr_immx_LDX(s) == LDX(immx(s))
addr_dp_read_LDX(s) == LDX(readx(dp(s)))
addr_abs_read_LDX(s) == LDX(readx(abs(s)))
addr_dp_iy_read_LDX(s) == LDX(readx(dp_iy(s)))
addr_abs_iy_read_LDX(s) == LDX(readx(abs_iy(s)))
addr_immx_LDY(s) == LDY(immx(s))
addr_dp_read_LDY(s) == LDY(readx(dp(s)))
addr_abs_read_LDY(s) == LDY(readx(abs(s)))
addr_dp_ix_read_LDY(s) == LDY(readx(dp_ix(s)))
addr_abs_ix_read_LDY(s) == LDY(readx(abs_ix(s)))
addr_dp_ix_indirect_read_AND(s) == AND(read(dp_ix_indirect(s)))
addr_sr_read_AND(s) == AND(read(sr(s)))
addr_dp_read_AND(s) == AND(read(dp(s)))
addr_dp_indirectlong_read_AND(s) == AND(read(dp_indirectlong(s)))
addr_imma_AND(s) == AND(imma(s))
addr_abs_read_AND(s) == AND(read(abs(s)))
addr_abslong_read_AND(s) == AND(read(abslong(s)))
addr_dp_indirect_iy_read_AND(s) == AND(read(dp_indirect_iy(s)))
addr_dp_indirect_read_AND(s) == AND(read(dp_indirect(s)))
addr_sr_indirect_iy_read_AND(s) == AND(read(sr_indirect_iy(s)))
addr_dp_ix_read_AND(s) == AND(read(dp_ix(s)))
addr_dp_indirectlong_iy_read_AND(s) == AND(read(dp_indirectlong_iy(s)))
addr_abs_iy_read_AND(s) == AND(read(abs_iy(s)))
addr_abs_ix_read_AND(s) == AND(read(abs_ix(s)))
addr_abslong_ix_read_AND(s) == AND(read(abslong_ix(s)))
addr_dp_ix_indirect_read_EOR(s) == EOR(read(dp_ix_indirect(s)))
addr_sr_read_EOR(s) == EOR(read(sr(s)))
addr_dp_read_EOR(s) == EOR(read(dp(s)))
addr_dp_indirectlong_read_EOR(s) == EOR(read(dp_indirectlong(s)))
addr_imma_EOR(s) == EOR(imma(s))
addr_abs_read_EOR(s) == EOR(read(abs(s)))
addr_abslong_read_EOR(s) == EOR(read(abslong(s)))
addr_dp_indirect_iy_read_EOR(s) == EOR(read(dp_indirect_iy(s)))
addr_dp_indirect_read_EOR(s) == EOR(read(dp_indirect(s)))
addr_sr_indirect_iy_read_EOR(s) == EOR(read(sr_indirect_iy(s)))
addr_dp_ix_read_EOR(s) == EOR(read(dp_ix(s)))
addr_dp_indirectlong_iy_read_EOR(s) == EOR(read(dp_indirectlong_iy(s)))
addr_abs_iy_read_EOR(s) == EOR(read(abs_iy(s)))
addr_abs_ix_read_EOR(s) == EOR(read(abs_ix(s)))
addr_abslong_ix_read_EOR(s) == EOR(read(abslong_ix(s)))
addr_sr_read_ORA(s) == ORA(read(sr(s)))
addr_dp_read_ORA(s) == ORA(read(dp(s)))
addr_dp_indirectlong_read_ORA(s) == ORA(read(dp_indirectlong(s)))
addr_imma_ORA(s) == ORA(imma(s))
addr_abs_read_ORA(s) == ORA(read(abs(s)))
addr_abslong_read_ORA(s) == ORA(read(abslong(s)))
addr_dp_indirect_iy_read_ORA(s) == ORA(read(dp_indirect_iy(s)))
addr_dp_indirect_read_ORA(s) == ORA(read(dp_indirect(s)))
addr_sr_indirect_iy_read_ORA(s) == ORA(read(sr_indirect_iy(s)))
addr_dp_ix_read_ORA(s) == ORA(read(dp_ix(s)))
addr_dp_indirectlong_iy_read_ORA(s) == ORA(read(dp_indirectlong_iy(s)))
addr_dp_ix_indirect_read_ORA(s) == ORA(read(dp_ix_indirect(s)))
addr_abs_iy_read_ORA(s) == ORA(read(abs_iy(s)))
addr_abs_ix_read_ORA(s) == ORA(read(abs_ix(s)))
addr_abslong_ix_read_ORA(s) == ORA(read(abslong_ix(s)))
addr_dp_ix_indirect_read_CMP(s) == CMP(read(dp_ix_indirect(s)))
addr_sr_read_CMP(s) == CMP(read(sr(s)))
addr_dp_read_CMP(s) == CMP(read(dp(s)))
addr_dp_indirectlong_read_CMP(s) == CMP(read(dp_indirectlong(s)))
addr_imma_CMP(s) == CMP(imma(s))
addr_abs_read_CMP(s) == CMP(read(abs(s)))
addr_abslong_read_CMP(s) == CMP(read(abslong(s)))
addr_dp_indirect_iy_read_CMP(s) == CMP(read(dp_indirect_iy(s)))
addr_dp_indirect_read_CMP(s) == CMP(read(dp_indirect(s)))
addr_sr_indirect_iy_read_CMP(s) == CMP(read(sr_indirect_iy(s)))
addr_dp_ix_read_CMP(s) == CMP(read(dp_ix(s)))
addr_dp_indirectlong_iy_read_CMP(s) == CMP(read(dp_indirectlong_iy(s)))
addr_abs_iy_read_CMP(s) == CMP(read(abs_iy(s)))
addr_abs_ix_read_CMP(s) == CMP(read(abs_ix(s)))
addr_abslong_ix_read_CMP(s) == CMP(read(abslong_ix(s)))
addr_immx_CPX(s) == CPX(immx(s))
addr_dp_read_CPX(s) == CPX(readx(dp(s)))
addr_abs_read_CPX(s) == CPX(readx(abs(s)))
addr_immx_CPY(s) == CPY(immx(s))
addr_dp_read_CPY(s) == CPY(readx(dp(s)))
addr_abs_read_CPY(s) == CPY(readx(abs(s)))
=============================================================================
