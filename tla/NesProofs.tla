------------------------------- MODULE NesProofs -------------------------------
(***************************************************************************)
(* Proofs about the NES, for every cartridge, every game and every number  *)
(* of frames and resets.                                                   *)
(*                                                                         *)
(* NesConsole: the frame interrupt is on time.  The sequencer of the sound *)
(* unit is two fields of the console, step and frameIrq.  The first part   *)
(* shows, operator by operator, that the CPU moves them only with a write  *)
(* to $4017, which starts the sequencer again, and that the work of a line *)
(* moves them only in FrameStep; the second is the arithmetic of           *)
(* FrameStep.                                                              *)
(*                                                                         *)
(* NesCart: the patterns drawn are those selected.  Handler by handler, a  *)
(* mapper that moves a window of patterns decodes its characters again.    *)
(*                                                                         *)
(* NesCart: the windows shown are those the registers call for.  Board by  *)
(* board, a handler that writes a register moves the windows it selects.   *)
(*                                                                         *)
(* NesCart: MMC1 takes its registers one bit per write.                    *)
(***************************************************************************)
EXTENDS NesConsole, NesCart, Arithmetic, SequenceTheorems

-----------------------------------------------------------------------------
(* Where the frame sequencer of console q is.                              *)
Sequencer(q) ==
  IF {"step", "frameIrq"} \subseteq DOMAIN q THEN <<q.step, q.frameIrq>> ELSE <<>>

(* The register macros leave the sequencer alone.                          *)
LEMMA MacrosKeep ==
  ASSUME NEW q
  PROVE  /\ \A n : Sequencer(CLK(q, n)) = Sequencer(q)
         /\ \A f : Sequencer(SETF(q, f)) = Sequencer(q) /\ Sequencer(RSTF(q, f)) = Sequencer(q)
         /\ \A f, g : Sequencer(Flag(q, f, g)) = Sequencer(q)
         /\ \A v : Sequencer(TEST(q, v)) = Sequencer(q)
         /\ \A a : Sequencer(At(q, a)) = Sequencer(q) /\ Sequencer(Index(q, a)) = Sequencer(q)
         /\ \A l : Sequencer(Word(l, q)) = Sequencer(q)
<1>1. /\ \A n : Sequencer(CLK(q, n)) = Sequencer(q)
      /\ \A a : Sequencer(At(q, a)) = Sequencer(q)
      /\ \A l : Sequencer(Word(l, q)) = Sequencer(q)
  BY DEF Sequencer, CLK, At, Word
<1>2. \A p, f : Sequencer(SETF(p, f)) = Sequencer(p) /\ Sequencer(RSTF(p, f)) = Sequencer(p)
  BY DEF Sequencer, SETF, RSTF
<1>3. \A f, g : Sequencer(Flag(q, f, g)) = Sequencer(q)
  BY <1>2 DEF Flag
<1>4. \A v : Sequencer(TEST(q, v)) = Sequencer(q)
  BY <1>3 DEF TEST
<1>5. \A a : Sequencer(Index(q, a)) = Sequencer(q)
  BY <1>1 DEF Index
<1>6. QED
  BY <1>1, <1>2, <1>3, <1>4, <1>5

(* So do reads.                                                            *)
LEMMA ReadsKeep ==
  ASSUME NEW q, NEW a
  PROVE  /\ Sequencer(K6502_Read(q, a)) = Sequencer(q)
         /\ Sequencer(K6502_ReadZp(q, a)) = Sequencer(q)
<1> DEFINE byte(v) == [q EXCEPT !.d = v]
<1>1. \A v : Sequencer(byte(v)) = Sequencer(q)
  BY DEF Sequencer
<1>2. Sequencer(ReadPpu(q, a % 8)) = Sequencer(q)
  <2>1. Sequencer(Increment(q)) = Sequencer(q)
    BY DEF Sequencer, Increment
  <2>2. QED
    BY <2>1 DEF Sequencer, ReadPpu
<1>3. Sequencer(ReadSound(q, a)) = Sequencer(q)
  <2> DEFINE status(v) == [q EXCEPT !.d = v, !.apuIrq = FALSE]
             mapped(v, b) == [q EXCEPT !.d = v, !.board = b]
  <2>1. \A i : Sequencer(ReadPad(q, i)) = Sequencer(q)
    BY DEF Sequencer, ReadPad
  <2>2. \A v, b : Sequencer(status(v)) = Sequencer(q) /\ Sequencer(mapped(v, b)) = Sequencer(q)
    BY DEF Sequencer
  <2>3. ReadSound(q, a) \in
          {byte(\h14), status(IF q.apuIrq THEN 64 ELSE 0), ReadPad(q, 1), ReadPad(q, 2),
           mapped(a \div 256, MapperReadApu(q.no, q.board, a))}
    BY DEF ReadSound
  <2> HIDE DEF byte, status, mapped
  <2>4. QED
    BY <1>1, <2>1, <2>2, <2>3
<1>4. Sequencer(K6502_Read(q, a)) = Sequencer(q)
  <2>1. K6502_Read(q, a) \in
          {byte(Get(q.ram, a % \h800)), ReadPpu(q, a % 8), ReadSound(q, a),
           byte(Byte(q, SramPage(q), a % \h2000)),
           byte(Byte(q, q.board.cpu[(a - \h8000) \div \h2000], a % \h2000))}
    BY DEF K6502_Read
  <2> HIDE DEF byte
  <2>2. QED
    BY <1>1, <1>2, <1>3, <2>1
<1>5. Sequencer(K6502_ReadZp(q, a)) = Sequencer(q)
  BY DEF Sequencer, K6502_ReadZp
<1>6. QED
  BY <1>4, <1>5

(* So do reads of words.                                                   *)
LEMMA PairsKeep ==
  ASSUME NEW q, NEW a
  PROVE  /\ Sequencer(K6502_ReadW(q, a)) = Sequencer(q)
         /\ Sequencer(K6502_ReadW2(q, a)) = Sequencer(q)
         /\ Sequencer(K6502_ReadZpW(q, a)) = Sequencer(q)
<1>1. \A b, c : Sequencer(ReadPair(q, b, c)) = Sequencer(q)
  BY ReadsKeep, MacrosKeep DEF ReadPair
<1>2. QED
  BY <1>1, ReadsKeep, MacrosKeep DEF K6502_ReadW, K6502_ReadW2, K6502_ReadZpW

(* So do the fetches and the addressing modes, up to the byte read.        *)
LEMMA FetchKeeps ==
  ASSUME NEW q
  PROVE  /\ Sequencer(Fetch6502(q)) = Sequencer(q)
         /\ Sequencer(FetchW6502(q)) = Sequencer(q)
<1>1. ASSUME NEW p PROVE Sequencer(Fetch6502(p)) = Sequencer(p)
  <2> DEFINE next == [p EXCEPT !.PC = (@ + 1) % 65536]
  <2>1. Sequencer(next) = Sequencer(p)
    BY DEF Sequencer
  <2>2. Fetch6502(p) = K6502_Read(next, p.PC)
    BY DEF Fetch6502
  <2> HIDE DEF next
  <2>3. QED
    BY <2>1, <2>2, ReadsKeep
<1>2. Sequencer(FetchW6502(q)) = Sequencer(q)
  BY <1>1, MacrosKeep DEF FetchW6502, SecondByte
<1>3. QED
  BY <1>1, <1>2

(* An addressing mode leaves the address in ea.                            *)
LEMMA ModesKeep ==
  ASSUME NEW q
  PROVE  /\ Sequencer(AA_IX(q)) = Sequencer(q) /\ Sequencer(AA_IND(q)) = Sequencer(q)
         /\ Sequencer(AA_IY(q)) = Sequencer(q) /\ Sequencer(AA_ZP(q)) = Sequencer(q)
         /\ Sequencer(AA_ZPX(q)) = Sequencer(q) /\ Sequencer(AA_ZPY(q)) = Sequencer(q)
         /\ Sequencer(AA_ABS(q)) = Sequencer(q) /\ Sequencer(AA_ABSX(q)) = Sequencer(q)
         /\ Sequencer(AA_ABSY(q)) = Sequencer(q)
<1>1. \A p : Sequencer(AtD(p)) = Sequencer(p)
  BY MacrosKeep DEF AtD
<1>2. \A p, i : Sequencer(AtZp(p, i)) = Sequencer(p)
  BY MacrosKeep DEF AtZp
<1>3. Sequencer(AA_IX(q)) = Sequencer(q) /\ Sequencer(AA_IND(q)) = Sequencer(q)
  BY <1>1, FetchKeeps, PairsKeep DEF AA_IX, AA_IND
<1>4. /\ Sequencer(AA_ZP(q)) = Sequencer(q) /\ Sequencer(AA_ZPX(q)) = Sequencer(q)
      /\ Sequencer(AA_ZPY(q)) = Sequencer(q)
  BY <1>1, <1>2, FetchKeeps DEF AA_ZP, AA_ZPX, AA_ZPY
<1>5. Sequencer(AA_ABS(q)) = Sequencer(q)
  BY <1>1, FetchKeeps DEF AA_ABS
<1>6. /\ Sequencer(AA_IY(q)) = Sequencer(q) /\ Sequencer(AA_ABSX(q)) = Sequencer(q)
      /\ Sequencer(AA_ABSY(q)) = Sequencer(q)
  BY <1>3, <1>5, MacrosKeep DEF AA_IY, AA_ABSX, AA_ABSY
<1>7. QED
  BY <1>3, <1>4, <1>5, <1>6

(* Or it reads the byte there.                                             *)
LEMMA OperandsKeep ==
  ASSUME NEW q
  PROVE  /\ Sequencer(Load(q)) = Sequencer(q)
         /\ Sequencer(A_IX(q)) = Sequencer(q) /\ Sequencer(A_IY(q)) = Sequencer(q)
         /\ Sequencer(A_ZP(q)) = Sequencer(q) /\ Sequencer(A_ZPX(q)) = Sequencer(q)
         /\ Sequencer(A_ZPY(q)) = Sequencer(q) /\ Sequencer(A_ABS(q)) = Sequencer(q)
         /\ Sequencer(A_ABSX(q)) = Sequencer(q) /\ Sequencer(A_ABSY(q)) = Sequencer(q)
         /\ Sequencer(A_IMM(q)) = Sequencer(q)
<1>1. \A p : Sequencer(Load(p)) = Sequencer(p) /\ Sequencer(LoadZp(p)) = Sequencer(p)
  BY ReadsKeep DEF Load, LoadZp
<1>2. \A p, i : Sequencer(LoadIndexed(p, i)) = Sequencer(p)
  BY <1>1, MacrosKeep DEF LoadIndexed
<1>3. QED
  BY <1>1, <1>2, ModesKeep, FetchKeeps
     DEF A_IX, A_IY, A_ZP, A_ZPX, A_ZPY, A_ABS, A_ABSX, A_ABSY, A_IMM

(* So do the operations: those that load, store and combine.               *)
LEMMA LoadsKeep ==
  ASSUME NEW q
  PROVE  /\ \A v : /\ Sequencer(LDA(q, v)) = Sequencer(q) /\ Sequencer(LDX(q, v)) = Sequencer(q)
                   /\ Sequencer(LDY(q, v)) = Sequencer(q)
         /\ Sequencer(LDAD(q)) = Sequencer(q) /\ Sequencer(LDXD(q)) = Sequencer(q)
         /\ Sequencer(LDYD(q)) = Sequencer(q)
         /\ Sequencer(STA(q)) = Sequencer(q) /\ Sequencer(STX(q)) = Sequencer(q)
         /\ Sequencer(STY(q)) = Sequencer(q)
         /\ Sequencer(ORA(q)) = Sequencer(q) /\ Sequencer(AND(q)) = Sequencer(q)
         /\ Sequencer(EOR(q)) = Sequencer(q)
<1> DEFINE a(v) == [q EXCEPT !.A = v]
           x(v) == [q EXCEPT !.X = v]
           y(v) == [q EXCEPT !.Y = v]
<1>1. \A v : /\ Sequencer(a(v)) = Sequencer(q) /\ Sequencer(x(v)) = Sequencer(q)
             /\ Sequencer(y(v)) = Sequencer(q)
  BY DEF Sequencer
<1>2. \A v : LDA(q, v) = TEST(a(v), v) /\ LDX(q, v) = TEST(x(v), v) /\ LDY(q, v) = TEST(y(v), v)
  BY Zenon DEF LDA, LDX, LDY
<1> HIDE DEF a, x, y
<1>3. \A v : /\ Sequencer(LDA(q, v)) = Sequencer(q) /\ Sequencer(LDX(q, v)) = Sequencer(q)
             /\ Sequencer(LDY(q, v)) = Sequencer(q)
  BY <1>1, <1>2, MacrosKeep
<1>4. /\ Sequencer(STA(q)) = Sequencer(q) /\ Sequencer(STX(q)) = Sequencer(q)
      /\ Sequencer(STY(q)) = Sequencer(q)
  BY DEF Sequencer, STA, STX, STY
<1>5. QED
  BY <1>3, <1>4 DEF LDAD, LDXD, LDYD, ORA, AND, EOR

(* Comparisons, sums and differences set flags and the accumulator.        *)
LEMMA TestsKeep ==
  ASSUME NEW q
  PROVE  /\ Sequencer(CMP(q)) = Sequencer(q) /\ Sequencer(CPX(q)) = Sequencer(q)
         /\ Sequencer(CPY(q)) = Sequencer(q) /\ Sequencer(BIT(q)) = Sequencer(q)
         /\ Sequencer(ADC(q)) = Sequencer(q) /\ Sequencer(SBC(q)) = Sequencer(q)
<1>1. \A r : Sequencer(Compare(q, r)) = Sequencer(q)
  BY MacrosKeep DEF Compare
<1>2. ASSUME NEW v, NEW m, NEW c PROVE Sequencer(Arith(q, v, m, c)) = Sequencer(q)
  <2> DEFINE r == v % 256
             f == NZ(r) \cup CIf(c)
                  \cup (IF Bit(q.A, 7) = Bit(m, 7) /\ Bit(q.A, 7) # Bit(r, 7) THEN {"V"} ELSE {})
             p == Flag(q, {"N", "V", "Z", "C"}, f)
  <2>1. Arith(q, v, m, c) = [p EXCEPT !.A = r]
    BY DEF Arith
  <2>2. Sequencer(p) = Sequencer(q)
    BY MacrosKeep
  <2> HIDE DEF r, p
  <2>3. Sequencer([p EXCEPT !.A = r]) = Sequencer(p)
    BY DEF Sequencer
  <2>4. QED
    BY <2>1, <2>2, <2>3
<1>3. Sequencer(BIT(q)) = Sequencer(q)
  BY MacrosKeep DEF BIT
<1>4. QED
  BY <1>1, <1>2, <1>3 DEF CMP, CPX, CPY, ADC, SBC

(* Shifts and increments change the byte read or the accumulator.          *)
LEMMA ShiftsKeep ==
  ASSUME NEW q
  PROVE  /\ Sequencer(DEC(q)) = Sequencer(q) /\ Sequencer(INC(q)) = Sequencer(q)
         /\ Sequencer(ASL(q)) = Sequencer(q) /\ Sequencer(LSR(q)) = Sequencer(q)
         /\ Sequencer(ROL(q)) = Sequencer(q) /\ Sequencer(ROR(q)) = Sequencer(q)
         /\ Sequencer(ASLA(q)) = Sequencer(q) /\ Sequencer(LSRA(q)) = Sequencer(q)
         /\ Sequencer(ROLA(q)) = Sequencer(q) /\ Sequencer(RORA(q)) = Sequencer(q)
<1> DEFINE a(v) == [q EXCEPT !.A = v]
           d(v) == [q EXCEPT !.d = v]
<1>1. \A v : Sequencer(a(v)) = Sequencer(q) /\ Sequencer(d(v)) = Sequencer(q)
  BY DEF Sequencer
<1>2. \A v, k : /\ Modify(q, v) = TEST(d(v), v)
                /\ Shift(q, v, k) = Shifted(d(v), v, On(q.d, k))
                /\ ShiftA(q, v, k) = Shifted(a(v), v, On(q.A, k))
  BY Zenon DEF Modify, Shift, ShiftA
<1>3. \A p, v, o : Sequencer(Shifted(p, v, o)) = Sequencer(p)
  BY MacrosKeep DEF Shifted
<1> HIDE DEF a, d
<1>4. \A v, k : /\ Sequencer(Modify(q, v)) = Sequencer(q)
                /\ Sequencer(Shift(q, v, k)) = Sequencer(q)
                /\ Sequencer(ShiftA(q, v, k)) = Sequencer(q)
  BY <1>1, <1>2, <1>3, MacrosKeep
<1>5. QED
  BY <1>4 DEF DEC, INC, ASL, LSR, ROL, ROR, ASLA, LSRA, ROLA, RORA

(* So does the stack, which is RAM.                                        *)
LEMMA StackKeeps ==
  ASSUME NEW q
  PROVE  /\ \A v : Sequencer(PUSH(q, v)) = Sequencer(q) /\ Sequencer(PUSHW(q, v)) = Sequencer(q)
         /\ Sequencer(POP(q)) = Sequencer(q) /\ \A n : Sequencer(POPW(q, n)) = Sequencer(q)
         /\ Sequencer(PLP(q)) = Sequencer(q) /\ Sequencer(PLA(q)) = Sequencer(q)
         /\ Sequencer(PHP(q)) = Sequencer(q)
<1>1. \A p, v : Sequencer(PUSH(p, v)) = Sequencer(p)
  BY DEF Sequencer, PUSH, WriteRam
<1>2. ASSUME NEW p PROVE Sequencer(POP(p)) = Sequencer(p)
  <2> DEFINE at == (p.SP + 1) % 256
             up == [p EXCEPT !.SP = at]
  <2>1. POP(p) = K6502_Read(up, 256 + at)
    BY DEF POP
  <2>2. Sequencer(up) = Sequencer(p)
    BY DEF Sequencer
  <2> HIDE DEF at, up
  <2>3. QED
    BY <2>1, <2>2, ReadsKeep
<1>3. \A n : Sequencer(POPW(q, n)) = Sequencer(POP(POP(q)))
  BY DEF POPW, Sequencer
<1>4. Sequencer(PLP(q)) = Sequencer(POP(q))
  BY DEF PLP, Sequencer
<1>5. Sequencer(PLA(q)) = Sequencer(q)
  BY <1>2, LoadsKeep DEF PLA
<1>6. Sequencer(PHP(q)) = Sequencer(q)
  BY <1>1, MacrosKeep DEF PHP
<1>7. \A v : Sequencer(PUSHW(q, v)) = Sequencer(q)
  BY <1>1 DEF PUSHW
<1>8. QED
  BY <1>1, <1>2, <1>3, <1>4, <1>5, <1>6, <1>7

(* Jumps and branches set PC.                                              *)
LEMMA JumpsKeep ==
  ASSUME NEW q
  PROVE  /\ Sequencer(JMP(q)) = Sequencer(q) /\ Sequencer(INDIRECT(q)) = Sequencer(q)
         /\ Sequencer(JSR(q)) = Sequencer(q)
         /\ \A taken : Sequencer(BRA(q, taken)) = Sequencer(q)
         /\ \A c : Sequencer(NOP(q, c)) = Sequencer(q)
<1>1. Sequencer(JMP(q)) = Sequencer(q)
  BY DEF JMP, Sequencer
<1>2. Sequencer(INDIRECT(q)) = Sequencer(q)
  BY PairsKeep, MacrosKeep DEF INDIRECT
<1>3. Sequencer(JSR(q)) = Sequencer(q)
  <2>1. ASSUME NEW p, NEW t PROVE Sequencer(Call(p, t)) = Sequencer(p)
    <3> DEFINE pushed == PUSHW(p, p.PC)
               jump == [pushed EXCEPT !.PC = t]
    <3>1. Call(p, t) = CLK(jump, 6)
      BY DEF Call
    <3>2. Sequencer(pushed) = Sequencer(p)
      BY StackKeeps
    <3>3. Sequencer(jump) = Sequencer(pushed)
      <4> HIDE DEF pushed
      <4>1. QED
        BY DEF Sequencer
    <3> HIDE DEF pushed, jump
    <3>4. QED
      BY <3>1, <3>2, <3>3, MacrosKeep
  <2>2. QED
    BY <2>1, FetchKeeps, ReadsKeep DEF JSR, JumpTo
<1>4. ASSUME NEW taken PROVE Sequencer(BRA(q, taken)) = Sequencer(q)
  <2> DEFINE read == K6502_Read(q, q.PC)
             go(p, v) == [p EXCEPT !.PC = v]
  <2>1. Sequencer(read) = Sequencer(q)
    BY ReadsKeep
  <2>2. \A p, v : Sequencer(go(p, v)) = Sequencer(p)
    BY DEF Sequencer
  <2> DEFINE t == (q.PC + read.d + (IF read.d > 127 THEN \hFF00 ELSE 0)) % 65536
             n == 3 + (IF Bit(q.PC, 8) # Bit(t, 8) THEN 1 ELSE 0)
  <2>3. BRA(q, taken) = IF taken THEN CLK(go(read, (t + 1) % 65536), n) ELSE CLK(go(q, (q.PC + 1) % 65536), 2)
    BY DEF BRA
  <2> HIDE DEF read, go, t, n
  <2>4. QED
    BY <2>1, <2>2, <2>3, MacrosKeep
<1>5. ASSUME NEW c PROVE Sequencer(NOP(q, c)) = Sequencer(q)
  <2> DEFINE skip(n, k) == CLK([q EXCEPT !.PC = (@ + n) % 65536], k)
  <2>1. \A n, k : Sequencer(skip(n, k)) = Sequencer(q)
    BY DEF Sequencer, CLK
  <2>2. NOP(q, c) \in {skip(1, 2), skip(1, 3), skip(1, 4), skip(2, 4), skip(0, 2)}
    BY DEF NOP
  <2> HIDE DEF skip
  <2>3. QED
    BY <2>1, <2>2
<1>6. QED
  BY <1>1, <1>2, <1>3, <1>4, <1>5

(* So do interrupts, taken or asked for.                                   *)
LEMMA InterruptsKeep ==
  ASSUME NEW q
  PROVE  /\ \A a : Sequencer(Vector(q, a)) = Sequencer(q)
         /\ Sequencer(BRK(q)) = Sequencer(q) /\ Sequencer(CLI(q)) = Sequencer(q)
         /\ Sequencer(EnterInterrupt(q)) = Sequencer(q)
<1>1. ASSUME NEW p, NEW a PROVE Sequencer(Vector(p, a)) = Sequencer(p)
  <2> DEFINE r == K6502_ReadW(p, a)
  <2>1. Sequencer(r) = Sequencer(p)
    BY PairsKeep
  <2>2. Vector(p, a) = [r EXCEPT !.PC = r.d]
    BY DEF Vector
  <2> HIDE DEF r
  <2>3. Sequencer([r EXCEPT !.PC = r.d]) = Sequencer(r)
    BY DEF Sequencer
  <2>4. QED
    BY <2>1, <2>2, <2>3
<1>2. \A p, v : Sequencer(PUSH(p, v)) = Sequencer(p) /\ Sequencer(PUSHW(p, v)) = Sequencer(p)
  BY StackKeeps
<1>3. \A p, f : /\ Sequencer(SETF(p, f)) = Sequencer(p) /\ Sequencer(RSTF(p, f)) = Sequencer(p)
                /\ Sequencer(CLK(p, f)) = Sequencer(p)
  BY MacrosKeep
<1>4. \A p, a : Sequencer(Interrupt(p, a)) = Sequencer(p)
  BY <1>1, <1>2, <1>3 DEF Interrupt
<1>5. ASSUME NEW p PROVE Sequencer(TakeNmi(p)) = Sequencer(p) /\ Sequencer(TakeIRQ(p)) = Sequencer(p)
  <2> DEFINE nmi == [p EXCEPT !.nmi = FALSE]
             irq == [p EXCEPT !.board.irq = FALSE]
  <2>1. Sequencer(nmi) = Sequencer(p) /\ Sequencer(irq) = Sequencer(p)
    BY DEF Sequencer
  <2>2. TakeNmi(p) = Interrupt(nmi, \hFFFA) /\ TakeIRQ(p) = Interrupt(irq, \hFFFE)
    BY DEF TakeNmi, TakeIRQ
  <2> HIDE DEF nmi, irq
  <2>3. QED
    BY <1>4, <2>1, <2>2
<1>6. Sequencer(BRK(q)) = Sequencer(q)
  BY <1>1, <1>2, <1>3 DEF BRK
<1>7. Sequencer(CLI(q)) = Sequencer(q)
  BY <1>5, MacrosKeep DEF CLI
<1>8. Sequencer(EnterInterrupt(q)) = Sequencer(q)
  BY <1>5 DEF EnterInterrupt
<1>9. QED
  BY <1>1, <1>6, <1>7, <1>8

(* So does every instruction up to the write of what it stores.            *)
LEMMA OpcodesKeep ==
  ASSUME NEW q, NEW c
  PROVE  Sequencer(Execute6502(q, c)) = Sequencer(q)
<1>1. \A p, n : /\ Sequencer(CLK(p, n)) = Sequencer(p)
                /\ Sequencer(SETF(p, n)) = Sequencer(p) /\ Sequencer(RSTF(p, n)) = Sequencer(p)
  BY MacrosKeep
<1>2. \A p : /\ Sequencer(A_IX(p)) = Sequencer(p) /\ Sequencer(A_IY(p)) = Sequencer(p)
             /\ Sequencer(A_ZP(p)) = Sequencer(p) /\ Sequencer(A_ZPX(p)) = Sequencer(p)
             /\ Sequencer(A_ZPY(p)) = Sequencer(p) /\ Sequencer(A_ABS(p)) = Sequencer(p)
             /\ Sequencer(A_ABSX(p)) = Sequencer(p) /\ Sequencer(A_ABSY(p)) = Sequencer(p)
             /\ Sequencer(A_IMM(p)) = Sequencer(p)
  BY OperandsKeep
<1>3. \A p : /\ Sequencer(AA_IX(p)) = Sequencer(p) /\ Sequencer(AA_IY(p)) = Sequencer(p)
             /\ Sequencer(AA_ZP(p)) = Sequencer(p) /\ Sequencer(AA_ZPX(p)) = Sequencer(p)
             /\ Sequencer(AA_ZPY(p)) = Sequencer(p) /\ Sequencer(AA_ABS(p)) = Sequencer(p)
             /\ Sequencer(AA_ABSX(p)) = Sequencer(p) /\ Sequencer(AA_ABSY(p)) = Sequencer(p)
             /\ Sequencer(Load(p)) = Sequencer(p)
  BY ModesKeep, OperandsKeep
<1>4. \A p : /\ Sequencer(ORA(p)) = Sequencer(p) /\ Sequencer(AND(p)) = Sequencer(p)
             /\ Sequencer(EOR(p)) = Sequencer(p) /\ Sequencer(STA(p)) = Sequencer(p)
             /\ Sequencer(STX(p)) = Sequencer(p) /\ Sequencer(STY(p)) = Sequencer(p)
             /\ Sequencer(LDAD(p)) = Sequencer(p) /\ Sequencer(LDXD(p)) = Sequencer(p)
             /\ Sequencer(LDYD(p)) = Sequencer(p)
  BY LoadsKeep
<1>5. \A p, v : /\ Sequencer(LDA(p, v)) = Sequencer(p) /\ Sequencer(LDX(p, v)) = Sequencer(p)
                /\ Sequencer(LDY(p, v)) = Sequencer(p)
  BY LoadsKeep
<1>6. \A p, t : Sequencer(BRA(p, t)) = Sequencer(p) /\ Sequencer(NOP(p, t)) = Sequencer(p)
  BY JumpsKeep
<1>7. Sequencer(Code00(q, c)) = Sequencer(q)
  <2>1. \A p : Sequencer(ASL(p)) = Sequencer(p)
    BY ShiftsKeep
  <2>2. Sequencer(BRK(q)) = Sequencer(q) /\ Sequencer(PHP(q)) = Sequencer(q) /\ Sequencer(ASLA(q)) = Sequencer(q)
    BY InterruptsKeep, StackKeeps, ShiftsKeep
  <2>3. QED
    BY <1>1, <1>2, <1>3, <1>4, <1>6, <2>1, <2>2 DEF Code00
<1>8. Sequencer(Code20(q, c)) = Sequencer(q)
  <2>1. \A p : Sequencer(ROL(p)) = Sequencer(p) /\ Sequencer(BIT(p)) = Sequencer(p)
    BY ShiftsKeep, TestsKeep
  <2>2. Sequencer(JSR(q)) = Sequencer(q) /\ Sequencer(PLP(q)) = Sequencer(q) /\ Sequencer(ROLA(q)) = Sequencer(q)
    BY JumpsKeep, StackKeeps, ShiftsKeep
  <2>3. QED
    BY <1>1, <1>2, <1>3, <1>4, <1>6, <2>1, <2>2 DEF Code20
<1>9. Sequencer(Code40(q, c)) = Sequencer(q)
  <2>1. \A p : Sequencer(LSR(p)) = Sequencer(p) /\ Sequencer(JMP(p)) = Sequencer(p)
    BY ShiftsKeep, JumpsKeep
  <2>2. Sequencer(POPW(PLP(q), 0)) = Sequencer(q) /\ Sequencer(PUSH(q, q.A)) = Sequencer(q)
    <3>1. Sequencer(PLP(q)) = Sequencer(q) /\ Sequencer(PUSH(q, q.A)) = Sequencer(q)
      BY StackKeeps
    <3>2. \A p : Sequencer(POPW(p, 0)) = Sequencer(p)
      BY StackKeeps
    <3>3. QED
      BY <3>1, <3>2
  <2>3. Sequencer(CLI(q)) = Sequencer(q) /\ Sequencer(LSRA(q)) = Sequencer(q)
    BY InterruptsKeep, ShiftsKeep
  <2>4. QED
    BY <1>1, <1>2, <1>3, <1>4, <1>6, <2>1, <2>2, <2>3 DEF Code40
<1>10. Sequencer(Code60(q, c)) = Sequencer(q)
  <2>1. \A p : Sequencer(ROR(p)) = Sequencer(p) /\ Sequencer(ADC(p)) = Sequencer(p)
    BY ShiftsKeep, TestsKeep
  <2>2. \A p : Sequencer(JMP(p)) = Sequencer(p) /\ Sequencer(INDIRECT(p)) = Sequencer(p)
    BY JumpsKeep
  <2>3. Sequencer(POPW(q, 1)) = Sequencer(q) /\ Sequencer(PLA(q)) = Sequencer(q) /\ Sequencer(RORA(q)) = Sequencer(q)
    BY StackKeeps, ShiftsKeep
  <2>4. QED
    BY <1>1, <1>2, <1>3, <1>6, <2>1, <2>2, <2>3 DEF Code60
<1>11. Sequencer(Code80(q, c)) = Sequencer(q)
  <2>1. Sequencer(CLK([q EXCEPT !.SP = q.X], 2)) = Sequencer(q)
    BY DEF Sequencer, CLK
  <2>2. QED
    BY <1>1, <1>3, <1>4, <1>5, <1>6, <2>1 DEF Code80
<1>12. Sequencer(CodeA0(q, c)) = Sequencer(q)
  BY <1>1, <1>2, <1>4, <1>5, <1>6 DEF CodeA0
<1>13. Sequencer(CodeC0(q, c)) = Sequencer(q)
  <2>1. \A p : /\ Sequencer(CMP(p)) = Sequencer(p) /\ Sequencer(CPY(p)) = Sequencer(p)
               /\ Sequencer(DEC(p)) = Sequencer(p)
    BY TestsKeep, ShiftsKeep
  <2>2. QED
    BY <1>1, <1>2, <1>3, <1>5, <1>6, <2>1 DEF CodeC0
<1>14. Sequencer(CodeE0(q, c)) = Sequencer(q)
  <2>1. \A p : /\ Sequencer(SBC(p)) = Sequencer(p) /\ Sequencer(CPX(p)) = Sequencer(p)
               /\ Sequencer(INC(p)) = Sequencer(p)
    BY TestsKeep, ShiftsKeep
  <2>2. QED
    BY <1>1, <1>2, <1>3, <1>5, <1>6, <2>1 DEF CodeE0
<1>15. QED
  BY <1>7, <1>8, <1>9, <1>10, <1>11, <1>12, <1>13, <1>14 DEF Execute6502

-----------------------------------------------------------------------------
(* A write moves the sequencer only by starting it again at 0.             *)
Rewound == {<<0, TRUE>>, <<0, FALSE>>}

(* The PPU's registers leave it alone.                                     *)
LEMMA WritePpuKeeps ==
  ASSUME NEW q, NEW r, NEW d
  PROVE  Sequencer(WritePpu(q, r, d)) = Sequencer(q)
<1>1. /\ \A p, page, off : Sequencer(Store(p, page, off, d)) = Sequencer(p)
      /\ \A p, b : Sequencer([p EXCEPT !.board = b]) = Sequencer(p)
  BY DEF Sequencer, Store
<1>2. Sequencer(Increment(q)) = Sequencer(q)
  BY DEF Sequencer, Increment
<1>3. Sequencer(WriteVram(q, d)) = Sequencer(q)
  <2> DEFINE p == Increment(q)
             a == q.addr % \h4000
             w == a \div 1024
             one == Store(p, PpuPage(q, w), a % 1024, d)
             pattern == [one EXCEPT !.board = StorePattern(@, w)]
             half == StorePpu(p, PpuPage(q, w), a % 1024, d)
             two == StorePpu(half, PpuPage(q, Xor(w, 4)), a % 1024, d)
             at == IF a % 16 = 0 THEN {\h300 + 4 * k : k \in 0..7}
                   ELSE IF a % 4 # 0 THEN {a % 1024} ELSE {}
             colours == [p EXCEPT !.mem = [k \in {<<Ram(15), o>> : o \in at} |-> d] @@ @]
  <2>1. /\ Sequencer(pattern) = Sequencer(p)
        /\ \A x, page, off : Sequencer(StorePpu(x, page, off, d)) = Sequencer(x)
    <3>1. Sequencer(pattern) = Sequencer(p)
      <4> DEFINE b == StorePattern(one.board, w)
      <4>1. Sequencer(one) = Sequencer(p)
        BY <1>1
      <4>2. pattern = [one EXCEPT !.board = b]
        OBVIOUS
      <4> HIDE DEF p, one, b, pattern
      <4>3. QED
        BY <1>1, <4>1, <4>2
    <3>2. ASSUME NEW x, NEW page, NEW off
          PROVE  Sequencer(StorePpu(x, page, off, d)) = Sequencer(x)
      <4> DEFINE y == Store(x, page, off, d)
                 b == Overwrite(y.board, page)
      <4>1. StorePpu(x, page, off, d) = [y EXCEPT !.board = b]
        BY DEF StorePpu
      <4>2. Sequencer(y) = Sequencer(x)
        BY <1>1
      <4> HIDE DEF y, b
      <4>3. QED
        BY <1>1, <4>1, <4>2
    <3>3. QED
      BY <3>1, <3>2
  <2>2. Sequencer(colours) = Sequencer(p)
    <3> HIDE DEF p, at
    <3>1. QED
      BY DEF Sequencer
  <2>3. WriteVram(q, d) = IF a < \h2000 /\ q.vwe THEN pattern
                            ELSE IF a < \h3F00 THEN two ELSE colours
    BY DEF WriteVram
  <2>4. Sequencer(two) = Sequencer(p)
    BY <2>1
  <2> HIDE DEF a, w, pattern, two, colours
  <2>5. QED
    BY <1>2, <2>1, <2>2, <2>3, <2>4
<1>4. QED
  BY <1>3 DEF Sequencer, WritePpu

(* Among the ports, $4017 starts the sequencer; no other touches it.       *)
LEMMA WriteSoundKeeps ==
  ASSUME NEW q, NEW a, NEW d
  PROVE  Sequencer(WriteSound(q, a, d)) \in {Sequencer(q)} \cup Rewound
<1>1. \A p : Sequencer(ToBoard(p, a, d)) = Sequencer(p)
  BY DEF Sequencer, ToBoard
<1>2. \A p : Sequencer(AfterPort(p, a, d)) = Sequencer(p)
  <2>1. \A p : Sequencer([p EXCEPT !.strobe = d]) = Sequencer(p)
    BY DEF Sequencer
  <2>2. \A p : AfterPort(p, a, d) \in {ToBoard(p, a, d), [p EXCEPT !.strobe = d], p}
    BY DEF AfterPort
  <2>3. QED
    BY <1>1, <2>1, <2>2
<1>3. ASSUME NEW p, NEW r
      PROVE  Sequencer(WritePort(p, r, d)) \in {Sequencer(p)} \cup Rewound
  <2>1. Sequencer(SpriteDma(p, d)) = Sequencer(p)
    BY DEF Sequencer, SpriteDma
  <2>2. Sequencer(Strobe(p, d)) = Sequencer(p)
    BY DEF Sequencer, Strobe
  <2> DEFINE start == [p EXCEPT !.step = 0, !.frameIrq = d < 64]
  <2>3. Sequencer(start) \in {Sequencer(p)} \cup Rewound
    <3>1. CASE {"step", "frameIrq"} \subseteq DOMAIN p
      <4>1. /\ {"step", "frameIrq"} \subseteq DOMAIN start
            /\ start.step = 0 /\ start.frameIrq = (d < 64)
        BY <3>1
      <4>2. start.frameIrq \in BOOLEAN
        BY <4>1
      <4> HIDE DEF start
      <4>3. Sequencer(start) = <<0, start.frameIrq>>
        BY <4>1 DEF Sequencer
      <4>4. start.frameIrq = TRUE \/ start.frameIrq = FALSE
        BY <4>2
      <4>5. QED
        BY <4>3, <4>4 DEF Rewound
    <3>2. CASE ~ ({"step", "frameIrq"} \subseteq DOMAIN p)
      BY <3>2 DEF Sequencer
    <3>3. QED
      BY <3>1, <3>2
  <2>4. WritePort(p, r, d) \in {SpriteDma(p, d), Strobe(p, d), start, p}
    BY DEF WritePort
  <2> HIDE DEF start
  <2>5. QED
    BY <2>1, <2>2, <2>3, <2>4
<1> DEFINE p == IF a % 32 = \h16 THEN ToBoard(q, a, d) ELSE q
<1>4. Sequencer(p) = Sequencer(q)
  BY <1>1
<1>5. WriteSound(q, a, d) = AfterPort(WritePort(p, a % 32, d), a, d)
  BY DEF WriteSound
<1> HIDE DEF p
<1>6. QED
  BY <1>2, <1>3, <1>4, <1>5

(* Nor do the other areas of the bus.                                      *)
LEMMA WritesKeep ==
  ASSUME NEW q, NEW a, NEW d
  PROVE  Sequencer(K6502_Write(q, a, d)) \in {Sequencer(q)} \cup Rewound
<1> DEFINE mapped(p, b) == [p EXCEPT !.board = b]
           sram == Store(q, Sram, a % \h2000, d)
<1>1. \A p, b : Sequencer(mapped(p, b)) = Sequencer(p)
  BY DEF Sequencer
<1>2. Sequencer(sram) = Sequencer(q) /\ Sequencer(WriteRam(q, a, d)) = Sequencer(q)
  BY DEF Sequencer, Store, WriteRam
<1>3. K6502_Write(q, a, d) \in
        {WriteRam(q, a, d), WritePpu(q, a % 8, d), WriteSound(q, a, d), sram,
         mapped(sram, MapperSram(q.no, sram.board, a, d)),
         mapped(q, MapperWrite(q.no, q.board, a, d, q.line))}
  BY DEF K6502_Write
<1> HIDE DEF mapped, sram
<1>4. QED
  BY <1>1, <1>2, <1>3, WritePpuKeeps, WriteSoundKeeps

(* So an instruction leaves it alone or starts it again.                   *)
LEMMA InstructionKeeps ==
  ASSUME NEW q
  PROVE  Sequencer(Instruction(q)) \in {Sequencer(q)} \cup Rewound
<1>1. \A p, c : Sequencer(WriteBack(p, c)) \in {Sequencer(p)} \cup Rewound
  BY WritesKeep DEF WriteBack
<1>2. \A p : Sequencer(ExecuteOpcode(p)) \in {Sequencer(p)} \cup Rewound
  BY <1>1, OpcodesKeep DEF ExecuteOpcode
<1>3. QED
  BY <1>2, FetchKeeps DEF Instruction

(* after is the run of a slice of n clocks from q: what is left after each  *)
(* turn.                                                                   *)
Run(after, m, q, n) ==
  after = [k \in 0..m |-> IF k = 0 THEN q ELSE Turn(after[k - 1], n)]

(* There is one of every length: a least m without one would follow one    *)
(* that can be extended by a turn.                                         *)
LEMMA RunExists ==
  ASSUME NEW q, NEW n, NEW m \in Nat
  PROVE  \E after : Run(after, m, q, n)
<1> DEFINE B == { k \in Nat : ~ \E f : Run(f, k, q, n) }
<1>1. SUFFICES ASSUME B # {} PROVE FALSE
  OBVIOUS
<1>2. B \in SUBSET Nat
  OBVIOUS
<1> HIDE DEF B
<1>3. PICK b \in B : \A x \in B : b <= x
  BY <1>1, <1>2, NatLeast
<1>4. b \in Nat /\ ~ \E f : Run(f, b, q, n)
  BY DEF B
<1>5. CASE b = 0
  <2>1. Run([k \in 0..0 |-> q], 0, q, n)
    BY DEF Run
  <2>2. QED
    BY <1>4, <1>5, <2>1
<1>6. CASE b # 0
  <2>1. b - 1 \in Nat /\ ~ (b <= b - 1)
    BY <1>4, <1>6
  <2>2. PICK f : Run(f, b - 1, q, n)
    BY <1>3, <2>1 DEF B
  <2> DEFINE g == [k \in 0..b |-> IF k = b THEN Turn(f[b - 1], n) ELSE f[k]]
  <2>3. ASSUME NEW k \in 0..b PROVE g[k] = IF k = 0 THEN q ELSE Turn(g[k - 1], n)
    <3>1. CASE k = b
      <4>1. b - 1 \in 0..b /\ b - 1 # b
        BY <1>4, <2>1
      <4>2. g[b] = Turn(f[b - 1], n) /\ g[b - 1] = f[b - 1]
        BY <1>4, <4>1
      <4>3. QED
        BY <1>6, <3>1, <4>2
    <3>2. CASE k # b
      <4>1. k \in 0..(b - 1)
        BY <1>4, <3>2
      <4>2. f[k] = IF k = 0 THEN q ELSE Turn(f[k - 1], n)
        BY <2>2, <4>1 DEF Run
      <4>3. g[k] = f[k] /\ (k # 0 => k - 1 \in 0..b /\ k - 1 # b)
        BY <1>4, <3>2
      <4>4. k # 0 => g[k - 1] = f[k - 1]
        BY <4>3
      <4> HIDE DEF g
      <4>5. QED
        BY <4>2, <4>3, <4>4
    <3>3. QED
      BY <3>1, <3>2
  <2>4. g = [k \in 0..b |-> g[k]]
    OBVIOUS
  <2> HIDE DEF g
  <2>5. Run(g, b, q, n)
    BY <2>3, <2>4 DEF Run
  <2>6. QED
    BY <1>4, <2>5
<1>7. QED
  BY <1>5, <1>6

(* Along a run the sequencer stays or starts again: the first turn after   *)
(* which neither holds would be one of an instruction.                     *)
LEMMA TurnsKeep ==
  ASSUME NEW q, NEW n
  PROVE  Sequencer(Turns(q, n)) \in {Sequencer(q)} \cup Rewound
<1> DEFINE m == MaxTurns
           after == CHOOSE f : Run(f, m, q, n)
<1>1. m \in Nat
  BY DEF MaxTurns, STEP_PER_SCANLINE
<1> HIDE DEF m
<1>2. Run(after, m, q, n)
  BY <1>1, RunExists
<1>3. Turns(q, n) = after[m]
  BY DEF Turns, Run, m
<1> HIDE DEF after
<1>4. after[0] = q /\ \A k \in 1..m : after[k] = Turn(after[k - 1], n)
  BY <1>1, <1>2 DEF Run
<1>5. \A p : Sequencer(Turn(p, n)) \in {Sequencer(p)} \cup Rewound
  BY InstructionKeeps DEF Turn
<1> DEFINE B == { k \in 0..m : Sequencer(after[k]) \notin {Sequencer(q)} \cup Rewound }
<1>6. SUFFICES ASSUME B # {} PROVE FALSE
  BY <1>1, <1>3
<1>7. B \in SUBSET Nat
  BY <1>1
<1> HIDE DEF B
<1>8. PICK b \in B : \A x \in B : b <= x
  BY <1>6, <1>7, NatLeast
<1>9. b \in 0..m /\ Sequencer(after[b]) \notin {Sequencer(q)} \cup Rewound
  BY DEF B
<1>10. b # 0
  BY <1>4, <1>9
<1>11. b \in 1..m /\ b - 1 \in 0..m /\ ~ (b <= b - 1)
  BY <1>1, <1>9, <1>10
<1>12. Sequencer(after[b - 1]) \in {Sequencer(q)} \cup Rewound
  BY <1>8, <1>11 DEF B
<1>13. QED
  BY <1>4, <1>5, <1>9, <1>11, <1>12

(* So it does over a call of K6502_Step.                                   *)
LEMMA SliceKeeps ==
  ASSUME NEW q, NEW n
  PROVE  Sequencer(K6502_Step(q, n)) \in {Sequencer(q)} \cup Rewound
<1> DEFINE p == Turns(EnterInterrupt(q), n)
<1>1. Sequencer(p) \in {Sequencer(q)} \cup Rewound
  BY TurnsKeep, InterruptsKeep
<1>2. K6502_Step(q, n) = [p EXCEPT !.clk = @ - n]
  BY DEF K6502_Step
<1> HIDE DEF p
<1>3. Sequencer([p EXCEPT !.clk = @ - n]) = Sequencer(p)
  BY DEF Sequencer
<1>4. QED
  BY <1>1, <1>2, <1>3

-----------------------------------------------------------------------------
(* The work at the end of a line moves the sequencer by a line; the rest of *)
(* it leaves it alone.                                                     *)
LEMMA HSyncKeeps ==
  ASSUME NEW q, NEW buttons
  PROVE  Sequencer(InfoNES_HSync(q, buttons)) = Sequencer(q)
<1>1. Sequencer(InfoNES_DrawLine(q)) = Sequencer(q)
  <2> DEFINE b == MapperRenderScreen(q.no, q.board, 1)
             tiles == IF On(q.R1, 3) THEN MapperPPU(q.no, b, PatternFetch) ELSE b
             sp == [q EXCEPT !.board = MapperRenderScreen(q.no, tiles, 0)]
             flag == [sp EXCEPT !.R2 = SetField(@, 5, 1, IF Cardinality(OnLine(q)) >= 8 THEN 1 ELSE 0)]
  <2>1. InfoNES_DrawLine(q) = IF ~On(q.R1, 4) THEN sp ELSE flag
    BY DEF InfoNES_DrawLine
  <2>2. Sequencer(sp) = Sequencer(q)
    <3> HIDE DEF tiles
    <3>1. QED
      BY DEF Sequencer
  <2>3. Sequencer(flag) = Sequencer(sp)
    <3> HIDE DEF sp
    <3>1. QED
      BY DEF Sequencer
  <2> HIDE DEF sp, flag
  <2>4. QED
    BY <2>1, <2>2, <2>3
<1>2. \A p : Sequencer(TopOfFrame(p)) = Sequencer(p)
  BY DEF Sequencer, TopOfFrame
<1>3. \A p : Sequencer(VBlank(p, buttons)) = Sequencer(p)
  BY DEF Sequencer, VBlank
<1> DEFINE drawn == IF q.line < 240 THEN InfoNES_DrawLine(q) ELSE q
           next == [drawn EXCEPT !.line = (@ + 1) % 263]
<1>4. Sequencer(drawn) = Sequencer(q)
  BY <1>1
<1>5. InfoNES_HSync(q, buttons) \in {TopOfFrame(next), VBlank(next, buttons), next}
  BY DEF InfoNES_HSync
<1>6. Sequencer(next) = Sequencer(drawn)
  <2> HIDE DEF drawn
  <2>1. QED
    BY DEF Sequencer
<1> HIDE DEF drawn, next
<1>7. QED
  BY <1>2, <1>3, <1>4, <1>5, <1>6

(* The sequencer as it starts, with its interrupt off.                     *)
Off == <<0, FALSE>>

(* So a reset leaves it.                                                   *)
LEMMA ResetStarts ==
  ASSUME NEW no, NEW vrom, NEW battery, NEW b, NEW mem, NEW apuIrq
  PROVE  Sequencer(Console_Reset(no, vrom, battery, b, mem, apuIrq)) = Off
<1> DEFINE m == [k \in {x \in DOMAIN mem : x[1][1] # "PPURAM"} |-> mem[k]]
           vwe == VramWriteEnable(no, vrom)
           c == [PC |-> 0, SP |-> 0, A |-> 0, X |-> 0, Y |-> 0, F |-> {}, clk |-> 0, nmi |-> FALSE, d |-> 0, ea |-> 0,
                 ram |-> <<>>, spr |-> <<>>, no |-> no, battery |-> battery, line |-> 0,
                 mem |-> m, board |-> InfoNES_Reset(no, b, 0),
                 R0 |-> 0, R1 |-> 0, R2 |-> 0, R3 |-> 0, R7 |-> 0, addr |-> 0, temp |-> 0, latch |-> 0, nt |-> 0,
                 vwe |-> vwe, step |-> 0, frameIrq |-> FALSE, apuIrq |-> apuIrq, strobe |-> 0,
                 pad |-> <<{}, {}>>, padBit |-> <<0, 0>>]
<1>1. Console_Reset(no, vrom, battery, b, mem, apuIrq) = K6502_Reset(c)
  BY DEF Console_Reset
<1>2. Sequencer(c) = Off
  <2> HIDE DEF m, vwe
  <2>1. QED
    BY DEF Sequencer, Off
<1> HIDE DEF c
<1> DEFINE r == [c EXCEPT !.SP = 255, !.A = 0, !.X = 0, !.Y = 0, !.F = {"Z", "R", "I"},
                          !.nmi = FALSE, !.board.irq = FALSE, !.clk = 0]
<1>3. K6502_Reset(c) = Vector(r, \hFFFC)
  BY DEF K6502_Reset
<1>4. Sequencer(r) = Sequencer(c)
  BY DEF Sequencer
<1> HIDE DEF r
<1>5. \A p, a : Sequencer(Vector(p, a)) = Sequencer(p)
  BY InterruptsKeep
<1>6. Sequencer(Vector(r, \hFFFC)) = Sequencer(r)
  BY <1>5
<1>7. QED
  BY <1>1, <1>2, <1>3, <1>4, <1>6

(* The inductive invariant.  While the interrupt is on, the step is the    *)
(* clocks since the write modulo a frame of 29828, counted from 1, and the *)
(* interrupts raised are the frames completed.  While it is off, step      *)
(* runs modulo 65536, which no later interrupt depends on: what turns it   *)
(* on starts it again.                                                     *)
OnTime(n, step, r) ==
  IF n = 0 THEN step = 0 /\ r = 0
  ELSE /\ step = ((STEP_PER_SCANLINE * n - 1) % STEP_PER_FRAME) + 1
       /\ r = (STEP_PER_SCANLINE * n - 1) \div STEP_PER_FRAME

SeqInv ==
  /\ {"step", "frameIrq"} \subseteq DOMAIN s
  /\ s.frameIrq \in BOOLEAN
  /\ since \in Nat
  /\ s.frameIrq => OnTime(since, s.step, raised)

(* A line on time follows a line on time, and its step is far from 65536.  *)
LEMMA LineOnTime ==
  ASSUME NEW n \in Nat, NEW x, NEW r, OnTime(n, x, r)
  PROVE  LET t == (x + STEP_PER_SCANLINE) % 65536
         IN  IF t > STEP_PER_FRAME THEN OnTime(n + 1, t % STEP_PER_FRAME, r + 1)
             ELSE OnTime(n + 1, t, r)
<1>1. CASE n = 0
  BY <1>1 DEF OnTime, STEP_PER_SCANLINE, STEP_PER_FRAME
<1>2. CASE n # 0
  <2> DEFINE c == 113 * n - 1
             y == c % 29828
  <2>1. c \in Nat /\ 113 * (n + 1) - 1 = c + 113 /\ n + 1 # 0
    BY <1>2
  <2>2. x = y + 1 /\ r = c \div 29828
    BY <1>2 DEF OnTime, STEP_PER_SCANLINE, STEP_PER_FRAME
  <2>3. y \in Int /\ 0 <= y /\ y < 29828 /\ r \in Int /\ c = 29828 * r + y
    <3> HIDE DEF c
    <3>1. QED
      BY <2>1, <2>2
  <2> HIDE DEF c, y
  <2>4. ASSUME NEW d \in Int, d = c + 113, NEW k \in Int, NEW z \in Int, 0 <= z, z < 29828,
               d = 29828 * k + z
        PROVE  OnTime(n + 1, z + 1, k)
    <3>1. d % 29828 = z /\ d \div 29828 = k
      BY <2>4
    <3>2. QED
      BY <2>1, <2>4, <3>1 DEF OnTime, STEP_PER_SCANLINE, STEP_PER_FRAME
  <2>5. c + 113 \in Int
    BY <2>1
  <2>6. CASE x + 113 > 29828
    <3> DEFINE z == y + 113 - 29828
               d == c + 113
    <3>1. z \in Int /\ 0 <= z /\ z < 29828 /\ r + 1 \in Int
      BY <2>2, <2>3, <2>6
    <3>2. d = 29828 * (r + 1) + z
      BY <2>1, <2>3
    <3>3. (x + 113) % 65536 = x + 113 /\ (x + 113) % 29828 = z + 1
      BY <2>2, <2>3, <2>6
    <3> HIDE DEF z, d
    <3>4. OnTime(n + 1, z + 1, r + 1)
      BY <2>4, <2>5, <3>1, <3>2 DEF d
    <3>5. QED
      BY <2>6, <3>3, <3>4 DEF STEP_PER_SCANLINE, STEP_PER_FRAME
  <2>7. CASE ~ (x + 113 > 29828)
    <3> DEFINE z == y + 113
               d == c + 113
    <3>1. z \in Int /\ 0 <= z /\ z < 29828
      BY <2>2, <2>3, <2>7
    <3>2. d = 29828 * r + z
      BY <2>1, <2>3
    <3>3. (x + 113) % 65536 = x + 113 /\ x + 113 = z + 1
      BY <2>2, <2>3, <2>7
    <3> HIDE DEF z, d
    <3>4. OnTime(n + 1, z + 1, r)
      BY <2>3, <2>4, <2>5, <3>1, <3>2 DEF d
    <3>5. QED
      BY <2>7, <3>3, <3>4 DEF STEP_PER_SCANLINE, STEP_PER_FRAME
  <2>8. QED
    BY <2>6, <2>7 DEF STEP_PER_SCANLINE, STEP_PER_FRAME
<1>3. QED
  BY <1>1, <1>2

(* A slice of the CPU: the sequencer is where it was, or it starts again.  *)
LEMMA SliceInv ==
  ASSUME SeqInv, NEW q, Sequencer(q) \in {Sequencer(s)} \cup Rewound, Slice(q)
  PROVE  SeqInv'
<1>1. Sequencer(s) = <<s.step, s.frameIrq>>
  BY DEF SeqInv, Sequencer
<1>2. PICK x, f : /\ Sequencer(q) = <<x, f>>
                 /\ \/ x = s.step /\ f = s.frameIrq
                    \/ x = 0 /\ f \in BOOLEAN
  BY <1>1 DEF Rewound
<1>3. {"step", "frameIrq"} \subseteq DOMAIN q /\ q.step = x /\ q.frameIrq = f
  <2>1. <<x, f>> # <<>>
    OBVIOUS
  <2>2. QED
    BY <1>2, <2>1 DEF Sequencer
<1>4. s' = q
  BY DEF Slice
<1>5. CASE Restarted(q)
  <2>1. q.step = 0 /\ q.frameIrq \in BOOLEAN
    BY <1>2, <1>3, <1>5 DEF Restarted
  <2>2. since' = 0 /\ raised' = 0
    BY <1>5 DEF Slice
  <2>3. QED
    BY <1>3, <1>4, <2>1, <2>2 DEF SeqInv, OnTime
<1>6. CASE ~ Restarted(q)
  <2>1. q.step = s.step /\ q.frameIrq = s.frameIrq
    BY <1>6 DEF Restarted
  <2>2. since' = since /\ raised' = raised
    BY <1>6 DEF Slice
  <2>3. QED
    BY <1>3, <1>4, <2>1, <2>2 DEF SeqInv, OnTime
<1>7. QED
  BY <1>5, <1>6

(* The invariant holds when the console is switched on.                    *)
LEMMA InitSeqInv == Init => SeqInv
<1> SUFFICES ASSUME Init PROVE SeqInv
  OBVIOUS
<1>1. Sequencer(s) = Off /\ since = 0 /\ raised = 0
  BY ResetStarts DEF Init
<1>2. QED
  BY <1>1 DEF Off, SeqInv, Sequencer, OnTime

(* The end of a line is the step of LineOnTime.                            *)
LEMMA EndOfLineInv ==
  ASSUME SeqInv, EndOfLine
  PROVE  SeqInv'
<1>1. PICK buttons :
        LET f == FrameStep(s)
            b == [f EXCEPT !.board = MapperHSync(f.no, @, f.line, Shown(f))]
        IN  s' = InfoNES_HSync(b, buttons)
  BY DEF EndOfLine
<1> DEFINE f == FrameStep(s)
           b == [f EXCEPT !.board = MapperHSync(f.no, @, f.line, Shown(f))]
<1>2. Sequencer(b) = Sequencer(f)
  <2> HIDE DEF f
  <2>1. QED
    BY DEF Sequencer
<1> HIDE DEF b
<1>3. Sequencer(s') = Sequencer(f)
  BY <1>1, <1>2, HSyncKeeps DEF b
<1>4. /\ {"step", "frameIrq"} \subseteq DOMAIN f /\ f.frameIrq = s.frameIrq
      /\ f.step = IF FrameIrqDue(s) THEN Ticked(s) % STEP_PER_FRAME ELSE Ticked(s)
  BY DEF SeqInv, FrameStep
<1> HIDE DEF f
<1>5. <<f.step, f.frameIrq>> # <<>>
  OBVIOUS
<1>6. {"step", "frameIrq"} \subseteq DOMAIN s' /\ s'.step = f.step /\ s'.frameIrq = f.frameIrq
  BY <1>3, <1>4, <1>5 DEF Sequencer
<1>7. since' = since + 1 /\ raised' = raised + (IF FrameIrqDue(s) THEN 1 ELSE 0)
  BY DEF EndOfLine, Count
<1>8. CASE s.frameIrq
  <2>1. OnTime(since, s.step, raised) /\ since \in Nat
    BY <1>8 DEF SeqInv
  <2>2. /\ Ticked(s) = (s.step + STEP_PER_SCANLINE) % 65536
        /\ FrameIrqDue(s) <=> Ticked(s) > STEP_PER_FRAME
    BY <1>8 DEF FrameIrqDue, Ticked
  <2>3. raised \in Int
    BY <2>1 DEF OnTime, STEP_PER_SCANLINE, STEP_PER_FRAME
  <2>4. IF Ticked(s) > STEP_PER_FRAME THEN OnTime(since + 1, Ticked(s) % STEP_PER_FRAME, raised + 1)
        ELSE OnTime(since + 1, Ticked(s), raised)
    BY <2>1, <2>2, LineOnTime
  <2>5. raised' = IF Ticked(s) > STEP_PER_FRAME THEN raised + 1 ELSE raised
    BY <1>7, <2>2, <2>3
  <2>6. f.step = IF Ticked(s) > STEP_PER_FRAME THEN Ticked(s) % STEP_PER_FRAME ELSE Ticked(s)
    BY <1>4, <2>2
  <2>7. OnTime(since + 1, f.step, raised')
    BY <2>4, <2>5, <2>6
  <2>8. QED
    BY <1>4, <1>6, <1>7, <2>1, <2>7 DEF SeqInv, OnTime
<1>9. CASE ~ s.frameIrq
  BY <1>4, <1>6, <1>7, <1>9 DEF SeqInv
<1>10. QED
  BY <1>8, <1>9

(* Every step preserves the invariant.                                     *)
LEMMA NextSeqInv == SeqInv /\ [Next]_vars => SeqInv'
<1> SUFFICES ASSUME SeqInv, [Next]_vars PROVE SeqInv'
  OBVIOUS
<1>1. CASE RunLine
  BY <1>1, SliceInv, SliceKeeps DEF RunLine
<1>2. CASE RunToHit
  <2>1. PICK q : Sequencer(q) \in {Sequencer(s)} \cup Rewound /\ SliceToHit(q)
    BY <1>2, SliceKeeps DEF RunToHit
  <2> DEFINE r == [q EXCEPT !.R2 = IF Shown(q) THEN SetField(@, 6, 1, 1) ELSE @, !.nmi = @ \/ HitNmi(q)]
  <2>2. Slice(r)
    BY <2>1 DEF SliceToHit
  <2>3. Sequencer(r) = Sequencer(q)
    BY DEF Sequencer
  <2> HIDE DEF r
  <2>4. QED
    BY <2>1, <2>2, <2>3, SliceInv
<1>3. CASE RunFromHit
  BY <1>3, SliceInv, SliceKeeps DEF RunFromHit
<1>4. CASE EndOfLine
  BY <1>4, EndOfLineInv
<1>5. CASE Reset
  <2>1. Sequencer(s') = Off /\ since' = 0 /\ raised' = 0
    BY <1>5, ResetStarts DEF Reset
  <2>2. QED
    BY <2>1 DEF Off, SeqInv, Sequencer, OnTime
<1>6. CASE UNCHANGED vars
  BY <1>6 DEF vars, SeqInv, OnTime
<1>7. QED
  BY <1>1, <1>2, <1>3, <1>4, <1>5, <1>6 DEF Next

(* FrameIrqOnTime: whatever the game executes and whenever within a line   *)
(* it writes $4017, the frame interrupts raised since a write that enables *)
(* them are as many as frames of 29828 clocks are complete (FrameStep).    *)
THEOREM FrameIrqOnTimeHolds == Spec => []FrameIrqOnTime
<1>1. SeqInv => FrameIrqOnTime
  BY DEF SeqInv, OnTime, FrameIrqOnTime
<1>2. QED
  BY <1>1, InitSeqInv, NextSeqInv, PTL DEF Spec

-----------------------------------------------------------------------------
(* The patterns of a cartridge.  For the renderer there are two kinds of   *)
(* boards: those whose decoded characters (chr) are the pages the pattern  *)
(* windows select, and the others, of which the view names both.  A        *)
(* handler that leaves the view as it is, or decodes the characters of     *)
(* whatever it selected, cannot have moved a window unnoticed.  What       *)
(* follows shows one of the two for every handler of every board but the   *)
(* last; each statement is about all boards, addresses and bytes.          *)

Selected(p) == [w \in 0..7 |-> p[w]]
Look(p, c) == IF c = Selected(p) THEN <<"drawn">> ELSE <<Selected(p), c>>
View(b) == IF "ppu" \in DOMAIN b /\ "chr" \in DOMAIN b THEN Look(b.ppu, b.chr) ELSE <<>>
Redraw(v) == IF v = <<>> THEN v ELSE <<"drawn">>
Keeps(b, h) == View(h) = View(b) \/ View(h) = Redraw(View(b))

(* View, for any board.                                                    *)
LEMMA Views ==
  \A b : View(b) = IF "ppu" \in DOMAIN b /\ "chr" \in DOMAIN b THEN Look(b.ppu, b.chr) ELSE <<>>
BY DEF View

(* Decoding twice shows what decoding once does.                           *)
LEMMA Redraws == \A v : Redraw(Redraw(v)) = Redraw(v)
BY DEF Redraw

(* The CPU's windows are not in the view.                                  *)
LEMMA CpuWinView == \A b, i, p : View(CpuWin(b, i, p)) = View(b)
BY DEF View, CpuWin

(* Nor are they moved by the operators on ROM pages in any other way.      *)
LEMMA PrgView ==
  \A b, i, n, p : View(Prg(b, i, n, p)) = View(b) /\ View(PrgMod(b, i, n, p)) = View(b)
BY CpuWinView DEF Prg, PrgMod

(* InfoNES_SetupChr decodes what is selected.                              *)
LEMMA SetupView == ASSUME NEW b PROVE View(InfoNES_SetupChr(b)) = Redraw(View(b))
<1> DEFINE h == InfoNES_SetupChr(b)
<1>1. /\ DOMAIN h = DOMAIN b
      /\ "chr" \in DOMAIN b => h.chr = Selected(b.ppu)
      /\ "ppu" \in DOMAIN b => h.ppu = b.ppu
  BY DEF InfoNES_SetupChr, Selected
<1> HIDE DEF h
<1>2. View(h) = Redraw(View(b))
  BY <1>1 DEF View, Redraw, Look
<1>3. QED
  BY <1>2 DEF h

(* A store to a pattern window is noted, and moves none.                   *)
LEMMA StoreFields ==
  ASSUME NEW b, NEW w
  PROVE  LET t == StorePattern(b, w)
         IN  /\ DOMAIN t = DOMAIN b
             /\ \A f \in DOMAIN b \ {"stale", "update"} : t[f] = b[f]
<1> DEFINE m == Overwrite(b, b.ppu[w])
<1>1. DOMAIN m = DOMAIN b /\ \A f \in DOMAIN b \ {"stale"} : m[f] = b[f]
  BY DEF Overwrite
<1>2. StorePattern(b, w) = [m EXCEPT !.update = @ \cup {w}]
  BY DEF StorePattern
<1> HIDE DEF m
<1>3. QED
  BY <1>1, <1>2

(* So the view stays what it was.                                          *)
LEMMA StoreView == ASSUME NEW b, NEW w PROVE View(StorePattern(b, w)) = View(b)
<1> DEFINE t == StorePattern(b, w)
<1>1. DOMAIN t = DOMAIN b /\ \A f \in DOMAIN b \ {"stale", "update"} : t[f] = b[f]
  BY StoreFields
<1> HIDE DEF t
<1>2. View(t) = View(b)
  BY <1>1 DEF View
<1>3. QED
  BY <1>2 DEF t

(* A board whose windows are moved is still a board.                       *)
LEMMA PpuWinView == ASSUME NEW b, NEW i, NEW p PROVE Redraw(View(PpuWin(b, i, p))) = Redraw(View(b))
<1> DEFINE h == PpuWin(b, i, p)
<1>1. DOMAIN h = DOMAIN b
  BY DEF PpuWin
<1> HIDE DEF h
<1>2. Redraw(View(h)) = Redraw(View(b))
  BY <1>1 DEF View, Redraw, Look
<1>3. QED
  BY <1>2 DEF h

(* Windows moved and decoded show what is selected.                        *)
LEMMA SetupPpuView == \A b, i, p : View(InfoNES_SetupChr(PpuWin(b, i, p))) = Redraw(View(b))
BY SetupView, PpuWinView

(* So do the operators on pattern pages.                                   *)
LEMMA ChrView ==
  \A b, i, n, p : /\ View(Chr(b, i, n, p)) = Redraw(View(b))
                  /\ View(ChrMod(b, i, n, p)) = Redraw(View(b))
                  /\ View(ChrCRam(b, i, n, p)) = Redraw(View(b))
BY SetupPpuView DEF Chr, ChrMod, ChrCRam

(* The name tables are not in the view.                                    *)
LEMMA NamesView == ASSUME NEW b, NEW p, DOMAIN p = 0..3 PROVE View(PpuWin(b, 8, p)) = View(b)
<1> DEFINE h == PpuWin(b, 8, p)
<1>1. DOMAIN h = DOMAIN b /\ ("chr" \in DOMAIN b => h.chr = b.chr)
  BY DEF PpuWin
<1>2. "ppu" \in DOMAIN b => \A w \in 0..7 : h.ppu[w] = b.ppu[w]
  BY DEF PpuWin
<1> HIDE DEF h
<1>3. "ppu" \in DOMAIN b => Selected(h.ppu) = Selected(b.ppu)
  BY <1>2 DEF Selected
<1>4. View(h) = View(b)
  BY <1>1, <1>3 DEF View, Look
<1>5. QED
  BY <1>4 DEF h

(* Mirroring moves name tables only.                                       *)
LEMMA MirrorView == ASSUME NEW b, NEW t PROVE View(InfoNES_Mirroring(b, t)) = View(b)
BY NamesView DEF InfoNES_Mirroring

(* And so in its other forms.                                              *)
LEMMA MirrorsView ==
  /\ \A b, d, t : View(MirrorBy(b, d, t)) = View(b)
  /\ \A b, c, y, n : View(MirrorIf(b, c, y, n)) = View(b)
BY MirrorView DEF MirrorBy, MirrorIf

(* The interrupt unit and the CPU's four windows are not in the view.      *)
LEMMA FieldsView ==
  /\ \A b : View(IRQ_REQ(b)) = View(b) /\ View(ClearIrq(b)) = View(b)
  /\ \A b, p : View(Banks(b, p)) = View(b)
BY DEF View, IRQ_REQ, ClearIrq, Banks

(* A single window: moved and decoded, or beyond the pattern windows.      *)
SetPage(b, w, x) == [b EXCEPT !.ppu[w] = x]
LEMMA SetPageView ==
  ASSUME NEW b, NEW w, NEW x
  PROVE  /\ View(InfoNES_SetupChr(SetPage(b, w, x))) = Redraw(View(b))
         /\ w \notin 0..7 => View(SetPage(b, w, x)) = View(b)
<1> DEFINE h == SetPage(b, w, x)
<1>1. DOMAIN h = DOMAIN b /\ ("chr" \in DOMAIN b => h.chr = b.chr)
  BY DEF SetPage
<1>2. ASSUME "ppu" \in DOMAIN b, w \notin 0..7, NEW k \in 0..7 PROVE h.ppu[k] = b.ppu[k]
  <2>1. h.ppu = [b.ppu EXCEPT ![w] = x]
    BY <1>2 DEF SetPage
  <2>2. QED
    BY <1>2, <2>1
<1> HIDE DEF h
<1>3. "ppu" \in DOMAIN b /\ w \notin 0..7 => Selected(h.ppu) = Selected(b.ppu)
  BY <1>2 DEF Selected
<1>4. w \notin 0..7 => View(h) = View(b)
  BY <1>1, <1>3 DEF View, Look
<1>5. Redraw(View(h)) = Redraw(View(b))
  BY <1>1 DEF View, Redraw, Look
<1>6. View(InfoNES_SetupChr(h)) = Redraw(View(b))
  BY <1>5, SetupView
<1>7. QED
  BY <1>4, <1>6 DEF h

(* All of it, for the lemmas below.                                        *)
LEMMA PrimitivesView ==
  /\ \A b : /\ View(b) = IF "ppu" \in DOMAIN b /\ "chr" \in DOMAIN b THEN Look(b.ppu, b.chr) ELSE <<>>
            /\ View(IRQ_REQ(b)) = View(b)
            /\ View(ClearIrq(b)) = View(b)
  /\ \A b, p : View(Banks(b, p)) = View(b)
  /\ \A v : Redraw(Redraw(v)) = Redraw(v)
  /\ \A b, i, p : /\ View(CpuWin(b, i, p)) = View(b)
                  /\ View(InfoNES_SetupChr(PpuWin(b, i, p))) = Redraw(View(b))
  /\ \A b, i, n, p : /\ View(Prg(b, i, n, p)) = View(b)
                     /\ View(PrgMod(b, i, n, p)) = View(b)
                     /\ View(Chr(b, i, n, p)) = Redraw(View(b))
                     /\ View(ChrMod(b, i, n, p)) = Redraw(View(b))
                     /\ View(ChrCRam(b, i, n, p)) = Redraw(View(b))
  /\ \A b, t : View(InfoNES_Mirroring(b, t)) = View(b)
  /\ \A b, d, t : View(MirrorBy(b, d, t)) = View(b)
  /\ \A b, c, y, n : View(MirrorIf(b, c, y, n)) = View(b)
BY Views, Redraws, CpuWinView, PrgView, SetupPpuView, ChrView, MirrorView, MirrorsView, FieldsView

USE PrimitivesView DEF Keeps

-----------------------------------------------------------------------------
(* The blocks and idioms that several boards share.                        *)

(* FirstFour selects and decodes no pattern.                               *)
LEMMA FirstFourView == ASSUME NEW b PROVE View(FirstFour(b)) = View(b)
BY DEF FirstFour

(* FirstAndLast selects and decodes no pattern.                            *)
LEMMA FirstAndLastView == ASSUME NEW b PROVE View(FirstAndLast(b)) = View(b)
BY DEF FirstAndLast

(* FirstVRom decodes what it selects.                                      *)
LEMMA FirstVRomView == ASSUME NEW b PROVE View(FirstVRom(b)) \in {View(b), Redraw(View(b))}
BY DEF FirstVRom

(* Mmc3Defaults selects and decodes no pattern.                            *)
LEMMA Mmc3DefaultsView == ASSUME NEW b PROVE View(Mmc3Defaults(b)) = View(b)
BY DEF Mmc3Defaults

(* Mmc3Data selects and decodes no pattern.                                *)
LEMMA Mmc3DataView == ASSUME NEW b, NEW d PROVE View(Mmc3Data(b, d)) = View(b)
BY DEF Mmc3Data

(* Mmc3Prg selects and decodes no pattern.                                 *)
LEMMA Mmc3PrgView == ASSUME NEW b PROVE View(Mmc3Prg(b)) = View(b)
BY DEF Mmc3Prg

(* Mmc3Chr decodes what it selects.                                        *)
LEMMA Mmc3ChrView == ASSUME NEW b PROVE View(Mmc3Chr(b)) \in {View(b), Redraw(View(b))}
BY DEF Mmc3Chr

(* Mmc3Init decodes what it selects.                                       *)
LEMMA Mmc3InitView == ASSUME NEW b PROVE View(Mmc3Init(b)) \in {View(b), Redraw(View(b))}
<1>1. View([b EXCEPT !.sram = Sram, !.reg[0] = 0]) = View(b)
  BY DEF View
<1>2. QED
  BY <1>1, Mmc3ChrView, Mmc3PrgView, Mmc3DefaultsView DEF Mmc3Init

(* Mmc3Select decodes what it selects.                                     *)
LEMMA Mmc3SelectView ==
  ASSUME NEW b, NEW d
  PROVE  View(Mmc3Select(b, d)) \in {View(b), Redraw(View(b))}
BY Mmc3PrgView, Mmc3ChrView DEF Mmc3Select

(* Mmc3Bank decodes what it selects.                                       *)
LEMMA Mmc3BankView ==
  ASSUME NEW b, NEW d
  PROVE  View(Mmc3Bank(b, d)) \in {View(b), Redraw(View(b))}
BY Mmc3PrgView, Mmc3DataView, Mmc3ChrView DEF Mmc3Bank

(* Mmc3Mirror selects and decodes no pattern.                              *)
LEMMA Mmc3MirrorView == ASSUME NEW b, NEW d PROVE View(Mmc3Mirror(b, d)) = View(b)
BY DEF Mmc3Mirror

(* CloneIrq selects and decodes no pattern.                                *)
LEMMA CloneIrqView == ASSUME NEW b, NEW port, NEW d PROVE View(CloneIrq(b, port, d)) = View(b)
BY DEF CloneIrq

(* CountToZero selects and decodes no pattern.                             *)
LEMMA CountToZeroView ==
  ASSUME NEW b, NEW line, NEW show
  PROVE  View(CountToZero(b, line, show)) = View(b)
BY DEF CountToZero

(* VrcAck selects and decodes no pattern.                                  *)
LEMMA VrcAckView == ASSUME NEW b PROVE View(VrcAck(b)) = View(b)
BY DEF VrcAck

(* VrcControl selects and decodes no pattern.                              *)
LEMMA VrcControlView == ASSUME NEW b, NEW d PROVE View(VrcControl(b, d)) = View(b)
BY DEF VrcControl, View

-----------------------------------------------------------------------------
(* Boards 0 to 18.                                                         *)

(* Map0_Init decodes what it selects.                                      *)
LEMMA Map0_InitView == ASSUME NEW b PROVE View(Map0_Init(b)) \in {View(b), Redraw(View(b))}
BY FirstVRomView DEF Map0_Init

(* Map1_set_ROM_banks selects and decodes no pattern.                      *)
LEMMA Map1_set_ROM_banksView == ASSUME NEW b PROVE View(Map1_set_ROM_banks(b)) = View(b)
BY DEF Map1_set_ROM_banks

(* Map1_Base selects and decodes no pattern.                               *)
LEMMA Map1_BaseView == ASSUME NEW b, NEW base PROVE View(Map1_Base(b, base)) = View(b)
<1>1. View([b EXCEPT !.reg[5] = base, !.reg[6] = 0]) = View(b)
  BY DEF View
<1>2. QED
  BY <1>1, Map1_set_ROM_banksView DEF Map1_Base

(* Map1_Chr0 decodes what it selects.                                      *)
LEMMA Map1_Chr0View == ASSUME NEW b PROVE View(Map1_Chr0(b)) \in {View(b), Redraw(View(b))}
BY Map1_BaseView, Map1_set_ROM_banksView DEF Map1_Chr0

(* Map1_Chr1 decodes what it selects.                                      *)
LEMMA Map1_Chr1View == ASSUME NEW b PROVE View(Map1_Chr1(b)) \in {View(b), Redraw(View(b))}
BY Map1_BaseView DEF Map1_Chr1

(* Map1_Prg selects and decodes no pattern.                                *)
LEMMA Map1_PrgView == ASSUME NEW b PROVE View(Map1_Prg(b)) = View(b)
<1> DEFINE p == 2 * b.reg[3]
           low == [b EXCEPT !.bank[1] = p, !.bank[2] = p + 1]
<1>1. View(low) = View(b)
  BY DEF View
<1>2. View([low EXCEPT !.bank[3] = Map1_HI1(b), !.bank[4] = Map1_HI1(b) + 1]) = View(b)
  BY DEF View
<1>3. View([b EXCEPT !.bank[1] = 0, !.bank[2] = 1, !.bank[3] = p, !.bank[4] = p + 1]) = View(b)
  BY DEF View
<1>4. View([low EXCEPT !.bank[3] = p + 2, !.bank[4] = p + 3]) = View(b)
  BY DEF View
<1>5. QED
  BY <1>1, <1>2, <1>3, <1>4, Map1_set_ROM_banksView DEF Map1_Prg

(* Map1_Empty selects and decodes no pattern.                              *)
LEMMA Map1_EmptyView == ASSUME NEW b PROVE View(Map1_Empty(b)) = View(b)
BY DEF Map1_Empty, View

(* Map1_Enter selects and decodes no pattern.                              *)
LEMMA Map1_EnterView == ASSUME NEW b, NEW region PROVE View(Map1_Enter(b, region)) = View(b)
BY Map1_EmptyView DEF Map1_Enter

(* Map4_Set_CPU_Banks selects and decodes no pattern.                      *)
LEMMA Map4_Set_CPU_BanksView == ASSUME NEW b PROVE View(Map4_Set_CPU_Banks(b)) = View(b)
BY Mmc3PrgView DEF Map4_Set_CPU_Banks

(* Map4_Set_PPU_Banks decodes what it selects.                             *)
LEMMA Map4_Set_PPU_BanksView ==
  ASSUME NEW b
  PROVE  View(Map4_Set_PPU_Banks(b)) \in {View(b), Redraw(View(b))}
BY Mmc3ChrView DEF Map4_Set_PPU_Banks

(* Map4_Init decodes what it selects.                                      *)
LEMMA Map4_InitView == ASSUME NEW b PROVE View(Map4_Init(b)) \in {View(b), Redraw(View(b))}
BY Mmc3InitView DEF Map4_Init, View

(* Map4_Write decodes what it selects.                                     *)
LEMMA Map4_WriteView ==
  ASSUME NEW b, NEW a, NEW d, NEW line
  PROVE  View(Map4_Write(b, a, d, line)) \in {View(b), Redraw(View(b))}
<1>1. View([b EXCEPT !.cnt = Or(@, 128), !.present = 1]) = View(b)
  BY DEF View
<1>2. View([b EXCEPT !.cnt = Or(@, 128), !.vbl = 1, !.present = 0]) = View(b)
  BY DEF View
<1>3. View([b EXCEPT !.enable = 0, !.req = 0]) = View(b)
  BY DEF View
<1>4. View([b EXCEPT !.enable = 1, !.req = 0]) = View(b)
  BY DEF View
<1>5. QED
  BY <1>1, <1>2, <1>3, <1>4, Map4_Set_CPU_BanksView, Map4_Set_PPU_BanksView, Mmc3BankView,
       Mmc3MirrorView DEF Map4_Write

(* Map4_HSync selects and decodes no pattern.                              *)
LEMMA Map4_HSyncView ==
  ASSUME NEW b, NEW line, NEW show
  PROVE  View(Map4_HSync(b, line, show)) = View(b)
BY DEF Map4_HSync, View, IRQ_REQ

(* Map5_Window selects and decodes no pattern.                             *)
LEMMA Map5_WindowView ==
  ASSUME NEW b, NEW w, NEW isRom, NEW p, NEW q
  PROVE  View(Map5_Window(b, w, isRom, p, q)) = View(b)
BY DEF Map5_Window, View

(* Map5_Sync_Prg_Banks selects and decodes no pattern.                     *)
LEMMA Map5_Sync_Prg_BanksView == ASSUME NEW b PROVE View(Map5_Sync_Prg_Banks(b)) = View(b)
<1> DEFINE r(k) == b.reg[k]
           pair(g, w, k) == Map5_Window(Map5_Window(g, w, On(r(k), 7), Hi(r(k) % 128, 2), 2 * Field(r(k), 1, 2)),
                                   w + 1, On(r(k), 7), Hi(r(k) % 128, 2) + 1, 2 * Field(r(k), 1, 2) + 1)
           one(g, w, k) == Map5_Window(g, w, On(r(k), 7), r(k) % 128, r(k) % 8)
           last(g, n, p) == PrgMod(g, 4 - n, n, p)
           rom(g, w) == [g EXCEPT !.reg[28 + w] = NoWram]
           low == rom(rom(b, 0), 1)
           high == IF On(r(5), 7) THEN PrgMod(low, 0, 2, Hi(r(7) % 128, 2)) ELSE pair(b, 0, 5)
<1>1. \A g, w, k : View(pair(g, w, k)) = View(g) /\ View(one(g, w, k)) = View(g)
  BY Map5_WindowView
<1>2. \A g, w, p : View(last(g, w, p)) = View(g)
  BY PrgView
<1>3. ASSUME NEW g, NEW w PROVE View(rom(g, w)) = View(g)
  BY DEF View
<1>4. Map5_Sync_Prg_Banks(b) \in
        {last(rom(low, 2), 4, Hi(r(7) % 128, 4)), last(rom(high, 2), 2, Hi(r(7) % 128, 2)),
         last(one(pair(b, 0, 5), 2, 6), 1, r(7) % 128), last(one(one(one(b, 0, 4), 1, 5), 2, 6), 1, r(7) % 128)}
  BY SMT DEF Map5_Sync_Prg_Banks
<1> HIDE DEF r, pair, one, last, rom
<1>5. View(low) = View(b)
  BY <1>3
<1> HIDE DEF low
<1>6. View(high) = View(b)
  BY <1>1, <1>5, PrgView
<1> HIDE DEF high
<1>7. QED
  BY <1>1, <1>2, <1>3, <1>4, <1>5, <1>6

(* LatchInit decodes what it selects.                                      *)
LEMMA LatchInitView == ASSUME NEW b PROVE View(LatchInit(b)) \in {View(b), Redraw(View(b))}
BY FirstVRomView DEF LatchInit, View

(* LatchBank decodes what it selects.                                      *)
LEMMA LatchBankView ==
  ASSUME NEW b, NEW h, NEW g, NEW d
  PROVE  View(LatchBank(b, h, g, d)) \in {View(b), Redraw(View(b))}
BY DEF LatchBank

(* LatchFetch decodes what it selects.                                     *)
LEMMA LatchFetchView ==
  ASSUME NEW b, NEW a
  PROVE  View(LatchFetch(b, a)) \in {View(b), Redraw(View(b))}
BY DEF LatchFetch

-----------------------------------------------------------------------------
(* Boards 19 to 49.                                                        *)

(* VrcChr decodes what it selects.                                         *)
LEMMA VrcChrView ==
  ASSUME NEW b, NEW k, NEW half, NEW d
  PROVE  View(VrcChr(b, k, half, d)) \in {View(b), Redraw(View(b))}
BY DEF VrcChr

(* VrcCount selects and decodes no pattern.                                *)
LEMMA VrcCountView == ASSUME NEW b PROVE View(VrcCount(b)) = View(b)
BY VrcAckView DEF VrcCount

(* Identity selects and decodes no pattern.                                *)
LEMMA IdentityView == ASSUME NEW b, NEW n PROVE View(Identity(b, n)) = View(b)
BY DEF Identity

(* ZeroRegs selects and decodes no pattern.                                *)
LEMMA ZeroRegsView == ASSUME NEW b, NEW n PROVE View(ZeroRegs(b, n)) = View(b)
BY DEF ZeroRegs

(* Map25_Sync_Vrom decodes what it selects.                                *)
LEMMA Map25_Sync_VromView ==
  ASSUME NEW b, NEW n
  PROVE  View(Map25_Sync_Vrom(b, n)) \in {View(b), Redraw(View(b))}
BY DEF Map25_Sync_Vrom

(* Map34_Write selects and decodes no pattern.                             *)
LEMMA Map34_WriteView == ASSUME NEW b, NEW a, NEW d PROVE View(Map34_Write(b, a, d)) = View(b)
BY DEF Map34_Write

(* Map46_Set_ROM_Banks decodes what it selects.                            *)
LEMMA Map46_Set_ROM_BanksView ==
  ASSUME NEW b
  PROVE  View(Map46_Set_ROM_Banks(b)) \in {View(b), Redraw(View(b))}
BY DEF Map46_Set_ROM_Banks

(* Map44_Set_CPU_Banks selects and decodes no pattern.                     *)
LEMMA Map44_Set_CPU_BanksView == ASSUME NEW b PROVE View(Map44_Set_CPU_Banks(b)) = View(b)
BY DEF Map44_Set_CPU_Banks

(* Map44_Set_PPU_Banks decodes what it selects.                            *)
LEMMA Map44_Set_PPU_BanksView ==
  ASSUME NEW b
  PROVE  View(Map44_Set_PPU_Banks(b)) \in {View(b), Redraw(View(b))}
BY DEF Map44_Set_PPU_Banks

(* Map44_Init decodes what it selects.                                     *)
LEMMA Map44_InitView == ASSUME NEW b PROVE View(Map44_Init(b)) \in {View(b), Redraw(View(b))}
<1>1. View([b EXCEPT !.sram = Sram, !.reg[0] = 0, !.bank[8] = 0]) = View(b)
  BY DEF View
<1>2. QED
  BY <1>1, Map44_Set_PPU_BanksView, Map44_Set_CPU_BanksView, Mmc3DefaultsView DEF Map44_Init

(* Map44_Data decodes what it selects.                                     *)
LEMMA Map44_DataView ==
  ASSUME NEW b, NEW d
  PROVE  View(Map44_Data(b, d)) \in {View(b), Redraw(View(b))}
BY Map44_Set_CPU_BanksView, Mmc3DataView, Map44_Set_PPU_BanksView DEF Map44_Data

(* Map44_Write decodes what it selects.                                    *)
LEMMA Map44_WriteView ==
  ASSUME NEW b, NEW a, NEW d
  PROVE  View(Map44_Write(b, a, d)) \in {View(b), Redraw(View(b))}
BY Map44_Set_CPU_BanksView, Map44_Set_PPU_BanksView, Map44_DataView, Mmc3MirrorView,
     CloneIrqView DEF Map44_Write

(* Map47_Set_CPU_Banks selects and decodes no pattern.                     *)
LEMMA Map47_Set_CPU_BanksView == ASSUME NEW b PROVE View(Map47_Set_CPU_Banks(b)) = View(b)
BY Map44_Set_CPU_BanksView DEF Map47_Set_CPU_Banks

(* Map47_Set_PPU_Banks decodes what it selects.                            *)
LEMMA Map47_Set_PPU_BanksView ==
  ASSUME NEW b
  PROVE  View(Map47_Set_PPU_Banks(b)) \in {View(b), Redraw(View(b))}
BY Map44_Set_PPU_BanksView DEF Map47_Set_PPU_Banks

(* Map47_HSync selects and decodes no pattern.                             *)
LEMMA Map47_HSyncView ==
  ASSUME NEW b, NEW line, NEW show
  PROVE  View(Map47_HSync(b, line, show)) = View(b)
BY DEF Map47_HSync, View, IRQ_REQ

(* Map49_Set_CPU_Banks selects and decodes no pattern.                     *)
LEMMA Map49_Set_CPU_BanksView == ASSUME NEW b PROVE View(Map49_Set_CPU_Banks(b)) = View(b)
BY DEF Map49_Set_CPU_Banks

(* Map49_Set_PPU_Banks decodes what it selects.                            *)
LEMMA Map49_Set_PPU_BanksView ==
  ASSUME NEW b
  PROVE  View(Map49_Set_PPU_Banks(b)) \in {View(b), Redraw(View(b))}
BY DEF Map49_Set_PPU_Banks

(* Map49_Select decodes what it selects.                                   *)
LEMMA Map49_SelectView ==
  ASSUME NEW b, NEW d
  PROVE  View(Map49_Select(b, d)) \in {View(b), Redraw(View(b))}
BY Map49_Set_CPU_BanksView, Map49_Set_PPU_BanksView DEF Map49_Select

-----------------------------------------------------------------------------
(* Boards 50 to 99.                                                        *)

(* Both decodes what it selects.                                           *)
LEMMA BothView ==
  ASSUME NEW b, NEW p, NEW c
  PROVE  View(Both(b, p, c)) \in {View(b), Redraw(View(b))}
BY DEF Both

(* Twice selects and decodes no pattern.                                   *)
LEMMA TwiceView == ASSUME NEW b, NEW p PROVE View(Twice(b, p)) = View(b)
BY DEF Twice

(* Map51_Set_CPU_Banks selects and decodes no pattern.                     *)
LEMMA Map51_Set_CPU_BanksView == ASSUME NEW b PROVE View(Map51_Set_CPU_Banks(b)) = View(b)
BY DEF Map51_Set_CPU_Banks

(* Map68_SyncMirror decodes what it selects.                               *)
LEMMA Map68_SyncMirrorView ==
  ASSUME NEW b
  PROVE  View(Map68_SyncMirror(b)) \in {View(b), Redraw(View(b))}
BY DEF Map68_SyncMirror

(* Map83_Chr decodes what it selects.                                      *)
LEMMA Map83_ChrView ==
  ASSUME NEW b, NEW k, NEW d
  PROVE  View(Map83_Chr(b, k, d)) \in {View(b), Redraw(View(b))}
BY DEF Map83_Chr

(* Map90_Sync_Mirror selects and decodes no pattern.                       *)
LEMMA Map90_Sync_MirrorView == ASSUME NEW b PROVE View(Map90_Sync_Mirror(b)) = View(b)
<1> DEFINE name(k) == 256 * b.reg[24 + k] + b.reg[20 + k]
           p == [k \in 0..3 |-> VRom(name(k) % ChrPages(b))]
<1>1. View(PpuWin(b, 8, p)) = View(b)
  BY NamesView
<1>2. View([b EXCEPT !.bank[2] = 0]) = View(b)
  BY DEF View
<1>3. Map90_Sync_Mirror(b) \in {InfoNES_Mirroring(b, <<1, 0, 3, 3>>[b.bank[3] + 1]), [b EXCEPT !.bank[2] = 0], PpuWin(b, 8, p)}
  BY Zenon DEF Map90_Sync_Mirror
<1> HIDE DEF p
<1>4. QED
  BY <1>1, <1>2, <1>3, MirrorView

(* Map90_Sync_Chr_Banks decodes what it selects.                           *)
LEMMA Map90_Sync_Chr_BanksView ==
  ASSUME NEW b
  PROVE  View(Map90_Sync_Chr_Banks(b)) \in {View(b), Redraw(View(b))}
BY DEF Map90_Sync_Chr_Banks

(* Map90_Sync_Prg_Banks selects and decodes no pattern.                    *)
LEMMA Map90_Sync_Prg_BanksView == ASSUME NEW b PROVE View(Map90_Sync_Prg_Banks(b)) = View(b)
BY DEF Map90_Sync_Prg_Banks

(* Map90_Mode decodes what it selects.                                     *)
LEMMA Map90_ModeView ==
  ASSUME NEW b, NEW d
  PROVE  View(Map90_Mode(b, d)) \in {View(b), Redraw(View(b))}
<1>1. View([b EXCEPT !.bank[0] = And(d, 128), !.bank[1] = And(d, 4), !.bank[2] = And(d, 32),
              !.reg[28] = d % 4, !.reg[29] = Field(d, 3, 2)]) = View(b)
  BY DEF View
<1>2. QED
  BY <1>1, Map90_Sync_MirrorView, Map90_Sync_Chr_BanksView, Map90_Sync_Prg_BanksView DEF Map90_Mode

(* Map95_Set_CPU_Banks selects and decodes no pattern.                     *)
LEMMA Map95_Set_CPU_BanksView == ASSUME NEW b PROVE View(Map95_Set_CPU_Banks(b)) = View(b)
BY Mmc3PrgView DEF Map95_Set_CPU_Banks

(* Map95_Set_PPU_Banks decodes what it selects.                            *)
LEMMA Map95_Set_PPU_BanksView ==
  ASSUME NEW b
  PROVE  View(Map95_Set_PPU_Banks(b)) \in {View(b), Redraw(View(b))}
BY Mmc3ChrView DEF Map95_Set_PPU_Banks

(* Map96_Set_Banks decodes what it selects.                                *)
LEMMA Map96_Set_BanksView ==
  ASSUME NEW b
  PROVE  View(Map96_Set_Banks(b)) \in {View(b), Redraw(View(b))}
BY DEF Map96_Set_Banks

-----------------------------------------------------------------------------
(* Boards 100 to 191.                                                      *)

(* Map100_Set_CPU_Banks selects and decodes no pattern.                    *)
LEMMA Map100_Set_CPU_BanksView == ASSUME NEW b PROVE View(Map100_Set_CPU_Banks(b)) = View(b)
BY DEF Map100_Set_CPU_Banks

(* Map100_Set_PPU_Banks decodes what it selects.                           *)
LEMMA Map100_Set_PPU_BanksView ==
  ASSUME NEW b
  PROVE  View(Map100_Set_PPU_Banks(b)) \in {View(b), Redraw(View(b))}
BY DEF Map100_Set_PPU_Banks

(* Map100_Data decodes what it selects.                                    *)
LEMMA Map100_DataView ==
  ASSUME NEW b, NEW d
  PROVE  View(Map100_Data(b, d)) \in {View(b), Redraw(View(b))}
<1> DEFINE mode == And(b.reg[0], 199)
           pair(k) == [b EXCEPT !.bank[k] = Hi(d, 2), !.bank[k + 1] = Hi(d, 2) + 1]
           one(k) == [b EXCEPT !.bank[k] = d]
<1>1. ASSUME NEW k PROVE View(pair(k)) = View(b) /\ View(one(k)) = View(b)
  BY DEF View
<1>2. Map100_Data(b, d) \in
        {b, Map100_Set_PPU_Banks(pair(2 * mode)), Map100_Set_PPU_Banks(pair(4 + 2 * (mode % 2))),
         Map100_Set_PPU_Banks(one(mode + 2)), Map100_Set_PPU_Banks(one(mode - \h82)),
         Map100_Set_CPU_Banks(one(8 + (mode - 6))), Map100_Set_CPU_Banks(one(8 + (mode - 68)))}
  BY SMT DEF Map100_Data
<1> HIDE DEF mode, pair, one
<1>3. QED
  BY <1>1, <1>2, Map100_Set_PPU_BanksView, Map100_Set_CPU_BanksView

(* Map105_Shift selects and decodes no pattern.                            *)
LEMMA Map105_ShiftView == ASSUME NEW b, NEW r, NEW d PROVE View(Map105_Shift(b, r, d)) = View(b)
BY DEF Map105_Shift, View

(* Map105_Prg selects and decodes no pattern.                              *)
LEMMA Map105_PrgView == ASSUME NEW b PROVE View(Map105_Prg(b)) = View(b)
BY DEF Map105_Prg

(* Map105_Mirror selects and decodes no pattern.                           *)
LEMMA Map105_MirrorView == ASSUME NEW b PROVE View(Map105_Mirror(b)) = View(b)
BY DEF Map105_Mirror

(* Map105_Irq selects and decodes no pattern.                              *)
LEMMA Map105_IrqView == ASSUME NEW b PROVE View(Map105_Irq(b)) = View(b)
BY DEF Map105_Irq, View

(* Map105_Banks selects and decodes no pattern.                            *)
LEMMA Map105_BanksView == ASSUME NEW b PROVE View(Map105_Banks(b)) = View(b)
BY Map105_IrqView, Map105_PrgView DEF Map105_Banks

(* Map109_Set_PPU_Banks decodes what it selects.                           *)
LEMMA Map109_Set_PPU_BanksView ==
  ASSUME NEW b
  PROVE  View(Map109_Set_PPU_Banks(b)) \in {View(b), Redraw(View(b))}
BY DEF Map109_Set_PPU_Banks

(* Map112_Set_CPU_Banks selects and decodes no pattern.                    *)
LEMMA Map112_Set_CPU_BanksView == ASSUME NEW b PROVE View(Map112_Set_CPU_Banks(b)) = View(b)
BY Mmc3PrgView DEF Map112_Set_CPU_Banks

(* Map112_Set_PPU_Banks decodes what it selects.                           *)
LEMMA Map112_Set_PPU_BanksView ==
  ASSUME NEW b
  PROVE  View(Map112_Set_PPU_Banks(b)) \in {View(b), Redraw(View(b))}
BY Mmc3ChrView DEF Map112_Set_PPU_Banks

(* Map112_Data decodes what it selects.                                    *)
LEMMA Map112_DataView ==
  ASSUME NEW b, NEW d
  PROVE  View(Map112_Data(b, d)) \in {View(b), Redraw(View(b))}
BY Map112_Set_CPU_BanksView, Map112_Set_PPU_BanksView DEF Map112_Data

(* Map113_Set decodes what it selects.                                     *)
LEMMA Map113_SetView ==
  ASSUME NEW b, NEW d
  PROVE  View(Map113_Set(b, d)) \in {View(b), Redraw(View(b))}
BY DEF Map113_Set

(* Map115_Set_CPU_Banks selects and decodes no pattern.                    *)
LEMMA Map115_Set_CPU_BanksView == ASSUME NEW b PROVE View(Map115_Set_CPU_Banks(b)) = View(b)
BY Mmc3PrgView DEF Map115_Set_CPU_Banks

(* Map115_Set_PPU_Banks decodes what it selects.                           *)
LEMMA Map115_Set_PPU_BanksView ==
  ASSUME NEW b
  PROVE  View(Map115_Set_PPU_Banks(b)) \in {View(b), Redraw(View(b))}
BY DEF Map115_Set_PPU_Banks

(* Map115_Irq selects and decodes no pattern.                              *)
LEMMA Map115_IrqView == ASSUME NEW b, NEW port, NEW d PROVE View(Map115_Irq(b, port, d)) = View(b)
BY CloneIrqView DEF Map115_Irq, View

(* Map119_Set_CPU_Banks selects and decodes no pattern.                    *)
LEMMA Map119_Set_CPU_BanksView == ASSUME NEW b PROVE View(Map119_Set_CPU_Banks(b)) = View(b)
BY Mmc3PrgView DEF Map119_Set_CPU_Banks

(* Map119_Set_PPU_Banks decodes what it selects.                           *)
LEMMA Map119_Set_PPU_BanksView ==
  ASSUME NEW b
  PROVE  View(Map119_Set_PPU_Banks(b)) \in {View(b), Redraw(View(b))}
BY DEF Map119_Set_PPU_Banks

(* Map135_Set_PPU_Banks decodes what it selects.                           *)
LEMMA Map135_Set_PPU_BanksView ==
  ASSUME NEW b
  PROVE  View(Map135_Set_PPU_Banks(b)) \in {View(b), Redraw(View(b))}
BY DEF Map135_Set_PPU_Banks

(* Map140_Apu decodes what it selects.                                     *)
LEMMA Map140_ApuView ==
  ASSUME NEW b, NEW a, NEW d
  PROVE  View(Map140_Apu(b, a, d)) \in {View(b), Redraw(View(b))}
BY DEF Map140_Apu

(* Map160_Refresh decodes what it selects.                                 *)
LEMMA Map160_RefreshView ==
  ASSUME NEW b, NEW line
  PROVE  View(Map160_Refresh(b, line)) \in {View(b), Redraw(View(b))}
BY DEF Map160_Refresh

(* Map183_Chr decodes what it selects.                                     *)
LEMMA Map183_ChrView ==
  ASSUME NEW b, NEW k, NEW half, NEW d
  PROVE  View(Map183_Chr(b, k, half, d)) \in {View(b), Redraw(View(b))}
BY VrcChrView DEF Map183_Chr

(* Map187_Set_CPU_Banks selects and decodes no pattern.                    *)
LEMMA Map187_Set_CPU_BanksView == ASSUME NEW b PROVE View(Map187_Set_CPU_Banks(b)) = View(b)
BY DEF Map187_Set_CPU_Banks

(* Map187_Set_PPU_Banks decodes what it selects.                           *)
LEMMA Map187_Set_PPU_BanksView ==
  ASSUME NEW b
  PROVE  View(Map187_Set_PPU_Banks(b)) \in {View(b), Redraw(View(b))}
BY DEF Map187_Set_PPU_Banks

(* Map187_Data decodes what it selects.                                    *)
LEMMA Map187_DataView ==
  ASSUME NEW b, NEW d
  PROVE  View(Map187_Data(b, d)) \in {View(b), Redraw(View(b))}
<1> DEFINE k == b.reg[9] % 8
           v == IF b.reg[10] = 0 /\ k < 2 THEN Hi(d, 2) ELSE d
           chip(n, p) == [b EXCEPT !.bank[n] = p]
           pair == [b EXCEPT !.reg[4 + 2 * k] = v + 256, !.reg[5 + 2 * k] = v + 257]
           one == [b EXCEPT !.reg[k - 2] = d]
           ext == CASE b.reg[9] = \h2A -> chip(9, 15) [] b.reg[9] = \h28 -> chip(10, 23) [] OTHER -> b
           g == CASE b.reg[10] # 0 -> Map187_Set_CPU_Banks(ext)
                  [] b.reg[10] = 0 /\ k < 2 -> Map187_Set_PPU_Banks(pair)
                  [] b.reg[10] = 0 /\ k \in 2..5 -> Map187_Set_PPU_Banks(one)
                  [] OTHER -> IF On(b.reg[8], 7) /\ On(b.reg[8], 5) THEN b
                              ELSE Map187_Set_CPU_Banks(chip(2 + k, d))
<1>1. Map187_Data(b, d) = [g EXCEPT !.bank[k] = v]
  BY Zenon DEF Map187_Data
<1>2. ASSUME NEW n, NEW p PROVE View(chip(n, p)) = View(b)
  BY DEF View
<1>3. View(pair) = View(b) /\ View(one) = View(b)
  BY DEF View
<1> HIDE DEF chip, pair, one
<1>4. View(ext) = View(b)
  BY <1>2
<1> HIDE DEF ext
<1>5. g \in {Map187_Set_CPU_Banks(ext), Map187_Set_PPU_Banks(pair), Map187_Set_PPU_Banks(one), b,
             Map187_Set_CPU_Banks(chip(2 + k, d))}
  BY SMT
<1> HIDE DEF g, k, v
<1>6. View([g EXCEPT !.bank[k] = v]) = View(g)
  BY DEF View
<1>7. QED
  BY <1>1, <1>2, <1>3, <1>4, <1>5, <1>6, Map187_Set_CPU_BanksView, Map187_Set_PPU_BanksView

(* Map191_Set_CPU_Banks selects and decodes no pattern.                    *)
LEMMA Map191_Set_CPU_BanksView == ASSUME NEW b PROVE View(Map191_Set_CPU_Banks(b)) = View(b)
BY DEF Map191_Set_CPU_Banks

(* Map191_Set_PPU_Banks decodes what it selects.                           *)
LEMMA Map191_Set_PPU_BanksView ==
  ASSUME NEW b
  PROVE  View(Map191_Set_PPU_Banks(b)) \in {View(b), Redraw(View(b))}
BY DEF Map191_Set_PPU_Banks

-----------------------------------------------------------------------------
(* Boards 193 to 255.                                                      *)

(* Map202_WriteSub decodes what it selects.                                *)
LEMMA Map202_WriteSubView ==
  ASSUME NEW b, NEW a, NEW d
  PROVE  View(Map202_WriteSub(b, a, d)) \in {View(b), Redraw(View(b))}
BY DEF Map202_WriteSub

(* Game selects and decodes no pattern.                                    *)
LEMMA GameView ==
  ASSUME NEW b, NEW bank, NEW twice, NEW half
  PROVE  View(Game(b, bank, twice, half)) = View(b)
BY TwiceView DEF Game

(* Map234_Set_Banks decodes what it selects.                               *)
LEMMA Map234_Set_BanksView ==
  ASSUME NEW b
  PROVE  View(Map234_Set_Banks(b)) \in {View(b), Redraw(View(b))}
BY BothView DEF Map234_Set_Banks

(* StickyHSync selects and decodes no pattern.                             *)
LEMMA StickyHSyncView ==
  ASSUME NEW b, NEW line, NEW show
  PROVE  View(StickyHSync(b, line, show)) = View(b)
BY DEF StickyHSync, View, IRQ_REQ

(* StickyIrq selects and decodes no pattern.                               *)
LEMMA StickyIrqView == ASSUME NEW b, NEW port, NEW d PROVE View(StickyIrq(b, port, d)) = View(b)
BY CloneIrqView DEF StickyIrq

(* Map248_Set_CPU_Banks selects and decodes no pattern.                    *)
LEMMA Map248_Set_CPU_BanksView == ASSUME NEW b PROVE View(Map248_Set_CPU_Banks(b)) = View(b)
BY Mmc3PrgView DEF Map248_Set_CPU_Banks

(* Map248_Set_PPU_Banks decodes what it selects.                           *)
LEMMA Map248_Set_PPU_BanksView ==
  ASSUME NEW b
  PROVE  View(Map248_Set_PPU_Banks(b)) \in {View(b), Redraw(View(b))}
BY Mmc3ChrView DEF Map248_Set_PPU_Banks

(* Map248_Sram selects and decodes no pattern.                             *)
LEMMA Map248_SramView == ASSUME NEW b, NEW a, NEW d PROVE View(Map248_Sram(b, a, d)) = View(b)
BY DEF Map248_Sram

(* Map249_Data decodes what it selects.                                    *)
LEMMA Map249_DataView ==
  ASSUME NEW b, NEW d
  PROVE  View(Map249_Data(b, d)) \in {View(b), Redraw(View(b))}
BY DEF Map249_Data

(* Map251_Set_Banks decodes what it selects.                               *)
LEMMA Map251_Set_BanksView ==
  ASSUME NEW b
  PROVE  View(Map251_Set_Banks(b)) \in {View(b), Redraw(View(b))}
<1>1. \E p, q : Map251_Set_Banks(b) = CpuWin(InfoNES_SetupChr(PpuWin(b, 0, p)), 0, q)
  BY Zenon DEF Map251_Set_Banks
<1>2. QED
  BY <1>1, CpuWinView, SetupPpuView

-----------------------------------------------------------------------------
(* The handlers.                                                           *)

(* Every Init decodes what it selects, or moves no pattern window.  The    *)
(* step of a board has its number.                                         *)
LEMMA MapperInitKeeps ==
  ASSUME NEW no, NEW b, NEW overrun
  PROVE  Keeps(b, MapperInit(no, b, overrun))
<1>0. Keeps(b, Map0_Init(b)) BY Map0_InitView
<1>1. Keeps(b, Map1_Init(b))
  <2> DEFINE c == [b EXCEPT !.sram = Sram, !.cnt = 0, !.latch = 0]
             r == [c EXCEPT !.reg[0] = 12, !.reg[1] = 0, !.reg[2] = 0]
             q == [r EXCEPT !.reg[3] = 0, !.reg[5] = 0, !.reg[6] = 0]
             e == [q EXCEPT !.bank[1] = 0, !.bank[2] = 1, !.bank[3] = Map1_HI1(b), !.bank[4] = Map1_HI1(b) + 1]
  <2>1. View(c) = View(b)
    BY DEF View
  <2>2. Map1_Init(b) = Map1_set_ROM_banks(e)
    BY Zenon DEF Map1_Init
  <2> HIDE DEF c
  <2>3. View(r) = View(c)
    BY DEF View
  <2> HIDE DEF r
  <2>4. View(q) = View(r)
    BY DEF View
  <2> HIDE DEF q
  <2>5. View(e) = View(q)
    BY DEF View
  <2> HIDE DEF e
  <2>6. QED
    BY <2>1, <2>2, <2>3, <2>4, <2>5, Map1_set_ROM_banksView
<1>2. Keeps(b, Map2_Init(b)) BY FirstAndLastView DEF Map2_Init
<1>3. Keeps(b, Map3_Init(b)) BY FirstVRomView DEF Map3_Init
<1>4. Keeps(b, Map4_Init(b)) BY Map4_InitView
<1>5. Keeps(b, Map5_Init(b))
  <2> DEFINE g == ClearIrq(Chr(Banks(b, [k \in 1..4 |-> Last(b, 0)]), 0, 8, 0))
             r == [k \in 0..31 |->
                     CASE k \in {0, 1} -> 3 [] k = 2 -> 0
                       [] k \in 4..7 -> (RomPages(b) - 1) % 256
                       [] k \in 12..15 -> k - 8
                       [] k \in 20..23 -> (k % 4) + 4
                       [] k \in 27..31 -> NoWram
                       [] OTHER -> b.reg[k]]
             t == [g EXCEPT !.req = 0, !.reg = r]
  <2>1. Map5_Init(b) = t
    BY Zenon DEF Map5_Init
  <2>2. View(g) = Redraw(View(b))
    OBVIOUS
  <2> HIDE DEF g, r
  <2>3. View(t) = View(g)
    BY DEF View
  <2> HIDE DEF t
  <2>4. QED
    BY <2>1, <2>2, <2>3
<1>6. Keeps(b, Map6_Init(b)) BY DEF Map6_Init
<1>7. Keeps(b, Map7_Init(b)) BY FirstFourView DEF Map7_Init
<1>8. Keeps(b, Map8_Init(b)) BY FirstVRomView, FirstFourView DEF Map8_Init
<1>9. Keeps(b, Map9_Init(b)) BY LatchInitView DEF Map9_Init
<1>10. Keeps(b, Map10_Init(b)) BY LatchInitView, FirstAndLastView DEF Map10_Init
<1>11. Keeps(b, Map11_Init(b)) BY FirstVRomView, FirstFourView DEF Map11_Init
<1>13. Keeps(b, Map13_Init(b)) BY FirstFourView DEF Map13_Init
<1>15. Keeps(b, Map15_Init(b)) BY FirstFourView DEF Map15_Init
<1>16. Keeps(b, Map16_Init(b)) BY FirstAndLastView DEF Map16_Init, View, ClearIrq
<1>17. Keeps(b, Map17_Init(b)) BY FirstVRomView, FirstAndLastView DEF Map17_Init
<1>18. Keeps(b, Map18_Init(b)) BY FirstAndLastView DEF Map18_Init
<1>19. Keeps(b, Map19_Init(b, overrun)) BY FirstAndLastView DEF Map19_Init, View
<1>21. Keeps(b, Map21_Init(b)) BY IdentityView, FirstAndLastView DEF Map21_Init
<1>22. Keeps(b, Map22_Init(b)) BY FirstVRomView, FirstAndLastView DEF Map22_Init
<1>23. Keeps(b, Map23_Init(b)) BY IdentityView, FirstVRomView, FirstAndLastView DEF Map23_Init
<1>24. Keeps(b, Map24_Init(b)) BY FirstAndLastView DEF Map24_Init
<1>25. Keeps(b, Map25_Init(b)) BY ZeroRegsView, FirstAndLastView DEF Map25_Init
<1>26. Keeps(b, Map26_Init(b)) BY FirstVRomView, FirstAndLastView DEF Map26_Init, View
<1>32. Keeps(b, Map32_Init(b)) BY FirstVRomView, FirstAndLastView DEF Map32_Init
<1>33. Keeps(b, Map33_Init(b))
  BY FirstVRomView, FirstAndLastView, IdentityView, ZeroRegsView DEF Map33_Init, View
<1>34. Keeps(b, Map34_Init(b)) BY FirstVRomView, FirstAndLastView DEF Map34_Init
<1>40. Keeps(b, Map40_Init(b))
  <2>1. View([Banks(b, <<4, 5, 0, 7>>) EXCEPT !.sram = Rom(6), !.enable = 0, !.cnt = 0]) = View(b)
    BY DEF View
  <2>2. QED
    BY <2>1, FirstVRomView DEF Map40_Init
<1>41. Keeps(b, Map41_Init(b)) BY FirstVRomView, FirstFourView DEF Map41_Init
<1>42. Keeps(b, Map42_Init(b)) BY FirstVRomView DEF Map42_Init
<1>43. Keeps(b, Map43_Init(b))
  <2>1. View([Banks(b, <<1, 0, 4, 9>>) EXCEPT !.sram = Rom(2), !.enable = 1, !.cnt = 0]) = View(b)
    BY DEF View
  <2>2. QED
    BY <2>1, FirstVRomView DEF Map43_Init
<1>44. Keeps(b, Map44_Init(b)) BY Map44_InitView
<1>46. Keeps(b, Map46_Init(b)) BY Map46_Set_ROM_BanksView, ZeroRegsView DEF Map46_Init
<1>47. Keeps(b, Map47_Init(b)) BY Map44_InitView DEF Map47_Init
<1>48. Keeps(b, Map48_Init(b)) BY FirstVRomView, FirstAndLastView DEF Map48_Init, View
<1>49. Keeps(b, Map49_Init(b)) BY ZeroRegsView, Mmc3DefaultsView, FirstFourView DEF Map49_Init
<1>50. Keeps(b, Map50_Init(b)) BY FirstVRomView DEF Map50_Init
<1>51. Keeps(b, Map51_Init(b))
  <2>1. View([b EXCEPT !.reg[0] = 1, !.reg[1] = 0]) = View(b)
    BY DEF View
  <2>2. QED
    BY <2>1, Map51_Set_CPU_BanksView DEF Map51_Init
<1>57. Keeps(b, Map57_Init(b)) BY FirstVRomView DEF Map57_Init
<1>58. Keeps(b, Map58_Init(b)) BY FirstVRomView DEF Map58_Init
<1>60. Keeps(b, Map60_Init(b)) BY FirstVRomView, FirstFourView DEF Map60_Init
<1>61. Keeps(b, Map61_Init(b)) BY FirstAndLastView DEF Map61_Init
<1>62. Keeps(b, Map62_Init(b)) BY FirstVRomView, FirstFourView DEF Map62_Init
<1>64. Keeps(b, Map64_Init(b))
  <2> DEFINE g == FirstVRom(Banks(b, [k \in 1..4 |-> Last(b, 0)]))
             t == [g EXCEPT !.reg[0] = 0, !.reg[1] = 0, !.reg[2] = 0]
  <2>1. Map64_Init(b) = t
    BY Zenon DEF Map64_Init
  <2>2. View(g) \in {View(b), Redraw(View(b))}
    BY FirstVRomView
  <2> HIDE DEF g
  <2>3. View(t) = View(g)
    BY DEF View
  <2> HIDE DEF t
  <2>4. QED
    BY <2>1, <2>2, <2>3
<1>65. Keeps(b, Map65_Init(b)) BY FirstVRomView, FirstAndLastView DEF Map65_Init
<1>66. Keeps(b, Map66_Init(b)) BY FirstVRomView, FirstFourView DEF Map66_Init
<1>67. Keeps(b, Map67_Init(b)) BY FirstAndLastView DEF Map67_Init
<1>68. Keeps(b, Map68_Init(b)) BY ZeroRegsView, FirstAndLastView DEF Map68_Init
<1>69. Keeps(b, Map69_Init(b)) BY FirstVRomView, FirstAndLastView DEF Map69_Init, View
<1>70. Keeps(b, Map70_Init(b)) BY FirstAndLastView DEF Map70_Init
<1>71. Keeps(b, Map71_Init(b)) BY FirstAndLastView DEF Map71_Init
<1>72. Keeps(b, Map72_Init(b)) BY FirstVRomView, FirstAndLastView DEF Map72_Init
<1>73. Keeps(b, Map73_Init(b)) BY FirstAndLastView DEF Map73_Init, View
<1>74. Keeps(b, Map74_Init(b)) BY Map4_InitView DEF Map74_Init
<1>75. Keeps(b, Map75_Init(b)) BY FirstVRomView, FirstAndLastView DEF Map75_Init, View
<1>76. Keeps(b, Map76_Init(b)) BY FirstVRomView, FirstAndLastView DEF Map76_Init
<1>77. Keeps(b, Map77_Init(b)) BY FirstFourView DEF Map77_Init
<1>78. Keeps(b, Map78_Init(b)) BY FirstVRomView, FirstAndLastView DEF Map78_Init
<1>79. Keeps(b, Map79_Init(b)) BY FirstVRomView, FirstFourView DEF Map79_Init
<1>80. Keeps(b, Map80_Init(b)) BY FirstVRomView, FirstAndLastView DEF Map80_Init
<1>82. Keeps(b, Map82_Init(b)) BY FirstVRomView, FirstAndLastView DEF Map82_Init
<1>83. Keeps(b, Map83_Init(b))
  <2> DEFINE big == RomPages(b) >= 32
             r == IF big THEN Banks(b, <<0, 1, 30, 31>>) ELSE FirstAndLast(b)
             g == FirstVRom(r)
             t == [g EXCEPT !.reg[0] = 0, !.reg[1] = IF big THEN 48 ELSE 0, !.reg[2] = 0,
                            !.enable = 0, !.cnt = 0, !.bank[0] = 0]
  <2>1. Map83_Init(b) = t
    BY Zenon DEF Map83_Init
  <2>2. View(r) = View(b)
    BY FirstAndLastView
  <2> HIDE DEF r
  <2>3. View(g) \in {View(b), Redraw(View(b))}
    BY <2>2, FirstVRomView
  <2> HIDE DEF g, big
  <2>4. View(t) = View(g)
    BY DEF View
  <2> HIDE DEF t
  <2>5. QED
    BY <2>1, <2>3, <2>4
<1>85. Keeps(b, Map85_Init(b)) BY FirstAndLastView DEF Map85_Init
<1>86. Keeps(b, Map86_Init(b)) BY FirstVRomView, FirstFourView DEF Map86_Init
<1>87. Keeps(b, Map87_Init(b)) BY FirstVRomView, FirstFourView DEF Map87_Init
<1>88. Keeps(b, Map88_Init(b)) BY FirstVRomView, FirstAndLastView DEF Map88_Init
<1>89. Keeps(b, Map89_Init(b)) BY FirstVRomView, FirstAndLastView DEF Map89_Init
<1>90. Keeps(b, Map90_Init(b)) BY FirstVRomView DEF Map90_Init
<1>91. Keeps(b, Map91_Init(b)) BY FirstVRomView DEF Map91_Init
<1>92. Keeps(b, Map92_Init(b)) BY FirstVRomView, FirstAndLastView DEF Map92_Init
<1>93. Keeps(b, Map93_Init(b)) BY FirstVRomView, FirstAndLastView DEF Map93_Init
<1>94. Keeps(b, Map94_Init(b)) BY FirstAndLastView DEF Map94_Init
<1>95. Keeps(b, Map95_Init(b))
  <2>1. View([b EXCEPT !.sram = Sram, !.reg[0] = 0]) = View(b)
    BY DEF View
  <2>2. QED
    BY <2>1, Map95_Set_PPU_BanksView, Map95_Set_CPU_BanksView, Mmc3DefaultsView DEF Map95_Init
<1>96. Keeps(b, Map96_Init(b)) BY Map96_Set_BanksView, ZeroRegsView, FirstFourView DEF Map96_Init
<1>97. Keeps(b, Map97_Init(b)) BY FirstVRomView DEF Map97_Init
<1>99. Keeps(b, Map99_Init(b)) BY Map0_InitView DEF Map99_Init
<1>100. Keeps(b, Map100_Init(b))
  BY FirstAndLastView, Map100_Set_PPU_BanksView DEF Map100_Init, View, ClearIrq
<1>101. Keeps(b, Map101_Init(b)) BY FirstVRomView, FirstFourView DEF Map101_Init
<1>105. Keeps(b, Map105_Init(b))
  <2> DEFINE c == FirstFour(b)
             r == [c EXCEPT !.reg[0] = 12, !.reg[1] = 0, !.reg[2] = 0, !.reg[3] = 16]
             e == [r EXCEPT !.bank[0] = 0, !.bank[1] = 0, !.bank[2] = 0, !.cnt = 0, !.enable = 0]
  <2>1. View(c) = View(b)
    BY FirstFourView
  <2>2. Map105_Init(b) = e
    BY Zenon DEF Map105_Init
  <2> HIDE DEF c
  <2>3. View(r) = View(c)
    BY DEF View
  <2> HIDE DEF r
  <2>4. View(e) = View(r)
    BY DEF View
  <2> HIDE DEF e
  <2>5. QED
    BY <2>1, <2>2, <2>3, <2>4
<1>107. Keeps(b, Map107_Init(b)) BY FirstVRomView, FirstAndLastView DEF Map107_Init
<1>108. Keeps(b, Map108_Init(b)) BY DEF Map108_Init
<1>109. Keeps(b, Map109_Init(b))
  BY Map109_Set_PPU_BanksView, ZeroRegsView, FirstFourView DEF Map109_Init
<1>110. Keeps(b, Map110_Init(b)) BY FirstVRomView, FirstFourView DEF Map110_Init, View
<1>112. Keeps(b, Map112_Init(b)) BY Mmc3InitView DEF Map112_Init
<1>113. Keeps(b, Map113_Init(b)) BY FirstVRomView, FirstFourView DEF Map113_Init
<1>114. Keeps(b, Map114_Init(b)) BY Mmc3InitView DEF Map114_Init
<1>115. Keeps(b, Map115_Init(b))
  <2>1. View([b EXCEPT !.sram = Sram, !.reg[0] = 0, !.bank[8] = 0, !.bank[9] = 0]) = View(b)
    BY DEF View
  <2>2. QED
    BY <2>1, Map115_Set_PPU_BanksView, Map115_Set_CPU_BanksView, Mmc3DefaultsView DEF Map115_Init
<1>116. Keeps(b, Map116_Init(b)) BY Mmc3InitView DEF Map116_Init
<1>117. Keeps(b, Map117_Init(b)) BY FirstVRomView, FirstAndLastView DEF Map117_Init, View
<1>118. Keeps(b, Map118_Init(b)) BY Mmc3InitView DEF Map118_Init
<1>119. Keeps(b, Map119_Init(b))
  <2>1. View([b EXCEPT !.sram = Sram, !.reg[0] = 0]) = View(b)
    BY DEF View
  <2>2. QED
    BY <2>1, Map119_Set_PPU_BanksView, Map119_Set_CPU_BanksView, Mmc3DefaultsView DEF Map119_Init
<1>122. Keeps(b, Map122_Init(b)) BY FirstFourView DEF Map122_Init
<1>133. Keeps(b, Map133_Init(b)) BY FirstVRomView, FirstFourView DEF Map133_Init
<1>134. Keeps(b, Map134_Init(b)) BY FirstVRomView, FirstFourView DEF Map134_Init
<1>135. Keeps(b, Map135_Init(b))
  <2> DEFINE g == FirstFour(b)
             t == [g EXCEPT !.reg[0] = 0, !.bank = [k \in DOMAIN @ |-> IF k < 5 THEN 0 ELSE @[k]]]
  <2>1. Map135_Init(b) = Map135_Set_PPU_Banks(t)
    BY Zenon DEF Map135_Init
  <2>2. View(g) = View(b)
    BY FirstFourView
  <2> HIDE DEF g
  <2>3. View(t) = View(g)
    BY DEF View
  <2> HIDE DEF t
  <2>4. QED
    BY <2>1, <2>2, <2>3, Map135_Set_PPU_BanksView
<1>140. Keeps(b, Map140_Init(b)) BY FirstVRomView, FirstFourView DEF Map140_Init
<1>151. Keeps(b, Map151_Init(b)) BY FirstVRomView, FirstAndLastView DEF Map151_Init
<1>160. Keeps(b, Map160_Init(b)) BY FirstAndLastView DEF Map160_Init
<1>180. Keeps(b, Map180_Init(b)) BY FirstVRomView, FirstFourView DEF Map180_Init
<1>181. Keeps(b, Map181_Init(b)) BY FirstVRomView, FirstFourView DEF Map181_Init
<1>182. Keeps(b, Map182_Init(b)) BY FirstVRomView, FirstAndLastView DEF Map182_Init, View
<1>183. Keeps(b, Map183_Init(b))
  BY IdentityView, FirstVRomView, FirstAndLastView DEF Map183_Init, View
<1>185. Keeps(b, Map185_Init(b)) BY FirstFourView DEF Map185_Init
<1>187. Keeps(b, Map187_Init(b)) BY Map187_Set_CPU_BanksView, ZeroRegsView DEF Map187_Init
<1>188. Keeps(b, Map188_Init(b)) BY FirstAndLastView DEF Map188_Init
<1>189. Keeps(b, Map189_Init(b)) BY FirstVRomView, FirstAndLastView DEF Map189_Init
<1>191. Keeps(b, Map191_Init(b))
  <2>1. View([b EXCEPT !.sram = Sram, !.reg[0] = 0, !.bank = [k \in DOMAIN @ |-> IF k < 6 THEN 0 ELSE @[k]]]) = View(b)
    BY DEF View
  <2>2. QED
    BY <2>1, Map191_Set_PPU_BanksView, Map191_Set_CPU_BanksView DEF Map191_Init
<1>193. Keeps(b, Map193_Init(b)) BY FirstVRomView DEF Map193_Init
<1>194. Keeps(b, Map194_Init(b)) BY DEF Map194_Init
<1>200. Keeps(b, Map200_Init(b)) BY FirstVRomView DEF Map200_Init
<1>201. Keeps(b, Map201_Init(b)) BY FirstVRomView DEF Map201_Init
<1>202. Keeps(b, Map202_Init(b)) BY FirstVRomView DEF Map202_Init
<1>222. Keeps(b, Map222_Init(b)) BY FirstVRomView, FirstAndLastView DEF Map222_Init
<1>225. Keeps(b, Map225_Init(b)) BY FirstVRomView, FirstFourView DEF Map225_Init
<1>226. Keeps(b, Map226_Init(b)) BY FirstFourView DEF Map226_Init, View
<1>227. Keeps(b, Map227_Init(b)) BY DEF Map227_Init
<1>228. Keeps(b, Map228_Init(b)) BY FirstVRomView, FirstFourView DEF Map228_Init
<1>229. Keeps(b, Map229_Init(b)) BY FirstVRomView, FirstFourView DEF Map229_Init
<1>230. Keeps(b, Map230_Init(b)) BY DEF Map230_Init
<1>231. Keeps(b, Map231_Init(b)) BY FirstVRomView, FirstFourView DEF Map231_Init
<1>232. Keeps(b, Map232_Init(b)) BY FirstAndLastView DEF Map232_Init, View
<1>233. Keeps(b, Map233_Init(b)) BY FirstFourView DEF Map233_Init
<1>234. Keeps(b, Map234_Init(b)) BY FirstFourView DEF Map234_Init, View
<1>235. Keeps(b, Map235_Init(b)) BY FirstFourView DEF Map235_Init
<1>236. Keeps(b, Map236_Init(b)) BY FirstAndLastView DEF Map236_Init, View
<1>240. Keeps(b, Map240_Init(b)) BY FirstVRomView, FirstAndLastView DEF Map240_Init
<1>241. Keeps(b, Map241_Init(b)) BY FirstVRomView, FirstFourView DEF Map241_Init
<1>242. Keeps(b, Map242_Init(b)) BY FirstFourView DEF Map242_Init
<1>243. Keeps(b, Map243_Init(b)) BY ZeroRegsView, FirstVRomView, FirstFourView DEF Map243_Init
<1>244. Keeps(b, Map244_Init(b)) BY FirstFourView DEF Map244_Init
<1>245. Keeps(b, Map245_Init(b))
  BY FirstVRomView, ZeroRegsView, FirstAndLastView DEF Map245_Init, View, ClearIrq
<1>246. Keeps(b, Map246_Init(b)) BY FirstAndLastView DEF Map246_Init
<1>248. Keeps(b, Map248_Init(b))
  <2> DEFINE r == [b EXCEPT !.sram = Sram,
                       !.bank = [k \in DOMAIN @ |-> IF k < 8 THEN <<0, 2, 4, 5, 6, 7, 0, 1>>[k + 1] ELSE @[k]]]
             g == ClearIrq(Map248_Set_PPU_Banks(Map248_Set_CPU_Banks(ZeroRegs(r, 8))))
             t == [g EXCEPT !.req = 0]
  <2>1. Map248_Init(b) = t
    BY Zenon DEF Map248_Init
  <2>2. View(r) = View(b)
    BY DEF View
  <2> HIDE DEF r
  <2>3. View(g) \in {View(b), Redraw(View(b))}
    BY <2>2, Map248_Set_PPU_BanksView, Map248_Set_CPU_BanksView, ZeroRegsView
  <2> HIDE DEF g
  <2>4. View(t) = View(g)
    BY DEF View
  <2> HIDE DEF t
  <2>5. QED
    BY <2>1, <2>3, <2>4
<1>249. Keeps(b, Map249_Init(b))
  BY FirstVRomView, ZeroRegsView, FirstAndLastView DEF Map249_Init, View, ClearIrq
<1>251. Keeps(b, Map251_Init(b)) BY ZeroRegsView, FirstAndLastView DEF Map251_Init
<1>252. Keeps(b, Map252_Init(b)) BY FirstVRomView, IdentityView, FirstAndLastView DEF Map252_Init
<1>255. Keeps(b, Map255_Init(b)) BY ZeroRegsView, FirstVRomView, FirstFourView DEF Map255_Init
<1>256. Keeps(b, b)
  OBVIOUS
<1> HIDE PrimitivesView DEF Keeps
<1>257. QED
  BY <1>0, <1>1, <1>2, <1>3, <1>4, <1>5, <1>6, <1>7, <1>8, <1>9, <1>10, <1>11, <1>13, <1>15,
       <1>16, <1>17, <1>18, <1>19, <1>21, <1>22, <1>23, <1>24, <1>25, <1>26, <1>32, <1>33, <1>34,
       <1>40, <1>41, <1>42, <1>43, <1>44, <1>46, <1>47, <1>48, <1>49, <1>50, <1>51, <1>57, <1>58,
       <1>60, <1>61, <1>62, <1>64, <1>65, <1>66, <1>67, <1>68, <1>69, <1>70, <1>71, <1>72, <1>73,
       <1>74, <1>75, <1>76, <1>77, <1>78, <1>79, <1>80, <1>82, <1>83, <1>85, <1>86, <1>87, <1>88,
       <1>89, <1>90, <1>91, <1>92, <1>93, <1>94, <1>95, <1>96, <1>97, <1>99, <1>100, <1>101,
       <1>105, <1>107, <1>108, <1>109, <1>110, <1>112, <1>113, <1>114, <1>115, <1>116, <1>117,
       <1>118, <1>119, <1>122, <1>133, <1>134, <1>135, <1>140, <1>151, <1>160, <1>180, <1>181,
       <1>182, <1>183, <1>185, <1>187, <1>188, <1>189, <1>191, <1>193, <1>194, <1>200, <1>201,
       <1>202, <1>222, <1>225, <1>226, <1>227, <1>228, <1>229, <1>230, <1>231, <1>232, <1>233,
       <1>234, <1>235, <1>236, <1>240, <1>241, <1>242, <1>243, <1>244, <1>245, <1>246, <1>248,
       <1>249, <1>251, <1>252, <1>255, <1>256, ZenonT(60) DEF MapperInit

(* So does every handler of writes to ROM, but that of board 255.          *)
LEMMA MapperWriteKeeps ==
  ASSUME NEW no, NEW b, NEW a, NEW d, NEW line, no # 255
  PROVE  Keeps(b, MapperWrite(no, b, a, d, line))
<1>1. Keeps(b, Map1_Write(b, a, d))
  <2> DEFINE region == (a \div 8192) % 4
             moved == Map1_Enter(b, region)
             shifted == [moved EXCEPT !.latch = @ + Bit(d, 0) * 2^moved.cnt, !.cnt = @ + 1]
             stored == [shifted EXCEPT !.reg[region] = shifted.latch]
             full == Map1_Empty(stored)
  <2>1. Map1_Write(b, a, d) \in {Map1_Empty(moved), shifted, MirrorBy(full, full.reg[0], <<3, 2, 1, 0>>),
                                 Map1_Chr0(full), Map1_Chr1(full), Map1_Prg(full), full}
    BY SMT DEF Map1_Write
  <2>2. View(moved) = View(b)
    BY Map1_EnterView
  <2> HIDE DEF moved
  <2>3. View(shifted) = View(moved)
    BY DEF View
  <2> HIDE DEF shifted
  <2>4. View(stored) = View(shifted)
    BY DEF View
  <2> HIDE DEF stored
  <2>5. View(full) = View(b)
    BY <2>2, <2>3, <2>4, Map1_EmptyView
  <2> HIDE DEF full
  <2>6. QED
    BY <2>1, <2>2, <2>3, <2>5, Map1_EmptyView, Map1_Chr0View, Map1_Chr1View, Map1_PrgView
<1>2. Keeps(b, Map2_Write(b, a, d)) BY DEF Map2_Write
<1>3. Keeps(b, Map3_Write(b, a, d)) BY DEF Map3_Write
<1>4. Keeps(b, Map4_Write(b, a, d, line)) BY Map4_WriteView
<1>6. Keeps(b, Map6_Write(b, a, d)) BY DEF Map6_Write
<1>7. Keeps(b, Map7_Write(b, a, d)) BY DEF Map7_Write
<1>8. Keeps(b, Map8_Write(b, a, d)) BY DEF Map8_Write
<1>9. Keeps(b, Map9_Write(b, a, d)) BY LatchBankView DEF Map9_Write
<1>10. Keeps(b, Map10_Write(b, a, d)) BY LatchBankView DEF Map10_Write
<1>11. Keeps(b, Map11_Write(b, a, d)) BY DEF Map11_Write
<1>13. Keeps(b, Map13_Write(b, a, d)) BY DEF Map13_Write
<1>15. Keeps(b, Map15_Write(b, a, d)) BY DEF Map15_Write
<1>16. Keeps(b, Map16_Write(b, a, d)) BY DEF Map16_Write, View
<1>18. Keeps(b, Map18_Write(b, a, d))
  <2> DEFINE port == 4 * ((a \div 4096) - 8) + (a % 16)
             k == port \div 2
             nibble(r) == [b EXCEPT !.reg[r] = IF port % 2 = 0 THEN LowNibble(@, d) ELSE HighNibble(@, d)]
             reload == [b EXCEPT !.latch = @ - Field(@, 4 * (a % 4), 4) * 16^(a % 4) + (d % 16) * 16^(a % 4)]
             start == [b EXCEPT !.cnt = IF On(d, 0) THEN b.latch ELSE 0]
             control == [b EXCEPT !.enable = d % 2]
  <2>1. Map18_Write(b, a, d) \in
          {b, Prg(nibble(k), k, 1, nibble(k).reg[k] % RomPages(b)) , reload, start, control,
           Chr(nibble(k - 1), k - 1 - 3, 1, nibble(k - 1).reg[k - 1] % ChrPages(b)),
           MirrorBy(b, d, <<0, 1, 3, 3>>)}
    BY SMT DEF Map18_Write
  <2>2. ASSUME NEW r PROVE View(nibble(r)) = View(b)
    BY DEF View
  <2>3. View(reload) = View(b) /\ View(start) = View(b) /\ View(control) = View(b)
    BY DEF View
  <2> HIDE DEF port, k, nibble, reload, start, control
  <2>4. QED
    BY <2>1, <2>2, <2>3
<1>19. Keeps(b, Map19_Write(b, a, d))
  <2> DEFINE rom == d < 224 \/ b.reg[0] = 1
             port == (a \div 2048) - 16
             page == d % ChrPages(b)
             x == IF rom THEN VRom(page) ELSE VRam(d % 2)
             y == ChrRam(port)
             ram == InfoNES_SetupChr(SetPage(b, port, y))
             mode == [b EXCEPT !.reg[0] = Bit(d, 6), !.reg[1] = Bit(d, 7)]
             prg(g, w) == Prg(g, w, 1, (d % 64) % RomPages(b))
  <2>1. \/ Map19_Write(b, a, d) \in {Chr(b, port, 1, page), ram, prg(b, 0), prg(mode, 1), prg(b, 2), b}
        \/ port \in 8..11 /\ Map19_Write(b, a, d) = SetPage(b, port, x)
    BY SMT DEF Map19_Write, SetPage
  <2>2. View(mode) = View(b)
    BY DEF View
  <2>3. port \in 8..11 => port \notin 0..7
    <3> HIDE DEF port
    <3>1. QED
      OBVIOUS
  <2> HIDE DEF port, page, x, y, rom, mode
  <2>4. View(ram) = Redraw(View(b))
    BY SetPageView
  <2>5. port \in 8..11 => View(SetPage(b, port, x)) = View(b)
    BY <2>3, SetPageView
  <2>6. QED
    BY <2>1, <2>2, <2>4, <2>5
<1>21. Keeps(b, Map21_Write(b, a, d)) BY VrcChrView, VrcAckView, VrcControlView DEF Map21_Write
<1>22. Keeps(b, Map22_Write(b, a, d)) BY DEF Map22_Write
<1>23. Keeps(b, Map23_Write(b, a, d)) BY VrcChrView, VrcControlView, VrcAckView DEF Map23_Write
<1>24. Keeps(b, Map24_Write(b, a, d)) BY VrcControlView, VrcAckView DEF Map24_Write
<1>25. Keeps(b, Map25_Write(b, a, d)) BY Map25_Sync_VromView DEF Map25_Write, View
<1>26. Keeps(b, Map26_Write(b, a, d))
  BY SetupView, VrcControlView DEF Map26_Write
<1>32. Keeps(b, Map32_Write(b, a, d)) BY DEF Map32_Write
<1>33. Keeps(b, Map33_Write(b, a, d))
  <2> DEFINE p == (2 * d) % 256
             two(w) == [b EXCEPT !.reg[w] = p, !.reg[w + 1] = p + 1]
             one(w) == [b EXCEPT !.reg[w] = d]
             load == [b EXCEPT !.cnt = d]
             on(v) == [b EXCEPT !.enable = v]
  <2>1. \A w : View(two(w)) = View(b) /\ View(one(w)) = View(b) /\ View(load) = View(b) /\ View(on(w)) = View(b)
    BY DEF View
  <2>2. Map33_Write(b, a, d) \in
          {Prg(b, a - \h8000, 1, d % RomPages(b)), ChrMod(two(2 * (a - \h8002)), 2 * (a - \h8002), 2, p),
           ChrMod(one(4 + (a - \hA000)), 4 + (a - \hA000), 1, d), load, on(IF b.cnt = d THEN 255 ELSE d),
           MirrorIf(b, On(d, 6), 0, 1), b}
    BY SMT DEF Map33_Write
  <2> HIDE DEF p, two, one, load, on
  <2>3. QED
    BY <2>1, <2>2, PrgView, ChrView, MirrorsView
<1>34. Keeps(b, Map34_Write(b, a, d)) BY Map34_WriteView
<1>40. Keeps(b, Map40_Write(b, a, d)) BY DEF Map40_Write, View
<1>41. Keeps(b, Map41_Write(b, a, d)) BY DEF Map41_Write
<1>42. Keeps(b, Map42_Write(b, a, d)) BY DEF Map42_Write, View
<1>43. Keeps(b, Map43_Write(b, a, d)) BY DEF Map43_Write, View
<1>44. Keeps(b, Map44_Write(b, a, d)) BY Map44_WriteView
<1>46. Keeps(b, Map46_Write(b, a, d))
  <2>1. View([b EXCEPT !.reg[2] = d % 2, !.reg[3] = Field(d, 4, 3)]) = View(b)
    BY DEF View
  <2>2. QED
    BY <2>1, Map46_Set_ROM_BanksView DEF Map46_Write
<1>47. Keeps(b, Map47_Write(b, a, d)) BY Map44_WriteView DEF Map47_Write
<1>48. Keeps(b, Map48_Write(b, a, d)) BY DEF Map48_Write
<1>49. Keeps(b, Map49_Write(b, a, d))
  BY Map49_SelectView, Map49_Set_PPU_BanksView, Map49_Set_CPU_BanksView, Mmc3MirrorView,
       CloneIrqView DEF Map49_Write
<1>51. Keeps(b, Map51_Write(b, a, d))
  <2>1. View([b EXCEPT !.reg[1] = 4 * (d % 16),
                !.reg[0] = IF a \in \hC000..\hDFFF THEN (@ % 2) + 2 * Bit(d, 4) ELSE @]) = View(b)
    BY DEF View
  <2>2. QED
    BY <2>1, Map51_Set_CPU_BanksView DEF Map51_Write
<1>57. Keeps(b, Map57_Write(b, a, d)) BY TwiceView DEF Map57_Write
<1>58. Keeps(b, Map58_Write(b, a, d)) BY TwiceView DEF Map58_Write
<1>60. Keeps(b, Map60_Write(b, a, d)) BY TwiceView DEF Map60_Write
<1>61. Keeps(b, Map61_Write(b, a, d)) BY TwiceView DEF Map61_Write
<1>62. Keeps(b, Map62_Write(b, a, d)) BY DEF Map62_Write
<1>64. Keeps(b, Map64_Write(b, a, d)) BY DEF Map64_Write, View
<1>65. Keeps(b, Map65_Write(b, a, d)) BY DEF Map65_Write
<1>66. Keeps(b, Map66_Write(b, a, d)) BY DEF Map66_Write
<1>67. Keeps(b, Map67_Write(b, a, d)) BY DEF Map67_Write, View
<1>68. Keeps(b, Map68_Write(b, a, d))
  <2>1. View([b EXCEPT !.reg[0] = Bit(d, 4), !.reg[1] = d % 4]) = View(b)
    BY DEF View
  <2>2. QED
    BY <2>1, Map68_SyncMirrorView DEF Map68_Write
<1>69. Keeps(b, Map69_Write(b, a, d)) BY DEF Map69_Write
<1>70. Keeps(b, Map70_Write(b, a, d)) BY DEF Map70_Write
<1>71. Keeps(b, Map71_Write(b, a, d)) BY DEF Map71_Write
<1>72. Keeps(b, Map72_Write(b, a, d)) BY DEF Map72_Write
<1>73. Keeps(b, Map73_Write(b, a, d)) BY DEF Map73_Write
<1>74. Keeps(b, Map74_Write(b, a, d, line)) BY Map4_WriteView DEF Map74_Write
<1>75. Keeps(b, Map75_Write(b, a, d))
  <2> DEFINE m == MirrorIf(b, On(d, 0), 0, 1)
             n == [m EXCEPT !.reg[0] = (@ % 16) + 16 * Bit(d, 1), !.reg[1] = (@ % 16) + 16 * Bit(d, 2)]
             page == a \div 4096
             e == [b EXCEPT !.reg[page - 14] = And(@, 16) + (d % 16)]
             show(g, h) == Chr(g, 4 * h, 4, 4 * g.reg[h])
  <2>1. View(m) = View(b) /\ View(e) = View(b)
    BY MirrorsView DEF View
  <2>2. View(n) = View(m)
    <3> HIDE DEF m
    <3>1. QED BY DEF View
  <2>3. \A g, h : View(show(g, h)) = Redraw(View(g))
    BY ChrView
  <2>4. Map75_Write(b, a, d) \in {Prg(b, (page - 8) \div 2, 1, d % RomPages(b)), show(show(n, 0), 1), show(e, page - 14), b}
    BY SMT DEF Map75_Write
  <2> HIDE DEF m, n, e, page, show
  <2>5. QED
    BY <2>1, <2>2, <2>3, <2>4, PrgView, Redraws
<1>76. Keeps(b, Map76_Write(b, a, d)) BY DEF Map76_Write
<1>77. Keeps(b, Map77_Write(b, a, d)) BY DEF Map77_Write
<1>78. Keeps(b, Map78_Write(b, a, d)) BY DEF Map78_Write
<1>83. Keeps(b, Map83_Write(b, a, d))
  <2> DEFINE game == [b EXCEPT !.reg[0] = d, !.bank[0] = 256 * Field(d, 4, 2)]
             mirror == [b EXCEPT !.reg[1] = IF b.vrom <= 32 THEN d ELSE @]
             low == [b EXCEPT !.cnt = LowByte(@, d)]
             high == [b EXCEPT !.cnt = HighByte(@, d), !.enable = d]
  <2>1. View(game) = View(b) /\ View(mirror) = View(b) /\ View(low) = View(b) /\ View(high) = View(b)
    BY DEF View
  <2>2. Map83_Write(b, a, d) \in
          {PrgMod(PrgMod(game, 0, 2, 2 * d), 2, 2, 2 * (16 * Field(d, 4, 2) + 15)),
           MirrorBy(mirror, d, <<1, 0, 3, 2>>), low, high, PrgMod(b, a - \h8300, 1, d),
           Map83_Chr(b, a % 8, d), PrgMod(b, 0, 2, 2 * Or(And(b.reg[0], 48), d)), b}
    BY SMT DEF Map83_Write
  <2> HIDE DEF game, mirror, low, high
  <2>3. QED
    BY <2>1, <2>2, Map83_ChrView
<1>85. Keeps(b, Map85_Write(b, a, d))
  <2> DEFINE set(w) == SetPage(b, w, ChrRam(d))
             irq == [b EXCEPT !.reg[0] = d % 2, !.enable = Bit(d, 1), !.cnt = b.latch]
             ack == [b EXCEPT !.enable = b.reg[0], !.cnt = b.latch]
             load == [b EXCEPT !.latch = 255 - d]
             page == a \div 4096
             port == Hi(a, 4096) + And(a % 256, 48)
  <2>1. Map85_Write(b, a, d) \in
          {Prg(b, 0, 1, d % RomPages(b)), Prg(b, 1, 1, d % RomPages(b)), Prg(b, 2, 1, d % RomPages(b)),
           InfoNES_SetupChr(set(0)), InfoNES_SetupChr(set(2 * (page - 10) + ((port % 4096) \div 16))),
           MirrorBy(b, d, <<1, 0, 3, 2>>), load, irq, ack, b}
    BY SMT DEF Map85_Write, SetPage
  <2>2. ASSUME NEW w PROVE View(InfoNES_SetupChr(set(w))) = Redraw(View(b))
    BY SetPageView
  <2>3. View(irq) = View(b) /\ View(ack) = View(b) /\ View(load) = View(b)
    BY DEF View
  <2> HIDE DEF set, irq, ack, load, page, port
  <2>4. QED
    BY <2>1, <2>2, <2>3
<1>88. Keeps(b, Map88_Write(b, a, d)) BY DEF Map88_Write
<1>89. Keeps(b, Map89_Write(b, a, d)) BY DEF Map89_Write
<1>90. Keeps(b, Map90_Write(b, a, d))
  <2> DEFINE reg(k) == [b EXCEPT !.reg[k] = d]
             off == [b EXCEPT !.enable = 0]
             on == [b EXCEPT !.enable = 1, !.cnt = b.latch]
             load == [b EXCEPT !.cnt = d, !.latch = d]
             mirror == [b EXCEPT !.bank[3] = d % 4]
  <2>1. ASSUME NEW k PROVE View(reg(k)) = View(b)
    BY DEF View
  <2>2. View(off) = View(b) /\ View(on) = View(b) /\ View(load) = View(b) /\ View(mirror) = View(b)
    BY DEF View
  <2>3. Map90_Write(b, a, d) \in
          {Map90_Sync_Prg_Banks(reg(a % 4)), Map90_Sync_Chr_Banks(reg(4 + (a % 8))),
           Map90_Sync_Chr_Banks(reg(12 + (a % 8))), Map90_Sync_Mirror(reg(20 + (a % 4))),
           Map90_Sync_Mirror(reg(24 + (a % 4))), off, on, load, Map90_Mode(b, d), Map90_Sync_Mirror(mirror), b}
    BY SMT DEF Map90_Write
  <2> HIDE DEF reg, off, on, load, mirror
  <2>4. QED
    BY <2>1, <2>2, <2>3, Map90_Sync_Prg_BanksView, Map90_Sync_Chr_BanksView, Map90_Sync_MirrorView, Map90_ModeView
<1>92. Keeps(b, Map92_Write(b, a, d)) BY DEF Map92_Write
<1>94. Keeps(b, Map94_Write(b, a, d)) BY DEF Map94_Write
<1>95. Keeps(b, Map95_Write(b, a, d)) BY Mmc3SelectView, Mmc3BankView DEF Map95_Write
<1>96. Keeps(b, Map96_Write(b, a, d)) BY Map96_Set_BanksView DEF Map96_Write
<1>97. Keeps(b, Map97_Write(b, a, d)) BY DEF Map97_Write
<1>100. Keeps(b, Map100_Write(b, a, d))
  BY Map100_DataView, Mmc3MirrorView, CloneIrqView DEF Map100_Write
<1>101. Keeps(b, Map101_Write(b, a, d)) BY DEF Map101_Write
<1>105. Keeps(b, Map105_Write(b, a, d))
  BY Map105_BanksView, Map105_MirrorView, Map105_ShiftView DEF Map105_Write
<1>107. Keeps(b, Map107_Write(b, a, d)) BY DEF Map107_Write
<1>108. Keeps(b, Map108_Write(b, a, d)) BY DEF Map108_Write
<1>112. Keeps(b, Map112_Write(b, a, d))
  BY Mmc3SelectView, Map112_DataView, CloneIrqView DEF Map112_Write
<1>113. Keeps(b, Map113_Write(b, a, d)) BY Map113_SetView DEF Map113_Write
<1>114. Keeps(b, Map114_Write(b, a, d))
  BY Mmc3SelectView, Mmc3BankView, Mmc3MirrorView, CloneIrqView DEF Map114_Write
<1>115. Keeps(b, Map115_Write(b, a, d))
  BY Mmc3DataView, Map115_Set_PPU_BanksView, Map115_Set_CPU_BanksView, Mmc3MirrorView,
       Map115_IrqView DEF Map115_Write
<1>116. Keeps(b, Map116_Write(b, a, d))
  BY Mmc3SelectView, Mmc3BankView, Mmc3MirrorView, Map115_IrqView DEF Map116_Write
<1>117. Keeps(b, Map117_Write(b, a, d)) BY DEF Map117_Write, View
<1>118. Keeps(b, Map118_Write(b, a, d))
  BY Mmc3SelectView, Mmc3BankView, CloneIrqView DEF Map118_Write
<1>119. Keeps(b, Map119_Write(b, a, d))
  BY Mmc3DataView, Map119_Set_PPU_BanksView, Map119_Set_CPU_BanksView, Mmc3MirrorView,
       CloneIrqView DEF Map119_Write
<1>151. Keeps(b, Map151_Write(b, a, d)) BY DEF Map151_Write
<1>160. Keeps(b, Map160_Write(b, a, d)) BY DEF Map160_Write, View
<1>180. Keeps(b, Map180_Write(b, a, d)) BY DEF Map180_Write
<1>182. Keeps(b, Map182_Write(b, a, d))
  <2>1. View([b EXCEPT !.cnt = d, !.enable = d]) = View(b)
    BY DEF View
  <2>2. QED
    BY <2>1 DEF Map182_Write
<1>183. Keeps(b, Map183_Write(b, a, d))
  BY Map183_ChrView, FirstVRomView, IdentityView, FirstAndLastView DEF Map183_Write
<1>185. Keeps(b, Map185_Write(b, a, d)) BY DEF Map185_Write
<1>187. Keeps(b, Map187_Write(b, a, d))
  <2>1. View([b EXCEPT !.reg[10] = 255, !.reg[9] = d]) = View(b)
    BY DEF View
  <2>2. View([[b EXCEPT !.reg[10] = 255, !.reg[9] = d] EXCEPT !.bank[10] = (RomPages(b) - 2) % 256]) = View(b)
    BY DEF View
  <2>3. View([b EXCEPT !.reg[10] = 0, !.reg[9] = d]) = View(b)
    BY DEF View
  <2>4. View([b EXCEPT !.cnt = d, !.req = 0]) = View(b)
    BY DEF View
  <2>5. View([b EXCEPT !.latch = d, !.req = 0]) = View(b)
    BY DEF View
  <2>6. View([b EXCEPT !.enable = 0, !.req = 0]) = View(b)
    BY DEF View
  <2>7. View([b EXCEPT !.enable = 1, !.req = 0]) = View(b)
    BY DEF View
  <2>8. QED
    BY <2>1, <2>2, <2>3, <2>4, <2>5, <2>6, <2>7, Map187_Set_CPU_BanksView, Map187_DataView DEF Map187_Write
<1>188. Keeps(b, Map188_Write(b, a, d)) BY DEF Map188_Write
<1>189. Keeps(b, Map189_Write(b, a, d)) BY CloneIrqView DEF Map189_Write
<1>194. Keeps(b, Map194_Write(b, a, d)) BY DEF Map194_Write
<1>200. Keeps(b, Map200_Write(b, a, d)) BY TwiceView DEF Map200_Write
<1>201. Keeps(b, Map201_Write(b, a, d)) BY BothView DEF Map201_Write
<1>202. Keeps(b, Map202_Write(b, a, d)) BY Map202_WriteSubView DEF Map202_Write
<1>222. Keeps(b, Map222_Write(b, a, d)) BY DEF Map222_Write
<1>225. Keeps(b, Map225_Write(b, a, d)) BY GameView DEF Map225_Write
<1>226. Keeps(b, Map226_Write(b, a, d)) BY GameView DEF Map226_Write
<1>227. Keeps(b, Map227_Write(b, a, d)) BY GameView DEF Map227_Write
<1>228. Keeps(b, Map228_Write(b, a, d)) BY TwiceView DEF Map228_Write
<1>229. Keeps(b, Map229_Write(b, a, d)) BY TwiceView DEF Map229_Write
<1>230. Keeps(b, Map230_Write(b, a, d)) BY TwiceView DEF Map230_Write
<1>231. Keeps(b, Map231_Write(b, a, d)) BY TwiceView DEF Map231_Write
<1>232. Keeps(b, Map232_Write(b, a, d)) BY DEF Map232_Write
<1>233. Keeps(b, Map233_Write(b, a, d)) BY TwiceView DEF Map233_Write
<1>234. Keeps(b, Map234_Write(b, a, d))
  <2> DEFINE reg(k) == [b EXCEPT !.reg[k] = d]
  <2>1. ASSUME NEW k PROVE View(reg(k)) = View(b)
    BY DEF View
  <2>2. Map234_Write(b, a, d) \in {Map234_Set_Banks(reg(0)), Map234_Set_Banks(reg(1)), b}
    BY SMT DEF Map234_Write
  <2> HIDE DEF reg
  <2>3. QED
    BY <2>1, <2>2, Map234_Set_BanksView
<1>235. Keeps(b, Map235_Write(b, a, d)) BY GameView DEF Map235_Write
<1>236. Keeps(b, Map236_Write(b, a, d))
  <2> DEFINE low == [b EXCEPT !.reg[0] = 16 * (a % 4) + (@ % 8)]
             high == [b EXCEPT !.reg[0] = (a % 8) + 16 * Field(@, 4, 2), !.reg[1] = 16 * Field(a, 4, 2)]
             g == IF a < \hC000 THEN low ELSE high
             m == MirrorIf(g, On(a, 5), 0, 1)
             t == [m EXCEPT !.reg[0] = Or(@, IF g.reg[1] = 16 THEN \h37 ELSE 8)]
             bank == t.reg[0]
  <2>1. Map236_Write(b, a, d) \in
          {PrgMod(PrgMod(t, 0, 2, 2 * bank), 2, 2, 2 * Or(bank, 7)), PrgMod(t, 0, 4, 2 * Hi(bank, 2)),
           Twice(t, 2 * bank), t}
    BY SMT DEF Map236_Write
  <2>2. View(low) = View(b) /\ View(high) = View(b)
    BY DEF View
  <2> HIDE DEF low, high
  <2>3. View(g) = View(b)
    BY <2>2
  <2> HIDE DEF g
  <2>4. View(m) = View(g)
    BY MirrorsView
  <2> HIDE DEF m
  <2>5. View(t) = View(m)
    BY DEF View
  <2> HIDE DEF t, bank
  <2>6. QED
    BY <2>1, <2>3, <2>4, <2>5, PrgView, TwiceView
<1>241. Keeps(b, Map241_Write(b, a, d)) BY DEF Map241_Write
<1>242. Keeps(b, Map242_Write(b, a, d)) BY DEF Map242_Write
<1>244. Keeps(b, Map244_Write(b, a, d)) BY DEF Map244_Write
<1>245. Keeps(b, Map245_Write(b, a, d)) BY Mmc3MirrorView, StickyIrqView DEF Map245_Write
<1>248. Keeps(b, Map248_Write(b, a, d))
  BY Map248_Set_PPU_BanksView, Map248_Set_CPU_BanksView, Mmc3MirrorView DEF Map248_Write, View
<1>249. Keeps(b, Map249_Write(b, a, d))
  BY Map249_DataView, Mmc3MirrorView, StickyIrqView DEF Map249_Write
<1>251. Keeps(b, Map251_Write(b, a, d)) BY Map251_Set_BanksView DEF Map251_Write, View
<1>252. Keeps(b, Map252_Write(b, a, d)) BY VrcChrView, VrcControlView DEF Map252_Write, View
<1>256. Keeps(b, b)
  OBVIOUS
<1> HIDE PrimitivesView DEF Keeps
<1>257. QED
  BY <1>1, <1>2, <1>3, <1>4, <1>6, <1>7, <1>8, <1>9, <1>10, <1>11, <1>13, <1>15, <1>16, <1>18,
       <1>19, <1>21, <1>22, <1>23, <1>24, <1>25, <1>26, <1>32, <1>33, <1>34, <1>40, <1>41, <1>42,
       <1>43, <1>44, <1>46, <1>47, <1>48, <1>49, <1>51, <1>57, <1>58, <1>60, <1>61, <1>62, <1>64,
       <1>65, <1>66, <1>67, <1>68, <1>69, <1>70, <1>71, <1>72, <1>73, <1>74, <1>75, <1>76, <1>77,
       <1>78, <1>83, <1>85, <1>88, <1>89, <1>90, <1>92, <1>94, <1>95, <1>96, <1>97, <1>100,
       <1>101, <1>105, <1>107, <1>108, <1>112, <1>113, <1>114, <1>115, <1>116, <1>117, <1>118,
       <1>119, <1>151, <1>160, <1>180, <1>182, <1>183, <1>185, <1>187, <1>188, <1>189, <1>194,
       <1>200, <1>201, <1>202, <1>222, <1>225, <1>226, <1>227, <1>228, <1>229, <1>230, <1>231,
       <1>232, <1>233, <1>234, <1>235, <1>236, <1>241, <1>242, <1>244, <1>245, <1>248, <1>249,
       <1>251, <1>252, <1>256, ZenonT(60) DEF MapperWrite

(* So do the handlers of writes to SRAM.                                   *)
LEMMA MapperSramKeeps ==
  ASSUME NEW no, NEW b, NEW a, NEW d
  PROVE  Keeps(b, MapperSram(no, b, a, d))
<1>16. Keeps(b, Map16_Write(b, a, d)) BY DEF Map16_Write, View
<1>34. Keeps(b, Map34_Sram(b, a, d)) BY Map34_WriteView DEF Map34_Sram
<1>41. Keeps(b, Map41_Sram(b, a, d))
  <2>1. View([b EXCEPT !.reg[0] = And(a % 256, 4), !.reg[1] = 4 * Field(a % 256, 3, 2)]) = View(b)
    BY DEF View
  <2>2. QED
    BY <2>1 DEF Map41_Sram
<1>46. Keeps(b, Map46_Sram(b, a, d))
  <2>1. View([b EXCEPT !.reg[0] = d % 16, !.reg[1] = Field(d, 4, 4)]) = View(b)
    BY DEF View
  <2>2. QED
    BY <2>1, Map46_Set_ROM_BanksView DEF Map46_Sram
<1>47. Keeps(b, Map47_Sram(b, a, d))
  BY Map47_Set_PPU_BanksView, Map47_Set_CPU_BanksView DEF Map47_Sram
<1>49. Keeps(b, Map49_Sram(b, a, d))
  BY Map49_Set_PPU_BanksView, Map49_Set_CPU_BanksView DEF Map49_Sram
<1>51. Keeps(b, Map51_Sram(b, a, d)) BY Map51_Set_CPU_BanksView DEF Map51_Sram
<1>66. Keeps(b, Map66_Write(b, a, d)) BY DEF Map66_Write
<1>80. Keeps(b, Map80_Sram(b, a, d)) BY DEF Map80_Sram
<1>82. Keeps(b, Map82_Sram(b, a, d)) BY DEF Map82_Sram
<1>86. Keeps(b, Map86_Sram(b, a, d)) BY DEF Map86_Sram
<1>87. Keeps(b, Map87_Sram(b, a, d)) BY DEF Map87_Sram
<1>91. Keeps(b, Map91_Sram(b, a, d)) BY DEF Map91_Sram
<1>93. Keeps(b, Map93_Sram(b, a, d)) BY DEF Map93_Sram
<1>101. Keeps(b, Map101_Write(b, a, d)) BY DEF Map101_Write
<1>114. Keeps(b, Map114_Sram(b, a, d)) BY Mmc3InitView DEF Map114_Sram
<1>115. Keeps(b, Map115_Sram(b, a, d))
  BY Map115_Set_CPU_BanksView, Map115_Set_PPU_BanksView DEF Map115_Sram
<1>122. Keeps(b, Map122_Sram(b, a, d)) BY DEF Map122_Sram
<1>140. Keeps(b, Map140_Sram(b, a, d)) BY Map140_ApuView DEF Map140_Sram
<1>193. Keeps(b, Map193_Sram(b, a, d)) BY DEF Map193_Sram
<1>246. Keeps(b, Map246_Sram(b, a, d)) BY DEF Map246_Sram
<1>248. Keeps(b, Map248_Sram(b, a, d)) BY Map248_SramView
<1>251. Keeps(b, Map251_Sram(b, a, d))
  <2> DEFINE g == [b EXCEPT !.bank[b.reg[10]] = d, !.reg[10] = @ + 1]
             e == [g EXCEPT !.reg[10] = 0]
  <2>1. Map251_Sram(b, a, d) \in {b, Map251_Set_Banks(e), g}
    BY SMT DEF Map251_Sram
  <2>2. View(g) = View(b)
    BY DEF View
  <2> HIDE DEF g
  <2>3. View(e) = View(g)
    BY DEF View
  <2> HIDE DEF e
  <2>4. QED
    BY <2>1, <2>2, <2>3, Map251_Set_BanksView
<1>256. Keeps(b, b)
  OBVIOUS
<1> HIDE PrimitivesView DEF Keeps
<1>257. QED
  BY <1>16, <1>34, <1>41, <1>46, <1>47, <1>49, <1>51, <1>66, <1>80, <1>82, <1>86, <1>87, <1>91,
       <1>93, <1>101, <1>114, <1>115, <1>122, <1>140, <1>193, <1>246, <1>248, <1>251, <1>256,
       ZenonT(60) DEF MapperSram

(* Of writes to the expansion area.                                        *)
LEMMA MapperApuKeeps ==
  ASSUME NEW no, NEW b, NEW a, NEW d
  PROVE  Keeps(b, MapperApu(no, b, a, d))
<1>5. Keeps(b, Map5_Apu(b, a, d))
  <2> DEFINE names == PpuWin(b, 8, [k \in 0..3 |-> <<VRam(0), VRam(1), <<"EX", 0>>, <<"EX", 1>> >>[Field(d, 2 * k, 2) + 1]])
             wram == [b EXCEPT !.reg[27] = d % 8, !.sram = Wram(d % 8)]
             both == [b EXCEPT !.reg[16 + (a % 4)] = d, !.reg[20 + (a % 4)] = d]
             reg(k, v) == [b EXCEPT !.reg[k] = v]
             load(v) == [b EXCEPT !.latch = v]
             irq == [b EXCEPT !.enable = d]
  <2>1. View(names) = View(b)
    BY NamesView
  <2>2. /\ View(wram) = View(b) /\ View(both) = View(b) /\ View(irq) = View(b)
        /\ \A k, v : View(reg(k, v)) = View(b) /\ View(load(v)) = View(b)
    BY DEF View
  <2>3. Map5_Apu(b, a, d) \in
          {reg(0, d % 4), reg(1, d % 4), reg(2, d % 4), names, wram, Map5_Sync_Prg_Banks(reg(a % 8, d)),
           Map5_Sync_Prg_Banks(reg(8 + (a % 8), d)), both, load(IF b.latch >= 64 THEN d ELSE (b.latch + d) % 256), irq, b}
    BY SMT DEF Map5_Apu
  <2> HIDE DEF names, wram, both, reg, load, irq
  <2>4. QED
    BY <2>1, <2>2, <2>3, Map5_Sync_Prg_BanksView
<1>6. Keeps(b, Map6_Apu(b, a, d)) BY DEF Map6_Apu, View
<1>17. Keeps(b, Map17_Apu(b, a, d)) BY DEF Map17_Apu, View
<1>19. Keeps(b, Map19_Apu(b, a, d)) BY DEF Map19_Apu, View
<1>43. Keeps(b, Map43_Apu(b, a, d)) BY DEF Map43_Apu
<1>50. Keeps(b, Map50_Apu(b, a, d)) BY DEF Map50_Apu
<1>79. Keeps(b, Map79_Apu(b, a, d)) BY DEF Map79_Apu
<1>83. Keeps(b, Map83_Apu(b, a, d)) BY DEF Map83_Apu
<1>99. Keeps(b, Map99_Apu(b, a, d)) BY DEF Map99_Apu
<1>109. Keeps(b, Map109_Apu(b, a, d)) BY Map109_Set_PPU_BanksView DEF Map109_Apu
<1>110. Keeps(b, Map110_Apu(b, a, d)) BY DEF Map110_Apu
<1>113. Keeps(b, Map113_Apu(b, a, d)) BY Map113_SetView DEF Map113_Apu
<1>133. Keeps(b, Map133_Apu(b, a, d)) BY BothView DEF Map133_Apu
<1>134. Keeps(b, Map134_Apu(b, a, d))
  <2>1. View([b EXCEPT !.reg[1] = 0, !.reg[2] = 3]) = View(b)
    BY DEF View
  <2>2. QED
    BY <2>1, BothView DEF Map134_Apu
<1>135. Keeps(b, Map135_Apu(b, a, d)) BY Map135_Set_PPU_BanksView DEF Map135_Apu
<1>140. Keeps(b, Map140_Apu(b, a, d)) BY Map140_ApuView
<1>181. Keeps(b, Map181_Apu(b, a, d)) BY BothView DEF Map181_Apu
<1>187. Keeps(b, Map187_Apu(b, a, d))
  <2> DEFINE prg(g, k, v) == [g EXCEPT !.bank[8 + k] = v % 256]
             g == [b EXCEPT !.reg[8] = d]
             four == [g EXCEPT !.bank = [k \in DOMAIN @ |-> IF k < 8 THEN @[k] ELSE 4 * Field(d, 1, 4) + k - 8]]
             two == prg(prg(g, 2, 2 * (d % 32)), 3, 2 * (d % 32) + 1)
             off == prg(prg(prg(prg(g, 0, b.bank[6]), 1, b.bank[7]), 2, RomPages(b) - 2), 3, RomPages(b) - 1)
  <2>1. Map187_Apu(b, a, d) \in
          {b, Map187_Set_CPU_Banks(off), Map187_Set_CPU_Banks(four), Map187_Set_CPU_Banks(two)}
    BY SMT DEF Map187_Apu
  <2>2. ASSUME NEW t, NEW k, NEW v PROVE View(prg(t, k, v)) = View(t)
    BY DEF View
  <2>3. View(g) = View(b)
    BY DEF View
  <2> HIDE DEF prg, g
  <2>4. View(four) = View(g)
    BY DEF View
  <2>5. View(two) = View(g) /\ View(off) = View(g)
    BY <2>2
  <2> HIDE DEF four, two, off
  <2>6. QED
    BY <2>1, <2>3, <2>4, <2>5, Map187_Set_CPU_BanksView
<1>189. Keeps(b, Map189_Apu(b, a, d)) BY DEF Map189_Apu
<1>191. Keeps(b, Map191_Apu(b, a, d))
  BY Map191_Set_PPU_BanksView, Map191_Set_CPU_BanksView DEF Map191_Apu
<1>202. Keeps(b, Map202_Apu(b, a, d)) BY Map202_WriteSubView DEF Map202_Apu
<1>240. Keeps(b, Map240_Apu(b, a, d)) BY BothView DEF Map240_Apu
<1>243. Keeps(b, Map243_Apu(b, a, d)) BY DEF Map243_Apu
<1>248. Keeps(b, Map248_Apu(b, a, d)) BY Map248_SramView DEF Map248_Apu
<1>249. Keeps(b, Map249_Apu(b, a, d)) BY DEF Map249_Apu
<1>255. Keeps(b, Map255_Apu(b, a, d)) BY DEF Map255_Apu
<1>256. Keeps(b, b)
  OBVIOUS
<1> HIDE PrimitivesView DEF Keeps
<1>257. QED
  BY <1>5, <1>6, <1>17, <1>19, <1>43, <1>50, <1>79, <1>83, <1>99, <1>109, <1>110, <1>113, <1>133,
       <1>134, <1>135, <1>140, <1>181, <1>187, <1>189, <1>191, <1>202, <1>240, <1>243, <1>248,
       <1>249, <1>255, <1>256, ZenonT(60) DEF MapperApu

(* Of reads from it.                                                       *)
LEMMA MapperReadApuKeeps ==
  ASSUME NEW no, NEW b, NEW a
  PROVE  Keeps(b, MapperReadApu(no, b, a))
<1>5. Keeps(b, Map5_ReadApu(b, a)) BY DEF Map5_ReadApu
<1>256. Keeps(b, b)
  OBVIOUS
<1> HIDE PrimitivesView DEF Keeps
<1>257. QED
  BY <1>5, <1>256, ZenonT(60) DEF MapperReadApu

(* The handlers of a scanline count, and request interrupts.               *)
LEMMA MapperHSyncKeeps ==
  ASSUME NEW no, NEW b, NEW line, NEW show
  PROVE  Keeps(b, MapperHSync(no, b, line, show))
<1>4. Keeps(b, Map4_HSync(b, line, show)) BY Map4_HSyncView
<1>5. Keeps(b, Map5_HSync(b, line)) BY DEF Map5_HSync, View, IRQ_REQ
<1>6. Keeps(b, Map6_HSync(b)) BY DEF Map6_HSync
<1>16. Keeps(b, Map16_HSync(b)) BY DEF Map16_HSync, View, IRQ_REQ
<1>17. Keeps(b, Map17_HSync(b)) BY DEF Map17_HSync, View, IRQ_REQ
<1>18. Keeps(b, Map18_HSync(b)) BY DEF Map18_HSync, View, IRQ_REQ
<1>19. Keeps(b, Map19_HSync(b)) BY DEF Map19_HSync
<1>21. Keeps(b, Map21_HSync(b)) BY VrcCountView DEF Map21_HSync
<1>24. Keeps(b, Map24_HSync(b)) BY DEF Map24_HSync
<1>25. Keeps(b, Map25_HSync(b)) BY DEF Map25_HSync
<1>26. Keeps(b, Map26_HSync(b)) BY DEF Map26_HSync, View, IRQ_REQ
<1>40. Keeps(b, Map40_HSync(b)) BY DEF Map40_HSync
<1>42. Keeps(b, Map42_HSync(b)) BY DEF Map42_HSync, View, IRQ_REQ
<1>43. Keeps(b, Map43_HSync(b)) BY DEF Map43_HSync
<1>44. Keeps(b, Map44_HSync(b, line, show)) BY CountToZeroView DEF Map44_HSync
<1>47. Keeps(b, Map47_HSync(b, line, show)) BY Map47_HSyncView
<1>48. Keeps(b, Map48_HSync(b, line, show)) BY DEF Map48_HSync
<1>49. Keeps(b, Map49_HSync(b, line, show)) BY CountToZeroView DEF Map49_HSync
<1>50. Keeps(b, Map50_HSync(b, line)) BY DEF Map50_HSync
<1>65. Keeps(b, Map65_HSync(b)) BY DEF Map65_HSync, View, IRQ_REQ
<1>67. Keeps(b, Map67_HSync(b, line, show)) BY DEF Map67_HSync, View, IRQ_REQ
<1>69. Keeps(b, Map69_HSync(b)) BY DEF Map69_HSync
<1>73. Keeps(b, Map73_HSync(b)) BY DEF Map73_HSync, View, IRQ_REQ
<1>74. Keeps(b, Map74_HSync(b, line, show)) BY Map4_HSyncView DEF Map74_HSync
<1>83. Keeps(b, Map83_HSync(b)) BY DEF Map83_HSync
<1>85. Keeps(b, Map85_HSync(b)) BY DEF Map85_HSync
<1>90. Keeps(b, Map90_HSync(b, line, show)) BY DEF Map90_HSync, View, IRQ_REQ
<1>100. Keeps(b, Map100_HSync(b, line, show)) BY CountToZeroView DEF Map100_HSync
<1>105. Keeps(b, Map105_HSync(b, line)) BY DEF Map105_HSync
<1>112. Keeps(b, Map112_HSync(b, line, show)) BY CountToZeroView DEF Map112_HSync
<1>114. Keeps(b, Map114_HSync(b, line, show)) BY CountToZeroView DEF Map114_HSync
<1>115. Keeps(b, Map115_HSync(b, line, show)) BY CountToZeroView DEF Map115_HSync
<1>116. Keeps(b, Map116_HSync(b, line, show)) BY CountToZeroView DEF Map116_HSync
<1>117. Keeps(b, Map117_HSync(b, line)) BY DEF Map117_HSync
<1>118. Keeps(b, Map118_HSync(b, line, show)) BY CountToZeroView DEF Map118_HSync
<1>119. Keeps(b, Map119_HSync(b, line, show)) BY CountToZeroView DEF Map119_HSync
<1>160. Keeps(b, Map160_HSync(b, line)) BY Map160_RefreshView DEF Map160_HSync, View, IRQ_REQ
<1>182. Keeps(b, Map182_HSync(b, line, show)) BY DEF Map182_HSync, View, IRQ_REQ
<1>183. Keeps(b, Map183_HSync(b)) BY DEF Map183_HSync
<1>187. Keeps(b, Map187_HSync(b, line, show)) BY DEF Map187_HSync, View, IRQ_REQ
<1>189. Keeps(b, Map189_HSync(b, line, show)) BY Map47_HSyncView DEF Map189_HSync
<1>245. Keeps(b, Map245_HSync(b, line, show)) BY StickyHSyncView DEF Map245_HSync
<1>248. Keeps(b, Map248_HSync(b, line, show)) BY CountToZeroView DEF Map248_HSync
<1>249. Keeps(b, Map249_HSync(b, line, show)) BY StickyHSyncView DEF Map249_HSync
<1>252. Keeps(b, Map252_HSync(b)) BY DEF Map252_HSync, View, IRQ_REQ
<1>256. Keeps(b, b)
  OBVIOUS
<1> HIDE PrimitivesView DEF Keeps
<1>257. QED
  BY <1>4, <1>5, <1>6, <1>16, <1>17, <1>18, <1>19, <1>21, <1>24, <1>25, <1>26, <1>40, <1>42,
       <1>43, <1>44, <1>47, <1>48, <1>49, <1>50, <1>65, <1>67, <1>69, <1>73, <1>74, <1>83, <1>85,
       <1>90, <1>100, <1>105, <1>112, <1>114, <1>115, <1>116, <1>117, <1>118, <1>119, <1>160,
       <1>182, <1>183, <1>187, <1>189, <1>245, <1>248, <1>249, <1>252, <1>256, ZenonT(60) DEF MapperHSync

(* The latches that pattern fetches switch.                                *)
LEMMA MapperPPUKeeps ==
  ASSUME NEW no, NEW b, NEW a
  PROVE  Keeps(b, MapperPPU(no, b, a))
<1>9. Keeps(b, Map9_PPU(b, a)) BY LatchFetchView DEF Map9_PPU
<1>10. Keeps(b, Map10_PPU(b, a)) BY LatchFetchView DEF Map10_PPU
<1>96. Keeps(b, Map96_PPU(b, a)) BY Map96_Set_BanksView DEF Map96_PPU
<1>256. Keeps(b, b)
  OBVIOUS
<1> HIDE PrimitivesView DEF Keeps
<1>257. QED
  BY <1>9, <1>10, <1>96, <1>256, ZenonT(60) DEF MapperPPU

(* Board 5 has windows of its own for sprites and background.              *)
LEMMA MapperRenderScreenKeeps ==
  ASSUME NEW no, NEW b, NEW mode
  PROVE  Keeps(b, MapperRenderScreen(no, b, mode))
<1>5. Keeps(b, Map5_RenderScreen(b, mode)) BY DEF Map5_RenderScreen
<1>256. Keeps(b, b)
  OBVIOUS
<1> HIDE PrimitivesView DEF Keeps
<1>257. QED
  BY <1>5, <1>256, ZenonT(60) DEF MapperRenderScreen

HIDE PrimitivesView
HIDE DEF Keeps

-----------------------------------------------------------------------------
(* The cartridge under any sequence of operations.                         *)

(* Board 255 selects patterns without decoding them, but is still a board. *)
LEMMA Map255Board == ASSUME NEW b, NEW a, NEW d, View(b) # <<>> PROVE View(Map255_Write(b, a, d)) # <<>>
<1>1. PICK p, q, c, m, w : Map255_Write(b, a, d) = PpuWin(Game(MirrorIf(b, c, 0, 1), p, q, m), 0, w)
  BY Zenon DEF Map255_Write
<1> DEFINE h == Game(MirrorIf(b, c, 0, 1), p, q, m)
<1>2. View(h) = View(b)
  BY GameView, MirrorsView
<1> HIDE DEF h
<1>3. Redraw(View(PpuWin(h, 0, w))) = Redraw(View(h))
  BY PpuWinView
<1>4. Redraw(View(Map255_Write(b, a, d))) = Redraw(View(b))
  BY <1>1, <1>2, <1>3 DEF h
<1>5. QED
  BY <1>4 DEF Redraw

(* A board that is kept is a board, and fresh if it shows other patterns.  *)
LEMMA KeepsFresh ==
  ASSUME NEW b, NEW h, View(b) # <<>>, Keeps(b, h)
  PROVE  View(h) # <<>> /\ (Patterns(h) # Patterns(b) => h.chr = Patterns(h))
<1>1. View(h) # <<>>
  BY DEF Keeps, Redraw
<1>2. View(b) = Look(b.ppu, b.chr) /\ View(h) = Look(h.ppu, h.chr)
  BY <1>1 DEF View
<1>3. Patterns(b) = Selected(b.ppu) /\ Patterns(h) = Selected(h.ppu)
  BY DEF Patterns, Selected
<1>4. CASE View(h) = <<"drawn">>
  <2>1. h.chr = Selected(h.ppu)
    BY <1>2, <1>4 DEF Look
  <2>2. QED
    BY <1>1, <1>3, <2>1
<1>5. CASE View(h) # <<"drawn">>
  <2>1. View(h) = View(b)
    BY <1>5 DEF Keeps, Redraw
  <2>2. <<Selected(h.ppu), h.chr>> = <<Selected(b.ppu), b.chr>>
    BY <1>2, <1>5, <2>1 DEF Look
  <2>3. QED
    BY <1>1, <1>3, <2>2
<1>6. QED
  BY <1>4, <1>5

(* A board switched on is a board, and a reset leaves it one.              *)
LEMMA ResetBoard ==
  ASSUME NEW no, NEW b, NEW overrun
  PROVE  View(b) # <<>> => View(InfoNES_Reset(no, b, overrun)) # <<>>
<1> DEFINE m == [b EXCEPT !.update = 0..7]
           p == [m EXCEPT !.ppu = [w \in 0..11 |-> Ram(w)], !.irq = FALSE,
                          !.stale = @ \cup {w \in 0..7 : m.chr[w][1] = "PPURAM"}]
           q == InfoNES_Mirroring(p, m.hmir)
<1>1. DOMAIN p = DOMAIN b
  OBVIOUS
<1>2. InfoNES_Reset(no, b, overrun) = MapperInit(no, q, overrun)
  BY DEF InfoNES_Reset, InfoNES_SetupPPU
<1> HIDE DEF p
<1>3. View(b) # <<>> => View(p) # <<>>
  BY <1>1 DEF View, Look
<1>4. View(q) = View(p)
  BY MirrorView
<1> HIDE DEF q
<1>5. Keeps(q, MapperInit(no, q, overrun))
  BY MapperInitKeeps
<1>6. QED
  BY <1>2, <1>3, <1>4, <1>5 DEF Keeps, Redraw

(* What the steps need: the board is one, and resets are counted.          *)
CartInv == View(board) # <<>> /\ cartResets \in Nat

(* It holds when the console is switched on.                               *)
LEMMA InitCartInv == CartInit => CartInv
<1> SUFFICES ASSUME CartInit PROVE CartInv
  OBVIOUS
<1>1. PICK overrun \in {0, 1} : fresh = PowerOn(cart, overrun)
  BY DEF CartInit
<1> DEFINE blank == Blank(cart, 0..31)
<1>2. "ppu" \in DOMAIN blank /\ "chr" \in DOMAIN blank
  BY DEF Blank
<1> HIDE DEF blank
<1>3. View(blank) # <<>>
  BY <1>2 DEF View, Look
<1>4. View(PowerOn(cart, overrun)) # <<>>
  BY <1>3, ResetBoard DEF PowerOn, blank
<1>5. QED
  BY <1>1, <1>4 DEF CartInit, CartInv

(* What an operation, that is, a step other than a reset, does.            *)
Operation ==
  /\ cartResets' = cartResets
  /\ IF cart.no = 255 THEN View(board') # <<>> ELSE Keeps(board, board')

(* All of them are.                                                        *)
LEMMA OperationsKeep ==
  ASSUME CartInv,
         \/ Write \/ WriteSram \/ WriteApu \/ ReadApu
         \/ StoreVram \/ FrameTop \/ Fetch \/ Render \/ HSync \/ TakeIrq
  PROVE  Operation
<1>1. ASSUME Keeps(board, board'), cartResets' = cartResets PROVE Operation
  BY <1>1 DEF Operation, Keeps, Redraw, CartInv
<1>2. CASE Write
  <2>1. PICK w \in Writes(cart.no, "rom"), line \in Lines :
          board' = MapperWrite(cart.no, board, w[1], w[2], line) /\ cartResets' = cartResets
    BY <1>2 DEF Write, Step
  <2>2. CASE cart.no = 255
    <3>1. board' = Map255_Write(board, w[1], w[2])
      BY <2>1, <2>2 DEF MapperWrite
    <3>2. QED
      BY <2>1, <2>2, <3>1, Map255Board DEF Operation, CartInv
  <2>3. CASE cart.no # 255
    BY <1>1, <2>1, <2>3, MapperWriteKeeps
  <2>4. QED
    BY <2>2, <2>3
<1>3. CASE WriteSram
  <2>1. PICK w \in Writes(cart.no, "sram") :
          board' = MapperSram(cart.no, board, w[1], w[2]) /\ cartResets' = cartResets
    BY <1>3 DEF WriteSram, Step
  <2>2. QED
    BY <1>1, <2>1, MapperSramKeeps
<1>4. CASE WriteApu
  <2>1. PICK w \in Writes(cart.no, "apu") :
          board' = MapperApu(cart.no, board, w[1], w[2]) /\ cartResets' = cartResets
    BY <1>4 DEF WriteApu, Step
  <2>2. QED
    BY <1>1, <2>1, MapperApuKeeps
<1>5. CASE ReadApu
  <2>1. PICK w \in Writes(cart.no, "apu") :
          board' = MapperReadApu(cart.no, board, w[1]) /\ cartResets' = cartResets
    BY <1>5 DEF ReadApu, Step
  <2>2. QED
    BY <1>1, <2>1, MapperReadApuKeeps
<1>6. CASE Fetch
  <2>1. PICK a \in Fetches : board' = MapperPPU(cart.no, board, a) /\ cartResets' = cartResets
    BY <1>6 DEF Fetch, Step
  <2>2. QED
    BY <1>1, <2>1, MapperPPUKeeps
<1>7. CASE Render
  <2>1. PICK mode \in {0, 1} :
          board' = MapperRenderScreen(cart.no, board, mode) /\ cartResets' = cartResets
    BY <1>7 DEF Render, Step
  <2>2. QED
    BY <1>1, <2>1, MapperRenderScreenKeeps
<1>8. CASE HSync
  <2>1. PICK line \in Lines, show \in BOOLEAN :
          board' = MapperHSync(cart.no, board, line, show) /\ cartResets' = cartResets
    BY <1>8 DEF HSync, Step
  <2>2. QED
    BY <1>1, <2>1, MapperHSyncKeeps
<1>9. CASE TakeIrq
  <2> DEFINE h == [board EXCEPT !.irq = FALSE]
  <2>1. board' = h /\ cartResets' = cartResets
    BY <1>9 DEF TakeIrq, Step
  <2>2. View(h) = View(board)
    BY DEF View
  <2> HIDE DEF h
  <2>3. QED
    BY <1>1, <2>1, <2>2 DEF Keeps
<1>10. CASE StoreVram
  <2>1. PICK w \in Stored : board' = StorePattern(board, w) /\ cartResets' = cartResets
    BY <1>10 DEF StoreVram, Step
  <2>2. QED
    BY <1>1, <2>1, StoreView DEF Keeps
<1>11. CASE FrameTop
  <2>1. board' = InfoNES_SetupChr(board) /\ cartResets' = cartResets
    BY <1>11 DEF FrameTop, Step
  <2>2. QED
    BY <1>1, <2>1, SetupView DEF Keeps
<1>12. QED
  BY <1>2, <1>3, <1>4, <1>5, <1>6, <1>7, <1>8, <1>9, <1>10, <1>11

(* Every step preserves the invariant.                                     *)
LEMMA NextCartInv == CartInv /\ [CartNext]_cartVars => CartInv'
<1> SUFFICES ASSUME CartInv, [CartNext]_cartVars PROVE CartInv'
  OBVIOUS
<1>1. CASE CartReset
  <2>1. PICK overrun \in {0, 1} : board' = InfoNES_Reset(cart.no, board, overrun)
    BY <1>1 DEF CartReset
  <2>2. QED
    BY <1>1, <2>1, ResetBoard DEF CartReset, CartInv
<1>2. CASE Operation
  BY <1>2 DEF Operation, CartInv, Keeps, Redraw
<1>3. CASE UNCHANGED cartVars
  BY <1>3 DEF cartVars, CartInv
<1>4. QED
  BY <1>1, <1>2, <1>3, OperationsKeep DEF CartNext

(* PatternsFresh: whatever a game writes to whichever cartridge, a handler *)
(* that moves a pattern window leaves ChrBuf with the characters of all    *)
(* eight windows (InfoNES_SetupChr), unless the board is the 255th.        *)
THEOREM PatternsFreshHolds == CartSpec => PatternsFresh
<1> DEFINE Fresh == cartResets' = cartResets /\ Patterns(board') # Patterns(board) /\ cart.no # 255
                      => board'.chr = Patterns(board')
<1>1. CartInv /\ [CartNext]_cartVars => [Fresh]_cartVars
  <2> SUFFICES ASSUME CartInv, CartNext PROVE Fresh
    OBVIOUS
  <2>1. CASE CartReset
    BY <2>1 DEF CartReset, CartInv
  <2>2. CASE Operation
    BY <2>2, KeepsFresh DEF Operation, CartInv
  <2>3. QED
    BY <2>1, <2>2, OperationsKeep DEF CartNext
<1>2. QED
  BY <1>1, InitCartInv, NextCartInv, PTL DEF CartSpec, PatternsFresh

-----------------------------------------------------------------------------
(* What the windows depend on.                                             *)
Registers(b) == <<b.rom, b.vrom, b.hmir, b.reg, b.bank>>
(* The windows of the name tables.                                         *)
Names(b) == [w \in 0..3 |-> b.ppu[w + 8]]

(* A board has all of them.                                                *)
IsBoard(b) ==
  /\ {"rom", "vrom", "hmir", "reg", "bank", "cpu", "ppu", "chr", "sram", "irq"} \subseteq DOMAIN b
  /\ b.vrom \in Nat
  /\ DOMAIN b.reg = 0..31
  /\ DOMAIN b.bank = 0..11
  /\ b.cpu = [w \in 0..3 |-> b.cpu[w]]
  /\ b.ppu = [w \in 0..11 |-> b.ppu[w]]

(* Moving all four windows of the CPU.                                     *)
LEMMA CpuWinIs ==
  ASSUME NEW b, IsBoard(b), NEW p, p = [w \in 0..3 |-> p[w]]
  PROVE  /\ IsBoard(CpuWin(b, 0, p))
         /\ CpuWin(b, 0, p).cpu = p /\ CpuWin(b, 0, p).ppu = b.ppu
         /\ Registers(CpuWin(b, 0, p)) = Registers(b)
<1> DEFINE t == CpuWin(b, 0, p)
           q == [w \in 0..3 |-> IF w - 0 \in DOMAIN p THEN p[w - 0] ELSE b.cpu[w]]
<1>1. DOMAIN p = 0..3
  OBVIOUS
<1>2. \A w \in 0..3 : w - 0 = w
  OBVIOUS
<1>3. q = p
  BY <1>1, <1>2
<1>4. t = [b EXCEPT !.cpu = q]
  BY DEF CpuWin
<1> HIDE DEF t, q
<1>5. /\ DOMAIN t = DOMAIN b /\ t.cpu = p
      /\ \A f \in {"rom", "vrom", "hmir", "reg", "bank", "ppu"} : t[f] = b[f]
  BY <1>3, <1>4 DEF IsBoard
<1>6. Registers(t) = Registers(b) /\ t.ppu = b.ppu
  BY <1>5 DEF Registers
<1>7. IsBoard(t)
  BY <1>5 DEF IsBoard
<1>8. QED
  BY <1>5, <1>6, <1>7 DEF t

(* Moving the eight pattern windows and decoding them.                     *)
LEMMA PatternsAre ==
  ASSUME NEW b, IsBoard(b), NEW p, p = [w \in 0..7 |-> p[w]]
  PROVE  LET t == InfoNES_SetupChr(PpuWin(b, 0, p))
         IN  /\ IsBoard(t)
             /\ t.cpu = b.cpu /\ Patterns(t) = p /\ Names(t) = Names(b)
             /\ Registers(t) = Registers(b)
<1> DEFINE q == [w \in 0..11 |-> IF w - 0 \in DOMAIN p THEN p[w - 0] ELSE b.ppu[w]]
           mid == PpuWin(b, 0, p)
           t == InfoNES_SetupChr(mid)
<1>1. DOMAIN p = 0..7
  OBVIOUS
<1>2. \A w \in 0..11 : w - 0 = w
  OBVIOUS
<1>3. /\ q = [w \in 0..11 |-> q[w]]
      /\ \A w \in 0..7 : q[w] = p[w]
      /\ \A w \in 8..11 : q[w] = b.ppu[w]
  BY <1>1, <1>2
<1>4. mid = [b EXCEPT !.ppu = q]
  BY DEF PpuWin
<1> HIDE DEF mid, q
<1>5. DOMAIN t = DOMAIN b /\ t.ppu = q
      /\ \A f \in {"rom", "vrom", "hmir", "reg", "bank", "cpu"} : t[f] = b[f]
  BY <1>4 DEF InfoNES_SetupChr, IsBoard
<1> HIDE DEF t
<1>6. Registers(t) = Registers(b) /\ t.cpu = b.cpu
  BY <1>5 DEF Registers
<1>7. Patterns(t) = p
  BY <1>3, <1>5 DEF Patterns
<1>8. Names(t) = Names(b)
  BY <1>3, <1>5 DEF Names
<1>9. IsBoard(t)
  BY <1>3, <1>5 DEF IsBoard
<1>10. QED
  BY <1>6, <1>7, <1>8, <1>9 DEF t, mid

(* Mirroring, and the fields no window depends on.                         *)
Idle(b, t) ==
  /\ IsBoard(t) /\ t.cpu = b.cpu /\ Patterns(t) = Patterns(b) /\ Registers(t) = Registers(b)
(* A step that moves no window at all.                                     *)
Still(b, t) == Idle(b, t) /\ t.ppu = b.ppu

(* Moving the four windows of the name tables.                             *)
LEMMA NamesMove ==
  ASSUME NEW b, IsBoard(b), NEW p, p = [k \in 0..3 |-> p[k]]
  PROVE  Idle(b, PpuWin(b, 8, p)) /\ Names(PpuWin(b, 8, p)) = p
<1> DEFINE q == [w \in 0..11 |-> IF w - 8 \in DOMAIN p THEN p[w - 8] ELSE b.ppu[w]]
           t == PpuWin(b, 8, p)
<1>1. DOMAIN p = 0..3
  OBVIOUS
<1>2. /\ q = [w \in 0..11 |-> q[w]]
      /\ \A w \in 0..7 : q[w] = b.ppu[w]
      /\ \A w \in 0..3 : q[w + 8] = p[w]
  BY <1>1
<1>3. t = [b EXCEPT !.ppu = q]
  BY DEF PpuWin
<1> HIDE DEF t, q
<1>4. DOMAIN t = DOMAIN b /\ t.ppu = q
      /\ \A f \in {"rom", "vrom", "hmir", "reg", "bank", "cpu"} : t[f] = b[f]
  BY <1>3 DEF IsBoard
<1>5. Registers(t) = Registers(b) /\ t.cpu = b.cpu
  BY <1>4 DEF Registers
<1>6. Patterns(t) = Patterns(b) /\ Names(t) = p
  BY <1>2, <1>4 DEF Patterns, Names
<1>7. IsBoard(t)
  BY <1>2, <1>4 DEF IsBoard
<1>8. QED
  BY <1>5, <1>6, <1>7 DEF t, Idle

(* The fields of the interrupt unit and the window of cartridge RAM.       *)
LEMMA FieldsStill ==
  ASSUME NEW b, IsBoard(b), NEW v
  PROVE  /\ Still(b, [b EXCEPT !.irq = v]) /\ Still(b, [b EXCEPT !.sram = v])
         /\ Still(b, [b EXCEPT !.cnt = v]) /\ Still(b, [b EXCEPT !.latch = v])
         /\ Still(b, [b EXCEPT !.enable = v]) /\ Still(b, [b EXCEPT !.req = v])
         /\ Still(b, [b EXCEPT !.present = v]) /\ Still(b, [b EXCEPT !.vbl = v])
<1>1. ASSUME NEW f, f \notin {"rom", "vrom", "hmir", "reg", "bank", "cpu", "ppu"}
      PROVE  Still(b, [b EXCEPT ![f] = v])
  <2> DEFINE t == [b EXCEPT ![f] = v]
  <2>1. /\ DOMAIN t = DOMAIN b
        /\ \A g \in {"rom", "vrom", "hmir", "reg", "bank", "cpu", "ppu"} : t[g] = b[g]
    BY <1>1 DEF IsBoard
  <2> HIDE DEF t
  <2>2. Registers(t) = Registers(b) /\ t.cpu = b.cpu /\ t.ppu = b.ppu
    BY <2>1 DEF Registers
  <2>3. IsBoard(t)
    BY <2>1 DEF IsBoard
  <2>4. Still(b, t)
    BY <2>2, <2>3 DEF Still, Idle, Patterns
  <2>5. QED
    BY <2>4 DEF t
<1>2. QED
  BY <1>1

(* One such step after another.                                            *)
LEMMA StillStill ==
  /\ \A b : IsBoard(b) => Still(b, b)
  /\ \A b, mid, t : Still(b, mid) /\ Still(mid, t) => Still(b, t)
  /\ \A b, mid, t : Idle(b, mid) /\ Idle(mid, t) => Idle(b, t)
  /\ \A b, t : Still(b, t) => Idle(b, t)
BY DEF Still, Idle

-----------------------------------------------------------------------------
(* The boards that are an MMC3 or a clone of it.                           *)
Mmc3Boards == {4, 44, 47, 74, 95, 112, 114, 115, 116, 118, 119}

(* The pages the registers call for in the CPU's windows and in the        *)
(* pattern windows, and when the board's function moves the windows.       *)
Map51Page(b, w) ==
  LET high == CASE b.reg[0] = 0 -> 12 [] b.reg[0] = 2 -> 14 [] OTHER -> 0
  IN  Or(b.reg[1], Or(IF w < 2 THEN (IF b.reg[0] = 2 THEN 2 ELSE 0) ELSE high, w))
(* The page in window w of the CPU: the MMC3 boards from their bank        *)
(* registers and the mode bit of reg[0], the others as their Set_CPU_Banks *)
(* computes it.                                                            *)
CpuPage(no, b, w) ==
  CASE no = 1 -> 32 * b.reg[5] + (b.bank[w + 1] % 32)
    [] no \in {44, 47} -> 16 * b.bank[8] + Mmc3PrgPage(b, w, 14)
    [] no = 46 -> 8 * b.reg[0] + 4 * b.reg[2] + w
    [] no = 51 -> Map51Page(b, w)
    [] no = 115 /\ On(b.bank[8], 7) -> 2 * (b.bank[8] % 16) + w
    [] no = 191 -> 4 * b.bank[5] + w
    [] OTHER -> Mmc3PrgPage(b, w, Last(b, 1))
(* The four windows of the CPU.                                            *)
CpuPages(no, b) == [w \in 0..3 |-> Rom(CpuPage(no, b, w) % RomPages(b))]
(* The boards whose registers call for windows of the CPU.                 *)
MovesCpu(no) == no \in Mmc3Boards \cup {1, 46, 51, 191}

(* The page in pattern window w of board 109.                              *)
Map109Page(b, w) ==
  CASE w = 0 -> b.bank[0] % ChrPages(b)
    [] w \in {1, 2} -> Or(b.bank[w], 8 * Bit(b.reg[2], w - 1)) % ChrPages(b)
    [] w = 3 -> Or(b.bank[3], Or(8 * Bit(b.reg[2], 2), 16 * b.reg[1])) % ChrPages(b)
    [] OTHER -> ChrPages(b) - 8 + w
(* The page in pattern window w of board 119, in ROM or in RAM.            *)
Map119Page(b, w) ==
  LET p == Mmc3ChrPage(b, w)
  IN  IF On(p, 6) THEN CRam(p % 8)
      ELSE VRom(p % (IF On(b.reg[0], 7) /\ w < 4 THEN RomPages(b) ELSE ChrPages(b)))
(* The page in pattern window w.                                           *)
PatternPage(no, b, w) ==
  CASE no \in {4, 74} /\ b.vrom = 0 -> CRam(w)
    [] no \in {44, 47} -> VRom((128 * b.bank[8] + Mmc3ChrPage(b, w)) % ChrPages(b))
    [] no = 46 -> VRom((64 * b.reg[1] + 8 * b.reg[3] + w) % ChrPages(b))
    [] no = 96 -> IF w < 4 THEN CRam(4 * (4 * b.reg[0] + b.reg[1]) + w)
                  ELSE CRam(4 * (4 * b.reg[0] + 3) + (w - 4))
    [] no = 109 -> VRom(Map109Page(b, w))
    [] no = 115 -> VRom((256 * b.bank[9] + Mmc3ChrPage(b, w)) % ChrPages(b))
    [] no = 119 -> Map119Page(b, w)
    [] no = 135 -> VRom((2 * (((w \div 2) % 2) + 2 * b.bank[w \div 2] + 16 * b.bank[4]) + (w % 2))
                          % ChrPages(b))
    [] no = 191 -> VRom((4 * (8 * b.bank[4] + b.bank[w \div 2]) + (w % 4)) % ChrPages(b))
    [] OTHER -> VRom(Mmc3ChrPage(b, w) % ChrPages(b))
(* The eight pattern windows.                                              *)
PatternPages(no, b) == [w \in 0..7 |-> PatternPage(no, b, w)]
(* When the registers call for pattern windows: most boards leave them     *)
(* alone without pattern ROM.                                              *)
MovesPpu(no, b) ==
  \/ no \in {4, 46, 74, 96, 119, 135}
  \/ no \in Mmc3Boards \cup {109, 191} /\ b.vrom # 0

(* Moving the windows of the CPU to their pages.                           *)
SetCpu(no, b) == CpuWin(b, 0, CpuPages(no, b))
(* Moving the pattern windows to theirs.                                   *)
SetPpu(no, b) == IF MovesPpu(no, b) THEN InfoNES_SetupChr(PpuWin(b, 0, PatternPages(no, b))) ELSE b

(* The select register is a number: the data port takes reg[0] % 8.        *)
Selects(no, b) == no \in Mmc3Boards \cup {109, 135, 191} => b.reg[0] \in Nat
(* The CPU's windows show the pages the registers call for.                *)
CpuFollows(no, b) == MovesCpu(no) => b.cpu = CpuPages(no, b)
(* The pattern windows do.                                                 *)
PpuFollows(no, b) == MovesPpu(no, b) => Patterns(b) = PatternPages(no, b)
(* Both do.                                                                *)
Follows(no, b) == IsBoard(b) /\ Selects(no, b) /\ CpuFollows(no, b) /\ PpuFollows(no, b)

(* The pages depend on the registers only.                                 *)
LEMMA PagesByRegisters ==
  ASSUME NEW no, NEW b, NEW t, Registers(t) = Registers(b)
  PROVE  /\ CpuPages(no, t) = CpuPages(no, b) /\ PatternPages(no, t) = PatternPages(no, b)
         /\ MovesPpu(no, t) <=> MovesPpu(no, b)
         /\ Selects(no, t) <=> Selects(no, b)
<1>1. t.rom = b.rom /\ t.vrom = b.vrom /\ t.reg = b.reg /\ t.bank = b.bank
  BY DEF Registers
<1>2. MovesPpu(no, t) <=> MovesPpu(no, b)
  BY <1>1 DEF MovesPpu
<1>3. Selects(no, t) <=> Selects(no, b)
  BY <1>1 DEF Selects
<1>4. RomPages(t) = RomPages(b) /\ ChrPages(t) = ChrPages(b)
  BY <1>1 DEF RomPages, ChrPages
<1>5. \A w, f : Mmc3PrgPage(t, w, f) = Mmc3PrgPage(b, w, f)
  BY <1>1 DEF Mmc3PrgPage
<1>6. \A w : Mmc3ChrPage(t, w) = Mmc3ChrPage(b, w)
  BY <1>1 DEF Mmc3ChrPage
<1>7. Last(t, 1) = Last(b, 1)
  BY <1>4 DEF Last
<1>8. \A w : Map51Page(t, w) = Map51Page(b, w)
  BY <1>1 DEF Map51Page
<1>9. \A w : Map109Page(t, w) = Map109Page(b, w)
  BY <1>1, <1>4, Zenon DEF Map109Page
<1>10. \A w : Map119Page(t, w) = Map119Page(b, w)
  BY <1>1, <1>4, <1>6, SMT DEF Map119Page
<1>11. \A w : CpuPage(no, t, w) = CpuPage(no, b, w)
  BY <1>1, <1>5, <1>7, <1>8, ZenonT(30) DEF CpuPage
<1>12. \A w : PatternPage(no, t, w) = PatternPage(no, b, w)
  BY <1>1, <1>4, <1>6, <1>9, <1>10, ZenonT(30) DEF PatternPage
<1>13. CpuPages(no, t) = CpuPages(no, b) /\ PatternPages(no, t) = PatternPages(no, b)
  BY <1>4, <1>11, <1>12, Zenon DEF CpuPages, PatternPages
<1>14. QED
  BY <1>2, <1>3, <1>13

(* Pages are given for every window.                                       *)
LEMMA PagesAreWindows ==
  ASSUME NEW no, NEW b
  PROVE  /\ CpuPages(no, b) = [w \in 0..3 |-> CpuPages(no, b)[w]]
         /\ PatternPages(no, b) = [w \in 0..7 |-> PatternPages(no, b)[w]]
<1> DEFINE c[w \in 0..3] == Rom(CpuPage(no, b, w) % RomPages(b))
           p[w \in 0..7] == PatternPage(no, b, w)
<1>1. c = [w \in 0..3 |-> c[w]] /\ p = [w \in 0..7 |-> p[w]]
  OBVIOUS
<1>2. CpuPages(no, b) = c /\ PatternPages(no, b) = p
  BY DEF CpuPages, PatternPages
<1>3. QED
  BY <1>1, <1>2

(* What SetCpu moves.                                                      *)
LEMMA SetCpuIs ==
  ASSUME NEW no, NEW b, IsBoard(b)
  PROVE  /\ IsBoard(SetCpu(no, b)) /\ SetCpu(no, b).cpu = CpuPages(no, b)
         /\ SetCpu(no, b).ppu = b.ppu /\ Registers(SetCpu(no, b)) = Registers(b)
BY PagesAreWindows, CpuWinIs DEF SetCpu

(* What SetPpu moves.                                                      *)
LEMMA SetPpuIs ==
  ASSUME NEW no, NEW b, IsBoard(b)
  PROVE  /\ IsBoard(SetPpu(no, b)) /\ SetPpu(no, b).cpu = b.cpu
         /\ Patterns(SetPpu(no, b)) = IF MovesPpu(no, b) THEN PatternPages(no, b) ELSE Patterns(b)
         /\ Names(SetPpu(no, b)) = Names(b) /\ Registers(SetPpu(no, b)) = Registers(b)
BY PagesAreWindows, PatternsAre DEF SetPpu

(* Moving the CPU's windows when the pattern windows follow.               *)
LEMMA CpuThenFollows ==
  ASSUME NEW no, NEW b, IsBoard(b), Selects(no, b), PpuFollows(no, b)
  PROVE  Follows(no, SetCpu(no, b)) /\ Names(SetCpu(no, b)) = Names(b)
<1> DEFINE t == SetCpu(no, b)
<1>1. IsBoard(t) /\ t.cpu = CpuPages(no, b) /\ t.ppu = b.ppu /\ Registers(t) = Registers(b)
  BY SetCpuIs
<1> HIDE DEF t
<1>2. Patterns(t) = Patterns(b) /\ Names(t) = Names(b)
  BY <1>1 DEF Patterns, Names
<1>3. Follows(no, t)
  BY <1>1, <1>2, PagesByRegisters DEF Follows, CpuFollows, PpuFollows
<1>4. QED
  BY <1>2, <1>3 DEF t

(* Moving the pattern windows when the CPU's follow.                       *)
LEMMA PpuThenFollows ==
  ASSUME NEW no, NEW b, IsBoard(b), Selects(no, b), CpuFollows(no, b)
  PROVE  Follows(no, SetPpu(no, b)) /\ Names(SetPpu(no, b)) = Names(b)
<1> DEFINE t == SetPpu(no, b)
<1>1. /\ IsBoard(t) /\ t.cpu = b.cpu /\ Registers(t) = Registers(b)
      /\ Patterns(t) = IF MovesPpu(no, b) THEN PatternPages(no, b) ELSE Patterns(b)
      /\ Names(t) = Names(b)
  BY SetPpuIs
<1> HIDE DEF t
<1>2. Follows(no, t)
  BY <1>1, PagesByRegisters DEF Follows, CpuFollows, PpuFollows
<1>3. QED
  BY <1>1, <1>2 DEF t

(* Moving both, in either order, whatever the windows were.                *)
LEMMA BothFollow ==
  ASSUME NEW no, NEW b, IsBoard(b), Selects(no, b)
  PROVE  /\ Follows(no, SetCpu(no, SetPpu(no, b))) /\ Names(SetCpu(no, SetPpu(no, b))) = Names(b)
         /\ Follows(no, SetPpu(no, SetCpu(no, b))) /\ Names(SetPpu(no, SetCpu(no, b))) = Names(b)
<1> DEFINE mid == SetCpu(no, b)
           t == SetPpu(no, b)
<1>1. IsBoard(mid) /\ mid.cpu = CpuPages(no, b) /\ mid.ppu = b.ppu /\ Registers(mid) = Registers(b)
  BY SetCpuIs
<1>2. /\ IsBoard(t) /\ Registers(t) = Registers(b) /\ Names(t) = Names(b)
      /\ Patterns(t) = IF MovesPpu(no, b) THEN PatternPages(no, b) ELSE Patterns(b)
  BY SetPpuIs
<1> HIDE DEF mid, t
<1>3. Selects(no, mid) /\ CpuFollows(no, mid) /\ Names(mid) = Names(b)
  BY <1>1, PagesByRegisters DEF CpuFollows, Names
<1>4. Selects(no, t) /\ PpuFollows(no, t)
  BY <1>2, PagesByRegisters DEF PpuFollows
<1>5. Follows(no, SetPpu(no, mid)) /\ Names(SetPpu(no, mid)) = Names(b)
  BY <1>1, <1>3, PpuThenFollows
<1>6. Follows(no, SetCpu(no, t)) /\ Names(SetCpu(no, t)) = Names(b)
  BY <1>2, <1>4, CpuThenFollows
<1>7. QED
  BY <1>5, <1>6 DEF mid, t

(* Moving name tables disturbs neither.                                    *)
LEMMA IdleFollows ==
  ASSUME NEW no, NEW b, NEW t, Follows(no, b), Idle(b, t)
  PROVE  Follows(no, t)
BY PagesByRegisters DEF Follows, Idle, CpuFollows, PpuFollows

-----------------------------------------------------------------------------
(* The MMC3's own functions move the windows to those pages.               *)
LEMMA Mmc3Sets ==
  ASSUME NEW b, IsBoard(b)
  PROVE  /\ \A no \in {4, 74, 95, 112, 114, 116, 118, 119} : Mmc3Prg(b) = SetCpu(no, b)
         /\ \A no \in {95, 112, 114, 116, 118} : Mmc3Chr(b) = SetPpu(no, b)
         /\ \A no \in {4, 74} : /\ Map4_Set_PPU_Banks(b) = SetPpu(no, b)
                                /\ Mmc3Chr(b) = IF b.vrom = 0 THEN b ELSE SetPpu(no, b)
<1>1. ASSUME NEW no \in {4, 74, 95, 112, 114, 116, 118, 119}
      PROVE  Mmc3Prg(b) = SetCpu(no, b)
  <2>1. \A w : CpuPage(no, b, w) = Mmc3PrgPage(b, w, Last(b, 1))
    BY DEF CpuPage
  <2>2. QED
    BY <2>1, Zenon DEF Mmc3Prg, SetCpu, CpuPages
<1>2. ASSUME NEW no \in {4, 74, 95, 112, 114, 116, 118}, b.vrom # 0
      PROVE  Mmc3Chr(b) = SetPpu(no, b)
  <2>1. \A w : PatternPage(no, b, w) = VRom(Mmc3ChrPage(b, w) % ChrPages(b))
    BY <1>2 DEF PatternPage
  <2>2. MovesPpu(no, b)
    BY <1>2 DEF MovesPpu, Mmc3Boards
  <2>3. PatternPages(no, b) = [w \in 0..7 |-> VRom(Mmc3ChrPage(b, w) % ChrPages(b))]
    BY <2>1, Zenon DEF PatternPages
  <2>4. QED
    BY <1>2, <2>2, <2>3 DEF Mmc3Chr, SetPpu
<1>3. ASSUME NEW no \in {95, 112, 114, 116, 118}, b.vrom = 0
      PROVE  Mmc3Chr(b) = SetPpu(no, b)
  <2>1. ~MovesPpu(no, b)
    BY <1>3 DEF MovesPpu
  <2>2. QED
    BY <1>3, <2>1 DEF Mmc3Chr, SetPpu
<1>4. ASSUME NEW no \in {4, 74}, b.vrom = 0
      PROVE  Mmc3Chr(b) = b /\ Map4_Set_PPU_Banks(b) = SetPpu(no, b)
  <2>1. \A w \in 0..7 : PatternPage(no, b, w) = CRam(0 + w)
    BY <1>4 DEF PatternPage
  <2>2. PatternPages(no, b) = [k \in 0..(8 - 1) |-> CRam(0 + k)]
    BY <2>1 DEF PatternPages
  <2>3. MovesPpu(no, b)
    BY DEF MovesPpu
  <2>4. Map4_Set_PPU_Banks(b) = ChrCRam(b, 0, 8, 0)
    BY <1>4 DEF Map4_Set_PPU_Banks
  <2>5. Map4_Set_PPU_Banks(b) = SetPpu(no, b)
    BY <2>2, <2>3, <2>4, Zenon DEF ChrCRam, SetPpu
  <2>6. QED
    BY <1>4, <2>5 DEF Mmc3Chr
<1>5. b.vrom # 0 => b.vrom > 0
  BY DEF IsBoard
<1>6. QED
  BY <1>1, <1>2, <1>3, <1>4, <1>5 DEF Map4_Set_PPU_Banks

(* So do those of the clones that have functions of their own.             *)
LEMMA OwnSets ==
  ASSUME NEW b, IsBoard(b)
  PROVE  /\ \A no \in {44, 47} : /\ Map44_Set_CPU_Banks(b) = SetCpu(no, b)
                                 /\ Map44_Set_PPU_Banks(b) = SetPpu(no, b)
         /\ Map115_Set_CPU_Banks(b) = SetCpu(115, b) /\ Map115_Set_PPU_Banks(b) = SetPpu(115, b)
         /\ Map119_Set_CPU_Banks(b) = SetCpu(119, b) /\ Map119_Set_PPU_Banks(b) = SetPpu(119, b)
<1>1. ASSUME NEW no \in {44, 47}
      PROVE  /\ Map44_Set_CPU_Banks(b) = SetCpu(no, b)
             /\ Map44_Set_PPU_Banks(b) = SetPpu(no, b)
  <2>1. \A w : CpuPage(no, b, w) = 16 * b.bank[8] + Mmc3PrgPage(b, w, 14)
    BY DEF CpuPage
  <2>2. \A w : PatternPage(no, b, w) = VRom((128 * b.bank[8] + Mmc3ChrPage(b, w)) % ChrPages(b))
    BY DEF PatternPage
  <2>3. MovesPpu(no, b) <=> b.vrom # 0
    BY DEF MovesPpu, Mmc3Boards
  <2>4. Map44_Set_CPU_Banks(b) = SetCpu(no, b)
    BY <2>1, Zenon DEF Map44_Set_CPU_Banks, SetCpu, CpuPages
  <2>5. Map44_Set_PPU_Banks(b) = SetPpu(no, b)
    BY <2>2, <2>3, Zenon DEF Map44_Set_PPU_Banks, SetPpu, PatternPages
  <2>6. QED
    BY <2>4, <2>5
<1>2. Map115_Set_CPU_Banks(b) = SetCpu(115, b)
  <2>1. CASE On(b.bank[8], 7)
    <3>1. \A w : CpuPage(115, b, w) = 2 * (b.bank[8] % 16) + w
      BY <2>1 DEF CpuPage
    <3>2. CpuPages(115, b) = [k \in 0..(4 - 1) |-> Rom((2 * (b.bank[8] % 16) + k) % RomPages(b))]
      BY <3>1 DEF CpuPages
    <3>3. QED
      BY <2>1, <3>2, Zenon DEF Map115_Set_CPU_Banks, PrgMod, SetCpu
  <2>2. CASE ~On(b.bank[8], 7)
    <3>1. \A w : CpuPage(115, b, w) = Mmc3PrgPage(b, w, Last(b, 1))
      BY <2>2 DEF CpuPage
    <3>2. QED
      BY <2>2, <3>1, Zenon DEF Map115_Set_CPU_Banks, Mmc3Prg, SetCpu, CpuPages
  <2>3. QED
    BY <2>1, <2>2
<1>3. Map115_Set_PPU_Banks(b) = SetPpu(115, b)
  <2>1. \A w : PatternPage(115, b, w) = VRom((256 * b.bank[9] + Mmc3ChrPage(b, w)) % ChrPages(b))
    BY DEF PatternPage
  <2>2. MovesPpu(115, b) <=> b.vrom # 0
    BY DEF MovesPpu, Mmc3Boards
  <2>3. QED
    BY <2>1, <2>2, Zenon DEF Map115_Set_PPU_Banks, SetPpu, PatternPages
<1>4. Map119_Set_CPU_Banks(b) = SetCpu(119, b)
  BY Mmc3Sets DEF Map119_Set_CPU_Banks
<1>5. Map119_Set_PPU_Banks(b) = SetPpu(119, b)
  <2>1. \A w : PatternPage(119, b, w) = Map119Page(b, w)
    BY DEF PatternPage
  <2>2. MovesPpu(119, b)
    BY DEF MovesPpu
  <2>3. PatternPages(119, b) = [w \in 0..7 |-> Map119Page(b, w)]
    BY <2>1, Zenon DEF PatternPages
  <2>4. Map119_Set_PPU_Banks(b) = InfoNES_SetupChr(PpuWin(b, 0, [w \in 0..7 |-> Map119Page(b, w)]))
    BY DEF Map119_Set_PPU_Banks, Map119Page
  <2>5. QED
    BY <2>2, <2>3, <2>4 DEF SetPpu
<1>6. QED
  BY <1>1, <1>2, <1>3, <1>4, <1>5

(* The bank registers: those of the CPU's windows, and those of the        *)
(* pattern windows.                                                        *)

(* Writing one bank register.                                              *)
WithBank(b, k, v) == [b EXCEPT !.bank[k] = v]
(* Writing one register.                                                   *)
WithReg(b, k, v) == [b EXCEPT !.reg[k] = v]

(* Writing a bank register moves no window.                                *)
LEMMA BankMoves ==
  ASSUME NEW b, IsBoard(b), NEW k \in 0..11, NEW v
  PROVE  LET t == WithBank(b, k, v)
         IN  /\ IsBoard(t) /\ t.cpu = b.cpu /\ t.ppu = b.ppu /\ t.reg = b.reg
             /\ t.rom = b.rom /\ t.vrom = b.vrom /\ t.hmir = b.hmir
             /\ t.bank[k] = v /\ \A j \in 0..11 \ {k} : t.bank[j] = b.bank[j]
<1> DEFINE t == WithBank(b, k, v)
           n == [b.bank EXCEPT ![k] = v]
<1>1. DOMAIN n = 0..11 /\ n[k] = v /\ \A j \in 0..11 \ {k} : n[j] = b.bank[j]
  BY DEF IsBoard
<1>2. t = [b EXCEPT !.bank = n]
  BY DEF IsBoard, WithBank
<1> HIDE DEF t, n
<1>3. /\ DOMAIN t = DOMAIN b /\ t.bank = n
      /\ \A f \in {"rom", "vrom", "hmir", "reg", "cpu", "ppu"} : t[f] = b[f]
  BY <1>2 DEF IsBoard
<1>4. IsBoard(t)
  BY <1>1, <1>3 DEF IsBoard
<1>5. QED
  BY <1>1, <1>3, <1>4 DEF t

(* The bank registers the CPU's windows may show.                          *)
CpuBank(no, k) ==
  \/ no \in Mmc3Boards /\ k \in 6..7
  \/ no \in {44, 47, 115} /\ k = 8
  \/ no = 1 /\ k \in 1..4
  \/ no = 191 /\ k = 5
(* The bank registers the pattern windows may show.                        *)
PpuBank(no, k) ==
  \/ no \in Mmc3Boards /\ k \in 0..5
  \/ no \in {44, 47} /\ k = 8
  \/ no = 115 /\ k = 9
  \/ no \in {109, 135, 191} /\ k \in 0..4

(* The pattern pages of an MMC3 come from its first six bank registers.    *)
LEMMA ChrPageBanks ==
  ASSUME NEW b, NEW t, t.reg = b.reg, \A j \in 0..5 : t.bank[j] = b.bank[j]
  PROVE  \A w \in 0..7 : Mmc3ChrPage(t, w) = Mmc3ChrPage(b, w)
<1> SUFFICES ASSUME NEW w \in 0..7 PROVE Mmc3ChrPage(t, w) = Mmc3ChrPage(b, w)
  OBVIOUS
<1> DEFINE v == IF On(b.reg[0], 7) THEN (w + 4) % 8 ELSE w
<1>1. v \in 0..7
  OBVIOUS
<1>2. /\ Mmc3ChrPage(b, w) = IF v < 4 THEN b.bank[v \div 2] + (v % 2) ELSE b.bank[v - 2]
      /\ Mmc3ChrPage(t, w) = IF v < 4 THEN t.bank[v \div 2] + (v % 2) ELSE t.bank[v - 2]
  BY DEF Mmc3ChrPage
<1> HIDE DEF v
<1>3. v < 4 => v \div 2 \in 0..5
  BY <1>1
<1>4. ~(v < 4) => v - 2 \in 0..5
  BY <1>1
<1>5. QED
  BY <1>2, <1>3, <1>4

(* A bank register that no window of the CPU shows.                        *)
LEMMA CpuPagesKept ==
  ASSUME NEW no, NEW b, IsBoard(b), NEW k \in 0..11, ~CpuBank(no, k), MovesCpu(no), NEW v
  PROVE  CpuPages(no, WithBank(b, k, v)) = CpuPages(no, b)
<1> DEFINE t == WithBank(b, k, v)
<1>1. /\ t.reg = b.reg /\ t.rom = b.rom
      /\ \A j \in 0..11 \ {k} : t.bank[j] = b.bank[j]
  BY BankMoves
<1> HIDE DEF t
<1>2. RomPages(t) = RomPages(b) /\ Last(t, 1) = Last(b, 1)
  BY <1>1 DEF RomPages, Last
<1>3. ASSUME no \in Mmc3Boards
      PROVE  \A w, f : Mmc3PrgPage(t, w, f) = Mmc3PrgPage(b, w, f)
  <2>1. t.bank[6] = b.bank[6] /\ t.bank[7] = b.bank[7]
    BY <1>1, <1>3 DEF CpuBank
  <2>2. QED
    BY <1>1, <2>1 DEF Mmc3PrgPage
<1>4. no \in {44, 47, 115} => t.bank[8] = b.bank[8]
  BY <1>1 DEF CpuBank
<1>5. no = 1 => \A w \in 0..3 : t.bank[w + 1] = b.bank[w + 1]
  BY <1>1 DEF CpuBank
<1>6. no = 191 => t.bank[5] = b.bank[5]
  BY <1>1 DEF CpuBank
<1>7. no = 51 => \A w : Map51Page(t, w) = Map51Page(b, w)
  BY <1>1 DEF Map51Page
<1>8. ASSUME NEW w \in 0..3
      PROVE  CpuPage(no, t, w) = CpuPage(no, b, w)
  <2>1. CASE no \in Mmc3Boards
    BY <1>2, <1>3, <1>4, <2>1 DEF CpuPage, Mmc3Boards
  <2>2. CASE no \notin Mmc3Boards
    BY <1>1, <1>5, <1>6, <1>7, <2>2 DEF CpuPage, MovesCpu
  <2>3. QED
    BY <2>1, <2>2
<1>9. CpuPages(no, t) = CpuPages(no, b)
  BY <1>2, <1>8 DEF CpuPages
<1>10. QED
  BY <1>9 DEF t

(* A bank register that no pattern window shows.                           *)
LEMMA PatternPagesKept ==
  ASSUME NEW no, NEW b, IsBoard(b), NEW k \in 0..11, ~PpuBank(no, k), MovesPpu(no, b), NEW v
  PROVE  PatternPages(no, WithBank(b, k, v)) = PatternPages(no, b)
<1> DEFINE t == WithBank(b, k, v)
<1>1. /\ t.reg = b.reg /\ t.rom = b.rom /\ t.vrom = b.vrom
      /\ \A j \in 0..11 \ {k} : t.bank[j] = b.bank[j]
  <2>1. t.reg = b.reg /\ t.rom = b.rom /\ t.vrom = b.vrom
    BY BankMoves
  <2>2. \A j \in 0..11 \ {k} : t.bank[j] = b.bank[j]
    BY BankMoves
  <2>3. QED
    BY <2>1, <2>2
<1> HIDE DEF t
<1>2. RomPages(t) = RomPages(b) /\ ChrPages(t) = ChrPages(b)
  BY <1>1 DEF RomPages, ChrPages
<1>3. no \in Mmc3Boards => \A w \in 0..7 : Mmc3ChrPage(t, w) = Mmc3ChrPage(b, w)
  BY <1>1, ChrPageBanks DEF PpuBank
<1>4. no \in {44, 47} => t.bank[8] = b.bank[8]
  BY <1>1 DEF PpuBank
<1>5. no = 115 => t.bank[9] = b.bank[9]
  BY <1>1 DEF PpuBank
<1>6. no \in {109, 135, 191} => \A j \in 0..4 : t.bank[j] = b.bank[j]
  BY <1>1 DEF PpuBank
<1>7. \A w \in 0..7 : w \div 2 \in 0..4
  OBVIOUS
<1>8. ASSUME NEW w \in 0..7
      PROVE  PatternPage(no, t, w) = PatternPage(no, b, w)
  <2>1. CASE no = 119
    <3>1. Map119Page(t, w) = Map119Page(b, w)
      BY <1>1, <1>2, <1>3, <2>1 DEF Map119Page, Mmc3Boards
    <3>2. QED
      BY <2>1, <3>1 DEF PatternPage
  <2>2. CASE no \in Mmc3Boards /\ no # 119
    BY <1>1, <1>2, <1>3, <1>4, <1>5, <2>2 DEF PatternPage, Mmc3Boards
  <2>3. CASE no = 109
    <3>1. Map109Page(t, w) = Map109Page(b, w)
      BY <1>1, <1>2, <1>6, <2>3 DEF Map109Page
    <3>2. QED
      BY <2>3, <3>1 DEF PatternPage
  <2>4. CASE no \in {135, 191}
    BY <1>2, <1>6, <1>7, <2>4 DEF PatternPage
  <2>5. CASE no \in {46, 96}
    BY <1>1, <1>2, <2>5 DEF PatternPage
  <2>6. QED
    BY <2>1, <2>2, <2>3, <2>4, <2>5 DEF MovesPpu, Mmc3Boards
<1>9. PatternPages(no, t) = PatternPages(no, b)
  BY <1>8 DEF PatternPages
<1>10. QED
  BY <1>9 DEF t

-----------------------------------------------------------------------------
(* A step that keeps the registers and the windows.                        *)
LEMMA FieldsSame ==
  ASSUME NEW b, IsBoard(b), NEW t, DOMAIN t = DOMAIN b,
         \A f \in {"rom", "vrom", "hmir", "reg", "bank", "cpu", "ppu"} : t[f] = b[f]
  PROVE  Still(b, t)
<1>1. Registers(t) = Registers(b) /\ t.cpu = b.cpu /\ t.ppu = b.ppu
  BY DEF Registers
<1>2. IsBoard(t)
  BY DEF IsBoard
<1>3. QED
  BY <1>1, <1>2 DEF Still, Idle, Patterns

(* A step that moves no window keeps both.                                 *)
LEMMA StillFollows ==
  ASSUME NEW no, NEW b, NEW t, Follows(no, b), Still(b, t)
  PROVE  Follows(no, t)
BY IdleFollows DEF Still

(* InfoNES_Mirroring moves name tables only.                               *)
LEMMA MirrorIdle ==
  ASSUME NEW b, IsBoard(b), NEW type
  PROVE  /\ Idle(b, InfoNES_Mirroring(b, type))
         /\ Names(InfoNES_Mirroring(b, type))
              = [k \in 0..3 |-> VRam(PPU_MirrorTable[type + 1][k + 1])]
<1> DEFINE p[k \in 0..3] == VRam(PPU_MirrorTable[type + 1][k + 1])
<1>1. InfoNES_Mirroring(b, type) = PpuWin(b, 8, p)
  BY DEF InfoNES_Mirroring
<1>2. p = [k \in 0..3 |-> p[k]]
  OBVIOUS
<1> HIDE DEF p
<1>3. Idle(b, PpuWin(b, 8, p)) /\ Names(PpuWin(b, 8, p)) = p
  BY <1>2, NamesMove
<1>4. QED
  BY <1>1, <1>3 DEF p

(* So the mirroring registers keep both.                                   *)
LEMMA MirrorFollows ==
  ASSUME NEW no, NEW b, Follows(no, b)
  PROVE  /\ \A type : Follows(no, InfoNES_Mirroring(b, type))
         /\ \A c, x, y : Follows(no, MirrorIf(b, c, x, y))
         /\ \A d : Follows(no, Mmc3Mirror(b, d))
<1>1. \A type : Follows(no, InfoNES_Mirroring(b, type))
  BY MirrorIdle, IdleFollows DEF Follows
<1>2. \A c, x, y : Follows(no, MirrorIf(b, c, x, y))
  BY <1>1 DEF MirrorIf
<1>3. QED
  BY <1>1, <1>2 DEF Mmc3Mirror

(* After a bank register of the CPU, moving the CPU's windows is enough.   *)
LEMMA CpuBankFollows ==
  ASSUME NEW no, NEW b, Follows(no, b), NEW k \in 0..11, ~PpuBank(no, k), NEW v
  PROVE  Follows(no, SetCpu(no, WithBank(b, k, v)))
<1> DEFINE t == WithBank(b, k, v)
<1>1. IsBoard(t) /\ t.ppu = b.ppu /\ t.reg = b.reg /\ t.vrom = b.vrom
  BY BankMoves DEF Follows
<1>2. MovesPpu(no, b) => PatternPages(no, t) = PatternPages(no, b)
  BY PatternPagesKept DEF Follows
<1> HIDE DEF t
<1>3. Selects(no, t) /\ PpuFollows(no, t)
  BY <1>1, <1>2 DEF Follows, Selects, PpuFollows, MovesPpu, Patterns
<1>4. QED
  BY <1>1, <1>3, CpuThenFollows DEF t

(* After a bank register of the patterns, moving the pattern windows is.   *)
LEMMA PpuBankFollows ==
  ASSUME NEW no, NEW b, Follows(no, b), NEW k \in 0..11, ~CpuBank(no, k), NEW v
  PROVE  Follows(no, SetPpu(no, WithBank(b, k, v)))
<1> DEFINE t == WithBank(b, k, v)
<1>1. IsBoard(t) /\ t.cpu = b.cpu /\ t.reg = b.reg
  BY BankMoves DEF Follows
<1>2. MovesCpu(no) => CpuPages(no, t) = CpuPages(no, b)
  BY CpuPagesKept DEF Follows
<1> HIDE DEF t
<1>3. Selects(no, t) /\ CpuFollows(no, t)
  BY <1>1, <1>2 DEF Follows, Selects, CpuFollows
<1>4. QED
  BY <1>1, <1>3, PpuThenFollows DEF t

(* Writing a register moves no window.                                     *)
LEMMA RegMoves ==
  ASSUME NEW b, IsBoard(b), NEW k \in 0..31, NEW v
  PROVE  LET t == WithReg(b, k, v)
         IN  /\ IsBoard(t) /\ t.cpu = b.cpu /\ t.ppu = b.ppu /\ t.bank = b.bank
             /\ t.rom = b.rom /\ t.vrom = b.vrom /\ t.hmir = b.hmir
             /\ t.reg[k] = v /\ \A j \in 0..31 \ {k} : t.reg[j] = b.reg[j]
<1> DEFINE t == WithReg(b, k, v)
           n == [b.reg EXCEPT ![k] = v]
<1>1. DOMAIN n = 0..31 /\ n[k] = v /\ \A j \in 0..31 \ {k} : n[j] = b.reg[j]
  BY DEF IsBoard
<1>2. t = [b EXCEPT !.reg = n]
  BY DEF IsBoard, WithReg
<1> HIDE DEF t, n
<1>3. /\ DOMAIN t = DOMAIN b /\ t.reg = n
      /\ \A f \in {"rom", "vrom", "hmir", "bank", "cpu", "ppu"} : t[f] = b[f]
  BY <1>2 DEF IsBoard
<1>4. IsBoard(t)
  BY <1>1, <1>3 DEF IsBoard
<1>5. QED
  BY <1>1, <1>3, <1>4 DEF t

(* After the select port, whose bits 6 and 7 swap windows, both are moved. *)
LEMMA SelectFollows ==
  ASSUME NEW no, NEW b, IsBoard(b), NEW d \in Nat
  PROVE  LET t == WithReg(b, 0, d)
         IN  /\ IsBoard(t) /\ Selects(no, t)
             /\ Follows(no, SetCpu(no, SetPpu(no, t))) /\ Follows(no, SetPpu(no, SetCpu(no, t)))
<1> DEFINE t == WithReg(b, 0, d)
<1>1. IsBoard(t) /\ t.reg[0] = d
  BY RegMoves
<1> HIDE DEF t
<1>2. Selects(no, t)
  BY <1>1 DEF Selects
<1>3. QED
  BY <1>1, <1>2, BothFollow DEF t

(* The data port of an MMC3.                                               *)
LEMMA Mmc3DataIs ==
  ASSUME NEW b, IsBoard(b), b.reg[0] \in Nat, NEW d
  PROVE  /\ b.reg[0] % 8 \in 0..7
         /\ \/ Mmc3Data(b, d) = b /\ b.reg[0] % 8 \in 0..5 /\ b.vrom = 0
            \/ \E v : Mmc3Data(b, d) = WithBank(b, b.reg[0] % 8, v)
<1> DEFINE k == b.reg[0] % 8
<1>1. k \in 0..7
  OBVIOUS
<1> HIDE DEF k
<1>2. Mmc3Data(b, d) = IF k < 6 /\ b.vrom = 0 THEN b
                       ELSE [b EXCEPT !.bank[k] = IF k < 2 THEN Hi(d, 2) ELSE d]
  BY DEF Mmc3Data, k
<1>3. CASE k < 6 /\ b.vrom = 0
  BY <1>1, <1>2, <1>3 DEF k
<1>4. CASE ~(k < 6 /\ b.vrom = 0)
  BY <1>1, <1>2, <1>4 DEF k, WithBank
<1>5. QED
  BY <1>3, <1>4

(* The data port of an MMC3 writes the bank register that reg[0] selects,  *)
(* and which windows the handler must move depends on which one it is.     *)
LEMMA Mmc3DataFollows ==
  ASSUME NEW no \in Mmc3Boards, NEW b, Follows(no, b), NEW d
  PROVE  /\ IsBoard(Mmc3Data(b, d)) /\ Mmc3Data(b, d).vrom = b.vrom
         /\ b.reg[0] % 8 > 5 => Follows(no, SetCpu(no, Mmc3Data(b, d)))
         /\ ~(b.reg[0] % 8 > 5) => Follows(no, SetPpu(no, Mmc3Data(b, d)))
<1> DEFINE k == b.reg[0] % 8
<1>1. IsBoard(b) /\ b.reg[0] \in Nat /\ Selects(no, b)
  BY DEF Follows, Selects
<1>2. k \in 0..7
  BY <1>1, Mmc3DataIs
<1>3. CASE Mmc3Data(b, d) = b /\ k \in 0..5
  <2>1. Follows(no, SetPpu(no, b))
    BY PpuThenFollows DEF Follows
  <2>2. QED
    BY <1>1, <1>3, <2>1
<1>4. ASSUME NEW v, Mmc3Data(b, d) = WithBank(b, k, v)
      PROVE  /\ IsBoard(Mmc3Data(b, d)) /\ Mmc3Data(b, d).vrom = b.vrom
             /\ k > 5 => Follows(no, SetCpu(no, Mmc3Data(b, d)))
             /\ ~(k > 5) => Follows(no, SetPpu(no, Mmc3Data(b, d)))
  <2>1. k \in 0..11
    BY <1>2
  <2>2. k > 5 => ~PpuBank(no, k)
    BY <1>2 DEF PpuBank, Mmc3Boards
  <2>3. ~(k > 5) => ~CpuBank(no, k)
    BY <1>2 DEF CpuBank, Mmc3Boards
  <2> HIDE DEF k
  <2>4. IsBoard(Mmc3Data(b, d)) /\ Mmc3Data(b, d).vrom = b.vrom
    BY <1>1, <1>4, <2>1, BankMoves
  <2>5. k > 5 => Follows(no, SetCpu(no, Mmc3Data(b, d)))
    BY <1>4, <2>1, <2>2, CpuBankFollows
  <2>6. ~(k > 5) => Follows(no, SetPpu(no, Mmc3Data(b, d)))
    BY <1>4, <2>1, <2>3, PpuBankFollows
  <2>7. QED
    BY <2>4, <2>5, <2>6
<1>5. QED
  BY <1>1, <1>3, <1>4, Mmc3DataIs

(* The data port of the boards that share the MMC3's handler.              *)
LEMMA Mmc3BankFollows ==
  ASSUME NEW no \in {4, 74, 95, 112, 114, 116, 118}, NEW b, Follows(no, b), NEW d
  PROVE  Follows(no, Mmc3Bank(b, d))
<1>1. no \in Mmc3Boards
  BY DEF Mmc3Boards
<1>2. IsBoard(b) /\ b.reg[0] \in Nat
  BY <1>1 DEF Follows, Selects
<1> DEFINE mid == Mmc3Data(b, d)
<1>3. /\ IsBoard(mid) /\ mid.vrom = b.vrom
      /\ b.reg[0] % 8 > 5 => Follows(no, SetCpu(no, mid))
      /\ ~(b.reg[0] % 8 > 5) => Follows(no, SetPpu(no, mid))
  BY <1>1, Mmc3DataFollows
<1>4. b.vrom = 0 /\ ~(b.reg[0] % 8 > 5) => mid = b
  BY <1>2, Mmc3DataIs DEF Mmc3Data
<1> HIDE DEF mid
<1>5. Mmc3Prg(mid) = SetCpu(no, mid)
  BY <1>3, Mmc3Sets
<1>6. CASE b.reg[0] % 8 > 5
  BY <1>3, <1>5, <1>6 DEF Mmc3Bank, mid
<1>7. CASE ~(b.reg[0] % 8 > 5) /\ b.vrom = 0
  <2>1. Mmc3Chr(b) = b
    BY <1>7 DEF Mmc3Chr
  <2>2. QED
    BY <1>4, <1>7, <2>1 DEF Mmc3Bank, mid
<1>8. CASE ~(b.reg[0] % 8 > 5) /\ b.vrom # 0
  <2>1. Mmc3Chr(mid) = SetPpu(no, mid)
    BY <1>3, <1>8, Mmc3Sets
  <2>2. QED
    BY <1>3, <1>8, <2>1 DEF Mmc3Bank, mid
<1>9. QED
  BY <1>6, <1>7, <1>8

(* The select port of the boards that share it.                            *)
LEMMA Mmc3SelectFollows ==
  ASSUME NEW no \in {95, 112, 114, 116, 118}, NEW b, Follows(no, b), NEW d \in Nat
  PROVE  Follows(no, Mmc3Select(b, d))
<1> DEFINE t == WithReg(b, 0, d)
           mid == SetPpu(no, t)
<1>1. IsBoard(t) /\ Follows(no, SetCpu(no, mid))
  BY SelectFollows DEF Follows
<1>2. Mmc3Select(b, d) = Mmc3Prg(Mmc3Chr(t))
  BY DEF Mmc3Select, WithReg
<1> HIDE DEF t
<1>3. Mmc3Chr(t) = mid /\ IsBoard(mid)
  BY <1>1, Mmc3Sets, SetPpuIs
<1> HIDE DEF mid
<1>4. Mmc3Prg(mid) = SetCpu(no, mid)
  BY <1>3, Mmc3Sets
<1>5. QED
  BY <1>1, <1>2, <1>3, <1>4

(* The interrupt unit moves no window.                                     *)
LEMMA CloneIrqStill ==
  ASSUME NEW b, IsBoard(b), NEW port, NEW d
  PROVE  Still(b, CloneIrq(b, port, d)) /\ Still(b, Map115_Irq(b, port, d))
<1>1. \A v : /\ Still(b, [b EXCEPT !.cnt = v]) /\ Still(b, [b EXCEPT !.latch = v])
             /\ Still(b, [b EXCEPT !.enable = v]) /\ Still(b, b)
  BY FieldsStill, StillStill
<1>2. Still(b, CloneIrq(b, port, d))
  <2> DEFINE t == CloneIrq(b, port, d)
             T == {[b EXCEPT !.cnt = d], [b EXCEPT !.latch = d], [b EXCEPT !.enable = 0],
                   [b EXCEPT !.enable = 1], b}
  <2>1. t \in T
    BY SMT DEF CloneIrq
  <2>2. \A mid \in T : Still(b, mid)
    BY <1>1, Zenon
  <2> HIDE DEF t, T
  <2>3. Still(b, t)
    BY <2>1, <2>2
  <2>4. QED
    BY <2>3 DEF t
<1>3. Still(b, [b EXCEPT !.cnt = d, !.enable = 1])
  <2> DEFINE t == [b EXCEPT !.cnt = d, !.enable = 1]
  <2>1. /\ DOMAIN t = DOMAIN b
        /\ \A f \in {"rom", "vrom", "hmir", "reg", "bank", "cpu", "ppu"} : t[f] = b[f]
    BY DEF IsBoard
  <2> HIDE DEF t
  <2>2. Still(b, t)
    BY <2>1, FieldsSame
  <2>3. QED
    BY <2>2 DEF t
<1>4. QED
  BY <1>2, <1>3 DEF Map115_Irq

-----------------------------------------------------------------------------
(* Writes of the CPU to the boards with an MMC3.                           *)
LEMMA Map4Write ==
  ASSUME NEW no \in {4, 74}, NEW b, Follows(no, b), NEW a, NEW d \in Nat, NEW line
  PROVE  Follows(no, Map4_Write(b, a, d, line))
<1> DEFINE r == WithReg(b, 0, d)
           mid == Map4_Set_CPU_Banks(Map4_Set_PPU_Banks(r))
           T == {mid, Mmc3Bank(b, d), Mmc3Mirror(b, d), b, [b EXCEPT !.latch = d],
                 [b EXCEPT !.cnt = Or(@, 128), !.present = 1],
                 [b EXCEPT !.cnt = Or(@, 128), !.vbl = 1, !.present = 0],
                 [b EXCEPT !.enable = 0, !.req = 0], [b EXCEPT !.enable = 1, !.req = 0]}
           t == Map4_Write(b, a, d, line)
<1>1. t \in T
  BY SMT DEF Map4_Write, WithReg
<1>2. IsBoard(b)
  BY DEF Follows
<1>3. Follows(no, mid)
  <2>1. IsBoard(r) /\ Follows(no, SetCpu(no, SetPpu(no, r)))
    BY <1>2, SelectFollows
  <2> HIDE DEF r
  <2>2. Map4_Set_PPU_Banks(r) = SetPpu(no, r) /\ IsBoard(SetPpu(no, r))
    BY <2>1, Mmc3Sets, SetPpuIs
  <2>3. Map4_Set_CPU_Banks(SetPpu(no, r)) = SetCpu(no, SetPpu(no, r))
    BY <2>2, Mmc3Sets DEF Map4_Set_CPU_Banks
  <2>4. QED
    BY <2>1, <2>2, <2>3
<1>4. \A x \in T : x \in {mid, Mmc3Bank(b, d), Mmc3Mirror(b, d)} \/ Still(b, x)
  <2> DEFINE Same(x) == DOMAIN x = DOMAIN b
        /\ \A f \in {"rom", "vrom", "hmir", "reg", "bank", "cpu", "ppu"} : x[f] = b[f]
  <2>1. Same(b) /\ Same([b EXCEPT !.latch = d])
    BY <1>2 DEF IsBoard
  <2>2. Same([b EXCEPT !.cnt = Or(@, 128), !.present = 1])
    BY <1>2 DEF IsBoard
  <2>3. Same([b EXCEPT !.cnt = Or(@, 128), !.vbl = 1, !.present = 0])
    BY <1>2 DEF IsBoard
  <2>4. Same([b EXCEPT !.enable = 0, !.req = 0]) /\ Same([b EXCEPT !.enable = 1, !.req = 0])
    BY <1>2 DEF IsBoard
  <2>5. \A x : Same(x) => Still(b, x)
    BY <1>2, FieldsSame
  <2> HIDE DEF Same, mid
  <2>6. QED
    BY <2>1, <2>2, <2>3, <2>4, <2>5
<1>5. Follows(no, Mmc3Bank(b, d)) /\ Follows(no, Mmc3Mirror(b, d))
  BY Mmc3BankFollows, MirrorFollows
<1> HIDE DEF mid, t, T
<1>6. \A x \in T : x \in {mid, Mmc3Bank(b, d), Mmc3Mirror(b, d)} \/ Follows(no, x)
  BY <1>4, StillFollows
<1>7. Follows(no, t)
  BY <1>1, <1>3, <1>5, <1>6
<1>8. QED
  BY <1>7 DEF t

(* Boards 44 and 47 also have an outer bank.                               *)
LEMMA Map44Write ==
  ASSUME NEW no \in {44, 47}, NEW b, Follows(no, b), NEW a, NEW d \in Nat
  PROVE  Follows(no, Map44_Write(b, a, d)) /\ Follows(no, Map47_Write(b, a, d))
<1> DEFINE r == WithReg(b, 0, d)
           p == WithBank(b, 8, IF d % 8 = 7 THEN 6 ELSE d % 8)
           port == Mmc3Port(a)
           T == {Map44_Set_CPU_Banks(Map44_Set_PPU_Banks(r)), Map44_Data(b, d), Mmc3Mirror(b, d),
                 Map44_Set_PPU_Banks(Map44_Set_CPU_Banks(p)), CloneIrq(b, port, d)}
           t == Map44_Write(b, a, d)
<1>1. t \in T
  <2> HIDE DEF port
  <2>1. QED
    BY SMT DEF Map44_Write, WithReg, WithBank, port
<1>2. IsBoard(b) /\ no \in Mmc3Boards
  BY DEF Follows, Mmc3Boards
<1>3. Follows(no, Map44_Set_CPU_Banks(Map44_Set_PPU_Banks(r)))
  <2>1. IsBoard(r) /\ Follows(no, SetCpu(no, SetPpu(no, r)))
    BY <1>2, SelectFollows
  <2> HIDE DEF r
  <2>2. Map44_Set_PPU_Banks(r) = SetPpu(no, r) /\ IsBoard(SetPpu(no, r))
    BY <2>1, OwnSets, SetPpuIs
  <2>3. Map44_Set_CPU_Banks(SetPpu(no, r)) = SetCpu(no, SetPpu(no, r))
    BY <2>2, OwnSets
  <2>4. QED
    BY <2>1, <2>2, <2>3
<1>4. Follows(no, Map44_Set_PPU_Banks(Map44_Set_CPU_Banks(p)))
  <2>1. IsBoard(p) /\ p.reg = b.reg
    BY <1>2, BankMoves
  <2> HIDE DEF p
  <2>2. Follows(no, SetPpu(no, SetCpu(no, p)))
    BY <2>1, BothFollow DEF Follows, Selects
  <2>3. Map44_Set_CPU_Banks(p) = SetCpu(no, p) /\ IsBoard(SetCpu(no, p))
    BY <2>1, OwnSets, SetCpuIs
  <2>4. Map44_Set_PPU_Banks(SetCpu(no, p)) = SetPpu(no, SetCpu(no, p))
    BY <2>3, OwnSets
  <2>5. QED
    BY <2>2, <2>3, <2>4
<1>5. Follows(no, Map44_Data(b, d))
  <2> DEFINE mid == Mmc3Data(b, d)
  <2>1. /\ IsBoard(mid)
        /\ b.reg[0] % 8 > 5 => Follows(no, SetCpu(no, mid))
        /\ ~(b.reg[0] % 8 > 5) => Follows(no, SetPpu(no, mid))
    BY <1>2, Mmc3DataFollows
  <2> HIDE DEF mid
  <2>2. Map44_Set_CPU_Banks(mid) = SetCpu(no, mid) /\ Map44_Set_PPU_Banks(mid) = SetPpu(no, mid)
    BY <2>1, OwnSets
  <2>3. QED
    BY <2>1, <2>2 DEF Map44_Data, mid
<1>6. Follows(no, Mmc3Mirror(b, d))
  BY MirrorFollows
<1>7. Follows(no, CloneIrq(b, port, d))
  BY <1>2, CloneIrqStill, StillFollows
<1> HIDE DEF port, t
<1>8. Follows(no, t)
  BY <1>1, <1>3, <1>4, <1>5, <1>6, <1>7
<1>9. QED
  BY <1>8 DEF t, Map47_Write

(* Board 95 mirrors by a bit of the data it writes.                        *)
LEMMA Map95Write ==
  ASSUME NEW b, Follows(95, b), NEW a, NEW d \in Nat
  PROVE  Follows(95, Map95_Write(b, a, d))
<1>1. Follows(95, Mmc3Select(b, d)) /\ Follows(95, Mmc3Bank(b, d))
  BY Mmc3SelectFollows, Mmc3BankFollows
<1>2. Follows(95, Mmc3Bank(MirrorIf(b, On(d, 5), 2, 3), d % 32))
  BY MirrorFollows, Mmc3BankFollows
<1>3. Map95_Write(b, a, d) \in {Mmc3Select(b, d), Mmc3Bank(b, d),
                                Mmc3Bank(MirrorIf(b, On(d, 5), 2, 3), d % 32), b}
  BY SMT DEF Map95_Write
<1>4. QED
  BY <1>1, <1>2, <1>3

(* Board 112 has its own ports.                                            *)
LEMMA Map112Write ==
  ASSUME NEW b, Follows(112, b), NEW a, NEW d \in Nat
  PROVE  Follows(112, Map112_Write(b, a, d))
<1> DEFINE port == Mmc3Port(a)
           c == CloneIrq(b, port, d)
           T == {Mmc3Select(b, d), Map112_Data(b, d), b, MirrorIf(b, On(d, 0), 1, 0),
                 MirrorIf(c, d # 0, 0, 1), c}
           t == Map112_Write(b, a, d)
<1>1. t \in T
  BY SMT DEF Map112_Write
<1>2. IsBoard(b) /\ b.reg[0] \in Nat
  BY DEF Follows, Selects, Mmc3Boards
<1>3. Follows(112, Map112_Data(b, d))
  <2> DEFINE k == (b.reg[0] + 6) % 8
             w == WithBank(b, k, d)
             v == WithBank(b, k, IF k < 2 THEN Hi(d, 2) ELSE d)
  <2>1. k \in 0..7
    BY <1>2
  <2>2. Map112_Data(b, d) = CASE k > 5 -> Map112_Set_CPU_Banks(w)
                              [] k < 6 /\ b.vrom = 0 -> b
                              [] OTHER -> Map112_Set_PPU_Banks(v)
    BY DEF Map112_Data, WithBank
  <2> HIDE DEF k
  <2>3. IsBoard(w) /\ IsBoard(v)
    BY <1>2, <2>1, BankMoves
  <2>4. k > 5 => Follows(112, SetCpu(112, w))
    BY <2>1, CpuBankFollows DEF PpuBank, Mmc3Boards
  <2>5. ~(k > 5) => Follows(112, SetPpu(112, v))
    BY <2>1, PpuBankFollows DEF CpuBank, Mmc3Boards
  <2> HIDE DEF w, v
  <2>6. Map112_Set_CPU_Banks(w) = SetCpu(112, w) /\ Map112_Set_PPU_Banks(v) = SetPpu(112, v)
    BY <2>3, Mmc3Sets DEF Map112_Set_CPU_Banks, Map112_Set_PPU_Banks
  <2>7. CASE k > 5
    BY <2>2, <2>4, <2>6, <2>7
  <2>8. CASE ~(k > 5)
    BY <2>1, <2>2, <2>5, <2>6, <2>8
  <2>9. QED
    BY <2>7, <2>8
<1>4. Follows(112, Mmc3Select(b, d)) /\ Follows(112, MirrorIf(b, On(d, 0), 1, 0))
  BY Mmc3SelectFollows, MirrorFollows
<1>5. Follows(112, c)
  BY <1>2, CloneIrqStill, StillFollows
<1> HIDE DEF c, port, t
<1>6. Follows(112, MirrorIf(c, d # 0, 0, 1))
  BY <1>5, MirrorFollows
<1>7. Follows(112, t)
  BY <1>1, <1>3, <1>4, <1>5, <1>6
<1>8. QED
  BY <1>7 DEF t

(* Boards 114, 116 and 118 are clones.                                     *)
LEMMA CloneWrites ==
  ASSUME NEW b, NEW a, NEW d \in Nat
  PROVE  /\ Follows(114, b) => Follows(114, Map114_Write(b, a, d))
         /\ Follows(116, b) => Follows(116, Map116_Write(b, a, d))
         /\ Follows(118, b) => Follows(118, Map118_Write(b, a, d))
<1> DEFINE port == Mmc3Port(a)
           m == IF b.reg[0] % 8 < 6 THEN MirrorIf(b, On(d, 7), 3, 2) ELSE b
<1>1. /\ Map114_Write(b, a, d)
           \in {Mmc3Select(b, d), Mmc3Bank(b, d), Mmc3Mirror(b, d), CloneIrq(b, port, d)}
      /\ Map116_Write(b, a, d)
           \in {Mmc3Select(b, d), Mmc3Bank(b, d), Mmc3Mirror(b, d), Map115_Irq(b, port, d)}
      /\ Map118_Write(b, a, d) \in {Mmc3Select(b, d), Mmc3Bank(m, d), CloneIrq(b, port, d)}
  BY SMT DEF Map114_Write, Map116_Write, Map118_Write
<1> HIDE DEF port
<1>2. ASSUME NEW no \in {114, 116, 118}, Follows(no, b)
      PROVE  /\ Follows(no, Mmc3Select(b, d)) /\ Follows(no, Mmc3Bank(b, d))
             /\ Follows(no, Mmc3Mirror(b, d)) /\ Follows(no, Mmc3Bank(m, d))
             /\ Follows(no, CloneIrq(b, port, d)) /\ Follows(no, Map115_Irq(b, port, d))
  <2>1. IsBoard(b)
    BY <1>2 DEF Follows
  <2>2. Follows(no, CloneIrq(b, port, d)) /\ Follows(no, Map115_Irq(b, port, d))
    BY <1>2, <2>1, CloneIrqStill, StillFollows
  <2>3. Follows(no, m)
    BY <1>2, MirrorFollows
  <2> HIDE DEF m
  <2>4. QED
    BY <1>2, <2>2, <2>3, Mmc3SelectFollows, Mmc3BankFollows, MirrorFollows
<1>3. QED
  BY <1>1, <1>2

(* Boards 115 and 119 have functions of their own.                         *)
LEMMA Map115Write ==
  ASSUME NEW no \in {115, 119}, NEW b, Follows(no, b), NEW a, NEW d \in Nat
  PROVE  /\ no = 115 => Follows(no, Map115_Write(b, a, d))
         /\ no = 119 => Follows(no, Map119_Write(b, a, d))
<1> DEFINE r == WithReg(b, 0, d)
           mid == Mmc3Data(b, d)
           port == Mmc3Port(a)
<1>1. IsBoard(b) /\ no \in Mmc3Boards
  BY DEF Follows, Mmc3Boards
<1>2. IsBoard(r) /\ Follows(no, SetPpu(no, SetCpu(no, r))) /\ IsBoard(SetCpu(no, r))
  BY <1>1, SelectFollows, SetCpuIs
<1>3. /\ IsBoard(mid)
      /\ b.reg[0] % 8 > 5 => Follows(no, SetCpu(no, mid))
      /\ ~(b.reg[0] % 8 > 5) => Follows(no, SetPpu(no, mid))
  BY <1>1, Mmc3DataFollows
<1>4. Follows(no, Mmc3Mirror(b, d))
  BY MirrorFollows
<1>5. Follows(no, CloneIrq(b, port, d)) /\ Follows(no, Map115_Irq(b, port, d))
  BY <1>1, CloneIrqStill, StillFollows
<1>6. Follows(no, [CloneIrq(b, port, d) EXCEPT !.cnt = b.latch])
  <2> DEFINE c == CloneIrq(b, port, d)
             x == [c EXCEPT !.cnt = b.latch]
  <2>1. IsBoard(c)
    BY <1>5 DEF Follows
  <2> HIDE DEF c
  <2>2. Still(c, x)
    <3>1. DOMAIN x = DOMAIN c
          /\ \A f \in {"rom", "vrom", "hmir", "reg", "bank", "cpu", "ppu"} : x[f] = c[f]
      BY <2>1 DEF IsBoard
    <3> HIDE DEF x
    <3>2. QED
      BY <2>1, <3>1, FieldsSame
  <2>3. Follows(no, c)
    BY <1>5 DEF c
  <2> HIDE DEF x
  <2>4. Follows(no, x)
    BY <2>2, <2>3, StillFollows
  <2>5. QED
    BY <2>4 DEF c, x
<1>7. CASE no = 115
  <2> DEFINE T == {Map115_Set_PPU_Banks(Map115_Set_CPU_Banks(r)),
                   IF b.reg[0] % 8 > 5 THEN Map115_Set_CPU_Banks(mid)
                   ELSE Map115_Set_PPU_Banks(mid),
                   Mmc3Mirror(b, d), Map115_Irq(b, port, d)}
  <2>1. Map115_Write(b, a, d) \in T
    BY SMT DEF Map115_Write, WithReg
  <2> HIDE DEF r, mid, port
  <2>2. Map115_Set_PPU_Banks(Map115_Set_CPU_Banks(r)) = SetPpu(no, SetCpu(no, r))
    BY <1>2, <1>7, OwnSets
  <2>3. Map115_Set_CPU_Banks(mid) = SetCpu(no, mid) /\ Map115_Set_PPU_Banks(mid) = SetPpu(no, mid)
    BY <1>3, <1>7, OwnSets
  <2>4. \A x \in T : Follows(no, x)
    BY <1>2, <1>3, <1>4, <1>5, <2>2, <2>3
  <2>5. QED
    BY <1>7, <2>1, <2>4
<1>8. CASE no = 119
  <2> DEFINE T == {Map119_Set_PPU_Banks(Map119_Set_CPU_Banks(r)),
                   IF b.reg[0] % 8 > 5 THEN Map119_Set_CPU_Banks(mid)
                   ELSE Map119_Set_PPU_Banks(mid),
                   Mmc3Mirror(b, d), CloneIrq(b, port, d),
                   [CloneIrq(b, port, d) EXCEPT !.cnt = b.latch]}
  <2>1. Map119_Write(b, a, d) \in T
    BY SMT DEF Map119_Write, WithReg
  <2> HIDE DEF r, mid, port
  <2>2. Map119_Set_PPU_Banks(Map119_Set_CPU_Banks(r)) = SetPpu(no, SetCpu(no, r))
    BY <1>2, <1>8, OwnSets
  <2>3. Map119_Set_CPU_Banks(mid) = SetCpu(no, mid) /\ Map119_Set_PPU_Banks(mid) = SetPpu(no, mid)
    BY <1>3, <1>8, OwnSets
  <2>4. \A x \in T : Follows(no, x)
    BY <1>2, <1>3, <1>4, <1>5, <1>6, <2>2, <2>3
  <2>5. QED
    BY <1>8, <2>1, <2>4
<1>9. QED
  BY <1>7, <1>8

-----------------------------------------------------------------------------
(* The scanline callbacks of the clones count, and move no window.         *)
LEMMA CountersStill ==
  ASSUME NEW b, IsBoard(b), NEW line, NEW show
  PROVE  Still(b, CountToZero(b, line, show)) /\ Still(b, Map47_HSync(b, line, show))
<1> DEFINE Same(x) == DOMAIN x = DOMAIN b
      /\ \A f \in {"rom", "vrom", "hmir", "reg", "bank", "cpu", "ppu"} : x[f] = b[f]
<1>1. Same(b)
  OBVIOUS
<1>2. Same(CountToZero(b, line, show))
  <2> DEFINE c == [b EXCEPT !.cnt = b.latch]
             e == [b EXCEPT !.cnt = @ - 1]
             r == [c EXCEPT !.irq = TRUE]
  <2>1. Same(r) /\ Same(e)
    BY DEF IsBoard
  <2>2. CountToZero(b, line, show) \in {b, r, e}
    BY SMT DEF CountToZero, IRQ_REQ
  <2> HIDE DEF Same, c, e, r
  <2>3. QED
    BY <1>1, <2>1, <2>2
<1>3. Same(Map47_HSync(b, line, show))
  <2> DEFINE mid == [b EXCEPT !.cnt = (@ - 1) % 256]
             l == [mid EXCEPT !.cnt = b.latch]
             r == [l EXCEPT !.irq = TRUE]
  <2>1. Same(mid) /\ Same(r)
    BY DEF IsBoard
  <2>2. Map47_HSync(b, line, show) \in {b, mid, r}
    BY SMT DEF Map47_HSync, IRQ_REQ
  <2> HIDE DEF Same, mid, l, r
  <2>3. QED
    BY <1>1, <2>1, <2>2
<1>4. QED
  BY <1>2, <1>3, FieldsSame

(* Nor does the MMC3's own.                                                *)
LEMMA Map4HSyncStill ==
  ASSUME NEW b, IsBoard(b), NEW line, NEW show
  PROVE  Still(b, Map4_HSync(b, line, show))
<1> DEFINE v == IF b.vbl # 0 THEN [b EXCEPT !.cnt = b.latch, !.vbl = 0] ELSE b
           c == IF v.present # 0 THEN [v EXCEPT !.cnt = v.latch, !.present = 0]
                ELSE IF v.cnt > 0 THEN [v EXCEPT !.cnt = @ - 1] ELSE v
           z == IF c.cnt = 0
                  THEN [c EXCEPT !.req = IF c.enable # 0 THEN 1 ELSE @, !.present = 1] ELSE c
           mid == IF line <= 239 /\ show THEN z ELSE b
           t == IF mid.req # 0 THEN IRQ_REQ(mid) ELSE mid
           Same(x) == DOMAIN x = DOMAIN b
             /\ \A f \in {"rom", "vrom", "hmir", "reg", "bank", "cpu", "ppu"} : x[f] = b[f]
<1>1. Map4_HSync(b, line, show) = t
  BY DEF Map4_HSync
<1>2. Same(v)
  BY DEF IsBoard
<1> HIDE DEF v
<1>3. Same(c)
  BY <1>2 DEF IsBoard
<1> HIDE DEF c
<1>4. Same(z)
  BY <1>3 DEF IsBoard
<1> HIDE DEF z
<1>5. Same(mid)
  BY <1>4
<1> HIDE DEF mid
<1>6. Same(t)
  BY <1>5 DEF IsBoard, IRQ_REQ
<1> HIDE DEF t
<1>7. QED
  BY <1>1, <1>6, FieldsSame

(* Clearing the interrupt unit and the RAM moves none.                     *)
LEMMA SramStill ==
  ASSUME NEW b, IsBoard(b)
  PROVE  Still(b, [b EXCEPT !.sram = Sram]) /\ Still(b, ClearIrq(b))
<1> DEFINE i == ClearIrq(b)
<1>1. DOMAIN i = DOMAIN b
      /\ \A f \in {"rom", "vrom", "hmir", "reg", "bank", "cpu", "ppu"} : i[f] = b[f]
  BY DEF ClearIrq, IsBoard
<1> HIDE DEF i
<1>2. Still(b, i)
  BY <1>1, FieldsSame
<1>3. QED
  BY <1>2, FieldsStill DEF i

(* The bank registers an MMC3 starts with.                                 *)
LEMMA DefaultsIs ==
  ASSUME NEW b, IsBoard(b)
  PROVE  /\ IsBoard(Mmc3Defaults(b)) /\ Mmc3Defaults(b).reg = b.reg
         /\ Mmc3Defaults(b).ppu = b.ppu /\ Mmc3Defaults(b).vrom = b.vrom
<1> DEFINE n == [k \in 0..11 |->
     CASE k = 7 -> 1 [] k < 6 /\ b.vrom > 0 -> <<0, 2, 4, 5, 6, 7>>[k + 1]
       [] k < 7 -> 0 [] OTHER -> b.bank[k]]
           m == Mmc3Defaults(b)
<1>1. m = [b EXCEPT !.bank = n] /\ DOMAIN n = 0..11
  BY DEF Mmc3Defaults
<1> HIDE DEF n, m
<1>2. /\ DOMAIN m = DOMAIN b /\ m.bank = n
      /\ \A f \in {"rom", "vrom", "hmir", "reg", "cpu", "ppu"} : m[f] = b[f]
  BY <1>1 DEF IsBoard
<1>3. IsBoard(m)
  BY <1>1, <1>2 DEF IsBoard
<1>4. QED
  BY <1>2, <1>3 DEF m

(* A board whose select register was cleared.                              *)
Cleared(b) == WithReg([b EXCEPT !.sram = Sram], 0, 0)
(* What clearing the select register and the outer banks is.               *)
LEMMA ClearedIs ==
  ASSUME NEW b, IsBoard(b)
  PROVE  /\ [b EXCEPT !.sram = Sram, !.reg[0] = 0] = Cleared(b)
         /\ [b EXCEPT !.sram = Sram, !.reg[0] = 0, !.bank[8] = 0] = WithBank(Cleared(b), 8, 0)
         /\ [b EXCEPT !.sram = Sram, !.reg[0] = 0, !.bank[8] = 0, !.bank[9] = 0]
              = WithBank(WithBank(Cleared(b), 8, 0), 9, 0)
         /\ IsBoard(Cleared(b)) /\ Cleared(b).reg[0] = 0
         /\ Cleared(b).ppu = b.ppu /\ Cleared(b).vrom = b.vrom
<1> DEFINE mid == [b EXCEPT !.sram = Sram]
<1>1. IsBoard(mid) /\ mid.ppu = b.ppu /\ mid.vrom = b.vrom
  BY SramStill DEF Still, Idle, Registers
<1>2. /\ [b EXCEPT !.sram = Sram, !.reg[0] = 0] = Cleared(b)
      /\ [b EXCEPT !.sram = Sram, !.reg[0] = 0, !.bank[8] = 0] = WithBank(Cleared(b), 8, 0)
      /\ [b EXCEPT !.sram = Sram, !.reg[0] = 0, !.bank[8] = 0, !.bank[9] = 0]
           = WithBank(WithBank(Cleared(b), 8, 0), 9, 0)
  BY DEF Cleared, WithReg, WithBank
<1> HIDE DEF mid
<1>3. /\ IsBoard(WithReg(mid, 0, 0)) /\ WithReg(mid, 0, 0).reg[0] = 0
      /\ WithReg(mid, 0, 0).ppu = mid.ppu /\ WithReg(mid, 0, 0).vrom = mid.vrom
  BY <1>1, RegMoves
<1>4. QED
  BY <1>1, <1>2, <1>3 DEF Cleared, mid

(* The Init of the boards that share the MMC3's. Board 4 and board 74      *)
(* without pattern ROM show the pattern RAM the reset selected.            *)
LEMMA Mmc3InitFollows ==
  ASSUME NEW no \in {4, 74, 112, 114, 116, 118}, NEW b, IsBoard(b),
         no \in {4, 74} => Patterns(b) = [w \in 0..7 |-> CRam(w)]
  PROVE  Follows(no, Mmc3Init(b))
<1> DEFINE r == Cleared(b)
           m == Mmc3Defaults(r)
           c == SetCpu(no, m)
           p == Mmc3Chr(c)
<1>1. Mmc3Init(b) = ClearIrq(Mmc3Chr(Mmc3Prg(m)))
  BY ClearedIs DEF Mmc3Init
<1>2. IsBoard(m) /\ m.reg[0] = 0 /\ m.ppu = b.ppu /\ m.vrom = b.vrom
  <2>1. IsBoard(r) /\ r.reg[0] = 0 /\ r.ppu = b.ppu /\ r.vrom = b.vrom
    BY ClearedIs
  <2> HIDE DEF r
  <2>2. QED
    BY <2>1, DefaultsIs
<1>3. Selects(no, m)
  BY <1>2 DEF Selects
<1>4. Mmc3Prg(m) = c
  BY <1>2, Mmc3Sets
<1> HIDE DEF m
<1>5. /\ IsBoard(c) /\ c.cpu = CpuPages(no, m) /\ c.ppu = m.ppu /\ Registers(c) = Registers(m)
  BY <1>2, SetCpuIs
<1>6. Follows(no, SetPpu(no, c))
  BY <1>2, <1>3, BothFollow
<1> HIDE DEF c
<1>7. Follows(no, p)
  <2>1. c.vrom = b.vrom
    BY <1>2, <1>5 DEF Registers
  <2>2. CASE no \in {112, 114, 116, 118} \/ b.vrom # 0
    BY <1>5, <1>6, <2>1, <2>2, Mmc3Sets
  <2>3. CASE no \in {4, 74} /\ b.vrom = 0
    <3>1. p = c
      BY <2>1, <2>3 DEF Mmc3Chr
    <3>2. Patterns(c) = Patterns(b)
      BY <1>2, <1>5 DEF Patterns
    <3>3. \A w \in 0..7 : PatternPage(no, c, w) = CRam(w)
      BY <2>1, <2>3 DEF PatternPage
    <3>4. PpuFollows(no, c)
      BY <2>3, <3>2, <3>3 DEF PpuFollows, PatternPages
    <3>5. Selects(no, c) /\ CpuFollows(no, c)
      BY <1>3, <1>5, PagesByRegisters DEF CpuFollows
    <3>6. QED
      BY <1>5, <3>1, <3>4, <3>5 DEF Follows
  <2>4. QED
    BY <2>2, <2>3
<1> HIDE DEF p
<1>8. Follows(no, ClearIrq(p))
  BY <1>7, SramStill, StillFollows DEF Follows
<1>9. QED
  BY <1>1, <1>4, <1>8 DEF p, c

(* The Inits of the clones with functions of their own.                    *)
LEMMA OwnInitsFollow ==
  ASSUME NEW b, IsBoard(b)
  PROVE  /\ \A no \in {44, 47} : Follows(no, Map44_Init(b))
         /\ Follows(95, Map95_Init(b)) /\ Follows(115, Map115_Init(b))
         /\ Follows(119, Map119_Init(b))
<1> DEFINE r == Cleared(b)
           o == WithBank(r, 8, 0)
           q == WithBank(o, 9, 0)
<1>1. /\ IsBoard(r) /\ r.reg[0] = 0 /\ IsBoard(o) /\ o.reg[0] = 0 /\ IsBoard(q) /\ q.reg[0] = 0
      /\ [b EXCEPT !.sram = Sram, !.reg[0] = 0] = r
      /\ [b EXCEPT !.sram = Sram, !.reg[0] = 0, !.bank[8] = 0] = o
      /\ [b EXCEPT !.sram = Sram, !.reg[0] = 0, !.bank[8] = 0, !.bank[9] = 0] = q
  <2>1. IsBoard(r) /\ r.reg[0] = 0
    BY ClearedIs
  <2> HIDE DEF r
  <2>2. IsBoard(o) /\ o.reg[0] = 0
    BY <2>1, BankMoves
  <2> HIDE DEF o
  <2>3. IsBoard(q) /\ q.reg[0] = 0
    BY <2>2, BankMoves
  <2>4. QED
    BY <2>1, <2>2, <2>3, ClearedIs DEF r, o, q
<1> HIDE DEF r, o, q
<1>2. ASSUME NEW no, NEW x, IsBoard(x), x.reg[0] = 0
      PROVE  LET m == Mmc3Defaults(x)
             IN  /\ IsBoard(m) /\ IsBoard(SetCpu(no, m))
                 /\ Follows(no, SetPpu(no, SetCpu(no, m)))
                 /\ Follows(no, ClearIrq(SetPpu(no, SetCpu(no, m))))
  <2> DEFINE m == Mmc3Defaults(x)
  <2>1. IsBoard(m) /\ m.reg[0] = 0
    BY <1>2, DefaultsIs
  <2> HIDE DEF m
  <2>2. Selects(no, m)
    BY <2>1 DEF Selects
  <2> DEFINE p == SetPpu(no, SetCpu(no, m))
  <2>3. IsBoard(SetCpu(no, m)) /\ Follows(no, p)
    BY <2>1, <2>2, SetCpuIs, BothFollow
  <2> HIDE DEF p
  <2>4. Follows(no, ClearIrq(p))
    BY <2>3, SramStill, StillFollows DEF Follows
  <2>5. QED
    BY <2>1, <2>3, <2>4 DEF m, p
<1>3. ASSUME NEW no \in {44, 47}
      PROVE  Follows(no, Map44_Init(b))
  <2> DEFINE m == Mmc3Defaults(o)
  <2>1. Map44_Init(b) = ClearIrq(Map44_Set_PPU_Banks(Map44_Set_CPU_Banks(m)))
    BY <1>1 DEF Map44_Init
  <2>2. IsBoard(m) /\ IsBoard(SetCpu(no, m)) /\ Follows(no, ClearIrq(SetPpu(no, SetCpu(no, m))))
    BY <1>1, <1>2
  <2> HIDE DEF m
  <2>3. /\ Map44_Set_CPU_Banks(m) = SetCpu(no, m)
        /\ Map44_Set_PPU_Banks(SetCpu(no, m)) = SetPpu(no, SetCpu(no, m))
    BY <2>2, OwnSets
  <2>4. QED
    BY <2>1, <2>2, <2>3
<1>4. Follows(95, Map95_Init(b))
  <2> DEFINE m == Mmc3Defaults(r)
  <2>1. Map95_Init(b) = Mmc3Chr(Mmc3Prg(m))
    BY <1>1 DEF Map95_Init, Map95_Set_CPU_Banks, Map95_Set_PPU_Banks
  <2>2. IsBoard(m) /\ IsBoard(SetCpu(95, m)) /\ Follows(95, SetPpu(95, SetCpu(95, m)))
    BY <1>1, <1>2
  <2> HIDE DEF m
  <2>3. Mmc3Prg(m) = SetCpu(95, m) /\ Mmc3Chr(SetCpu(95, m)) = SetPpu(95, SetCpu(95, m))
    BY <2>2, Mmc3Sets
  <2>4. QED
    BY <2>1, <2>2, <2>3
<1>5. Follows(115, Map115_Init(b))
  <2> DEFINE m == Mmc3Defaults(q)
  <2>1. Map115_Init(b) = ClearIrq(Map115_Set_PPU_Banks(Map115_Set_CPU_Banks(m)))
    BY <1>1 DEF Map115_Init
  <2>2. IsBoard(m) /\ IsBoard(SetCpu(115, m)) /\ Follows(115, ClearIrq(SetPpu(115, SetCpu(115, m))))
    BY <1>1, <1>2
  <2> HIDE DEF m
  <2>3. /\ Map115_Set_CPU_Banks(m) = SetCpu(115, m)
        /\ Map115_Set_PPU_Banks(SetCpu(115, m)) = SetPpu(115, SetCpu(115, m))
    BY <2>2, OwnSets
  <2>4. QED
    BY <2>1, <2>2, <2>3
<1>6. Follows(119, Map119_Init(b))
  <2> DEFINE m == Mmc3Defaults(r)
  <2>1. Map119_Init(b) = ClearIrq(Map119_Set_PPU_Banks(Map119_Set_CPU_Banks(m)))
    BY <1>1 DEF Map119_Init
  <2>2. IsBoard(m) /\ IsBoard(SetCpu(119, m)) /\ Follows(119, ClearIrq(SetPpu(119, SetCpu(119, m))))
    BY <1>1, <1>2
  <2> HIDE DEF m
  <2>3. /\ Map119_Set_CPU_Banks(m) = SetCpu(119, m)
        /\ Map119_Set_PPU_Banks(SetCpu(119, m)) = SetPpu(119, SetCpu(119, m))
    BY <2>2, OwnSets
  <2>4. QED
    BY <2>1, <2>2, <2>3
<1>7. QED
  BY <1>3, <1>4, <1>5, <1>6

(* Writes to the area of the cartridge's RAM.                              *)
LEMMA Mmc3SramFollows ==
  ASSUME NEW no \in {47, 114, 115}, NEW b, Follows(no, b), NEW a, NEW d
  PROVE  /\ no = 47 => Follows(no, Map47_Sram(b, a, d))
         /\ no = 114 => Follows(no, Map114_Sram(b, a, d))
         /\ no = 115 => Follows(no, Map115_Sram(b, a, d))
<1>1. IsBoard(b)
  BY DEF Follows
<1>2. ASSUME no = 47
      PROVE  Follows(no, Map47_Sram(b, a, d))
  <2> DEFINE p == WithBank(b, 8, d % 2)
  <2>1. IsBoard(p) /\ p.reg = b.reg
    BY <1>1, BankMoves
  <2>2. Map47_Sram(b, a, d) = IF a = \h6000 THEN Map44_Set_PPU_Banks(Map44_Set_CPU_Banks(p)) ELSE b
    BY DEF Map47_Sram, Map47_Set_CPU_Banks, Map47_Set_PPU_Banks, WithBank
  <2> HIDE DEF p
  <2>3. Follows(no, SetPpu(no, SetCpu(no, p))) /\ IsBoard(SetCpu(no, p))
    BY <2>1, BothFollow, SetCpuIs DEF Follows, Selects
  <2>4. /\ Map44_Set_CPU_Banks(p) = SetCpu(no, p)
        /\ Map44_Set_PPU_Banks(SetCpu(no, p)) = SetPpu(no, SetCpu(no, p))
    BY <1>2, <2>1, <2>3, OwnSets
  <2>5. QED
    BY <2>2, <2>3, <2>4
<1>3. ASSUME no = 114
      PROVE  Follows(no, Map114_Sram(b, a, d))
  BY <1>1, <1>3, Mmc3InitFollows DEF Map114_Sram
<1>4. ASSUME no = 115
      PROVE  Follows(no, Map115_Sram(b, a, d))
  <2> DEFINE p == WithBank(b, 8, d)
             q == WithBank(b, 9, d % 2)
  <2>1. IsBoard(p) /\ IsBoard(q)
    BY <1>1, BankMoves
  <2>2. ~PpuBank(115, 8) /\ ~CpuBank(115, 9)
    BY DEF PpuBank, CpuBank
  <2>3. Follows(115, SetCpu(115, p)) /\ Follows(115, SetPpu(115, q))
    BY <1>4, <2>2, CpuBankFollows, PpuBankFollows
  <2>4. Map115_Sram(b, a, d) \in {Map115_Set_CPU_Banks(p), Map115_Set_PPU_Banks(q), b}
    BY SMT DEF Map115_Sram, WithBank
  <2> HIDE DEF p, q
  <2>5. QED
    BY <1>4, <2>1, <2>3, <2>4, OwnSets
<1>5. QED
  BY <1>2, <1>3, <1>4

-----------------------------------------------------------------------------
(* A step that moves windows of the CPU only.                              *)
Swaps(b, t) == IsBoard(t) /\ t.ppu = b.ppu /\ Registers(t) = Registers(b)
(* A step that moves windows of the PPU only.                              *)
Draws(b, t) == IsBoard(t) /\ t.cpu = b.cpu /\ Registers(t) = Registers(b)

(* Moving some windows of the CPU.                                         *)
LEMMA CpuWinSwaps ==
  ASSUME NEW b, IsBoard(b), NEW i, NEW p
  PROVE  Swaps(b, CpuWin(b, i, p))
<1> DEFINE q == [w \in 0..3 |-> IF w - i \in DOMAIN p THEN p[w - i] ELSE b.cpu[w]]
           t == CpuWin(b, i, p)
<1>1. t = [b EXCEPT !.cpu = q] /\ q = [w \in 0..3 |-> q[w]]
  BY DEF CpuWin
<1> HIDE DEF q, t
<1>2. /\ DOMAIN t = DOMAIN b /\ t.cpu = q
      /\ \A f \in {"rom", "vrom", "hmir", "reg", "bank", "ppu"} : t[f] = b[f]
  BY <1>1 DEF IsBoard
<1>3. IsBoard(t) /\ Registers(t) = Registers(b) /\ t.ppu = b.ppu
  BY <1>1, <1>2 DEF IsBoard, Registers
<1>4. QED
  BY <1>3 DEF t, Swaps

(* So do the helpers for pages of ROM.                                     *)
LEMMA PrgSwaps ==
  ASSUME NEW b, IsBoard(b), NEW i, NEW n, NEW p
  PROVE  Swaps(b, Prg(b, i, n, p)) /\ Swaps(b, PrgMod(b, i, n, p))
<1>1. Swaps(b, Prg(b, i, n, p))
  BY CpuWinSwaps DEF Prg
<1>2. Swaps(b, PrgMod(b, i, n, p))
  BY CpuWinSwaps DEF PrgMod
<1>3. QED
  BY <1>1, <1>2

(* Moving some windows of the PPU.                                         *)
LEMMA PpuWinDraws ==
  ASSUME NEW b, IsBoard(b), NEW i \in Int, NEW p
  PROVE  LET t == PpuWin(b, i, p)
         IN  /\ Draws(b, t)
             /\ \A w \in 0..11 : t.ppu[w] = IF w - i \in DOMAIN p THEN p[w - i] ELSE b.ppu[w]
<1> DEFINE q == [w \in 0..11 |-> IF w - i \in DOMAIN p THEN p[w - i] ELSE b.ppu[w]]
           t == PpuWin(b, i, p)
<1>1. t = [b EXCEPT !.ppu = q] /\ q = [w \in 0..11 |-> q[w]]
  BY DEF PpuWin
<1>2. \A w \in 0..11 : q[w] = IF w - i \in DOMAIN p THEN p[w - i] ELSE b.ppu[w]
  OBVIOUS
<1> HIDE DEF q, t
<1>3. /\ DOMAIN t = DOMAIN b /\ t.ppu = q
      /\ \A f \in {"rom", "vrom", "hmir", "reg", "bank", "cpu"} : t[f] = b[f]
  BY <1>1 DEF IsBoard
<1>4. IsBoard(t) /\ Registers(t) = Registers(b) /\ t.cpu = b.cpu
  BY <1>1, <1>3 DEF IsBoard, Registers
<1>5. QED
  BY <1>2, <1>3, <1>4 DEF t, Draws

(* Decoding characters moves no window.                                    *)
LEMMA SetupChrStill ==
  ASSUME NEW b, IsBoard(b)
  PROVE  Still(b, InfoNES_SetupChr(b))
<1> DEFINE t == InfoNES_SetupChr(b)
<1>1. DOMAIN t = DOMAIN b
      /\ \A f \in {"rom", "vrom", "hmir", "reg", "bank", "cpu", "ppu"} : t[f] = b[f]
  BY DEF InfoNES_SetupChr, IsBoard
<1> HIDE DEF t
<1>2. Still(b, t)
  BY <1>1, FieldsSame
<1>3. QED
  BY <1>2 DEF t

(* Nor does a store to pattern memory.                                     *)
LEMMA StoreStill ==
  ASSUME NEW b, IsBoard(b), NEW w
  PROVE  Still(b, StorePattern(b, w))
<1> DEFINE t == StorePattern(b, w)
<1>1. DOMAIN t = DOMAIN b
      /\ \A f \in {"rom", "vrom", "hmir", "reg", "bank", "cpu", "ppu"} : t[f] = b[f]
  BY StoreFields DEF IsBoard
<1> HIDE DEF t
<1>2. Still(b, t)
  BY <1>1, FieldsSame
<1>3. QED
  BY <1>2 DEF t

(* The helpers for pages of pattern ROM and RAM.                           *)
LEMMA ChrDraws ==
  ASSUME NEW b, IsBoard(b), NEW i \in Int, NEW n, NEW p
  PROVE  Draws(b, Chr(b, i, n, p)) /\ Draws(b, ChrMod(b, i, n, p)) /\ Draws(b, ChrCRam(b, i, n, p))
<1>1. ASSUME NEW f
      PROVE  Draws(b, InfoNES_SetupChr(PpuWin(b, i, f)))
  <2> DEFINE t == PpuWin(b, i, f)
  <2>1. Draws(b, t)
    BY PpuWinDraws
  <2> HIDE DEF t
  <2>2. Still(t, InfoNES_SetupChr(t))
    BY <2>1, SetupChrStill DEF Draws
  <2>3. QED
    BY <2>1, <2>2 DEF Draws, Still, Idle, t
<1>2. QED
  BY <1>1 DEF Chr, ChrMod, ChrCRam

(* Two pattern windows are moved without a name table.                     *)
LEMMA ChrKeepsNames ==
  ASSUME NEW b, IsBoard(b), NEW i \in 0..6, NEW p
  PROVE  Names(Chr(b, i, 2, p)) = Names(b)
<1> DEFINE f == [k \in 0..(2 - 1) |-> VRom(p + k)]
           t == PpuWin(b, i, f)
<1>1. DOMAIN f = 0..1
  OBVIOUS
<1> HIDE DEF f
<1>2. IsBoard(t) /\ \A w \in 0..11 : t.ppu[w] = IF w - i \in 0..1 THEN f[w - i] ELSE b.ppu[w]
  BY <1>1, PpuWinDraws DEF Draws
<1> HIDE DEF t
<1>3. \A w \in 8..11 : ~(w - i \in 0..1)
  OBVIOUS
<1>4. \A w \in 0..3 : t.ppu[w + 8] = b.ppu[w + 8]
  BY <1>2, <1>3
<1>5. Names(InfoNES_SetupChr(t)) = Names(b)
  BY <1>2, <1>4, SetupChrStill DEF Names, Still
<1>6. QED
  BY <1>5 DEF Chr, t, f

(* Clearing the first registers.                                           *)
LEMMA ZeroRegsIs ==
  ASSUME NEW b, IsBoard(b), NEW n \in 1..32
  PROVE  /\ IsBoard(ZeroRegs(b, n)) /\ ZeroRegs(b, n).ppu = b.ppu /\ ZeroRegs(b, n).hmir = b.hmir
         /\ \A k \in 0..(n - 1) : ZeroRegs(b, n).reg[k] = 0
<1> DEFINE r == [k \in DOMAIN b.reg |-> IF k < n THEN 0 ELSE b.reg[k]]
           t == ZeroRegs(b, n)
<1>1. t = [b EXCEPT !.reg = r]
  BY DEF ZeroRegs, IsBoard
<1>2. DOMAIN r = 0..31 /\ \A k \in 0..(n - 1) : r[k] = 0
  BY DEF IsBoard
<1> HIDE DEF t, r
<1>3. /\ DOMAIN t = DOMAIN b /\ t.reg = r
      /\ \A f \in {"rom", "vrom", "hmir", "bank", "cpu", "ppu"} : t[f] = b[f]
  BY <1>1 DEF IsBoard
<1>4. IsBoard(t)
  BY <1>2, <1>3 DEF IsBoard
<1>5. QED
  BY <1>2, <1>3, <1>4 DEF t

(* The pages the Inits of the plain boards choose.                         *)
LEMMA BanksIs ==
  ASSUME NEW b, IsBoard(b), NEW p
  PROVE  Swaps(b, Banks(b, p)) /\ Swaps(b, FirstFour(b)) /\ Swaps(b, FirstAndLast(b))
<1>1. ASSUME NEW o
      PROVE  Swaps(b, Banks(b, o))
  <2> DEFINE q == [w \in 0..3 |-> Rom(o[w + 1])]
             t == Banks(b, o)
  <2>1. t = [b EXCEPT !.sram = Sram, !.cpu = q] /\ q = [w \in 0..3 |-> q[w]]
    BY DEF Banks
  <2> HIDE DEF q, t
  <2>2. /\ DOMAIN t = DOMAIN b /\ t.cpu = q
        /\ \A f \in {"rom", "vrom", "hmir", "reg", "bank", "ppu"} : t[f] = b[f]
    BY <2>1 DEF IsBoard
  <2>3. IsBoard(t) /\ Registers(t) = Registers(b) /\ t.ppu = b.ppu
    BY <2>1, <2>2 DEF IsBoard, Registers
  <2>4. QED
    BY <2>3 DEF t, Swaps
<1>2. QED
  BY <1>1 DEF FirstFour, FirstAndLast

(* Writing the bank registers at once.                                     *)
WithBanks(b, n) == [b EXCEPT !.bank = n]
(* That moves no window.                                                   *)
LEMMA NewBank ==
  ASSUME NEW b, IsBoard(b), NEW n, DOMAIN n = 0..11
  PROVE  LET t == WithBanks(b, n)
         IN  /\ IsBoard(t) /\ t.reg = b.reg /\ t.ppu = b.ppu /\ t.cpu = b.cpu
             /\ t.rom = b.rom /\ t.vrom = b.vrom
<1> DEFINE t == WithBanks(b, n)
<1>1. /\ DOMAIN t = DOMAIN b /\ t.bank = n
      /\ \A f \in {"rom", "vrom", "hmir", "reg", "cpu", "ppu"} : t[f] = b[f]
  BY DEF IsBoard, WithBanks
<1> HIDE DEF t
<1>2. IsBoard(t)
  BY <1>1 DEF IsBoard
<1>3. QED
  BY <1>1, <1>2 DEF t

-----------------------------------------------------------------------------
(* Board 46 moves the windows of the CPU and the patterns from four        *)
(* registers.                                                              *)
LEMMA Map46Follows ==
  ASSUME NEW b, IsBoard(b)
  PROVE  /\ Map46_Set_ROM_Banks(b) = SetPpu(46, SetCpu(46, b))
         /\ Follows(46, Map46_Set_ROM_Banks(b))
<1> DEFINE mid == SetCpu(46, b)
<1>1. IsBoard(mid) /\ Registers(mid) = Registers(b)
  BY SetCpuIs
<1>2. mid.reg = b.reg
  BY <1>1 DEF Registers
<1>3. PrgMod(b, 0, 4, 8 * b.reg[0] + 4 * b.reg[2]) = mid
  <2>1. \A w : CpuPage(46, b, w) = 8 * b.reg[0] + 4 * b.reg[2] + w
    BY DEF CpuPage
  <2>2. CpuPages(46, b)
          = [k \in 0..(4 - 1) |-> Rom((8 * b.reg[0] + 4 * b.reg[2] + k) % RomPages(b))]
    BY <2>1 DEF CpuPages
  <2>3. QED
    BY <2>2, Zenon DEF PrgMod, SetCpu
<1> HIDE DEF mid
<1>4. ChrMod(mid, 0, 8, 64 * b.reg[1] + 8 * b.reg[3]) = SetPpu(46, mid)
  <2>1. \A w : PatternPage(46, mid, w) = VRom((64 * b.reg[1] + 8 * b.reg[3] + w) % ChrPages(mid))
    BY <1>2 DEF PatternPage
  <2>2. PatternPages(46, mid)
          = [k \in 0..(8 - 1) |-> VRom((64 * b.reg[1] + 8 * b.reg[3] + k) % ChrPages(mid))]
    BY <2>1 DEF PatternPages
  <2>3. MovesPpu(46, mid)
    BY DEF MovesPpu
  <2>4. QED
    BY <2>2, <2>3, Zenon DEF ChrMod, SetPpu
<1>5. Map46_Set_ROM_Banks(b) = SetPpu(46, mid)
  BY <1>3, <1>4 DEF Map46_Set_ROM_Banks
<1>6. Selects(46, b)
  BY DEF Selects, Mmc3Boards
<1>7. Follows(46, SetPpu(46, mid))
  BY <1>6, BothFollow DEF mid
<1>8. QED
  BY <1>5, <1>7 DEF mid

(* Every handler of board 46 moves all windows.                            *)
LEMMA Map46Handlers ==
  ASSUME NEW b, IsBoard(b), NEW a, NEW d
  PROVE  /\ Follows(46, Map46_Init(b)) /\ Follows(46, Map46_Write(b, a, d))
         /\ Follows(46, Map46_Sram(b, a, d))
<1>1. Follows(46, Map46_Init(b))
  <2> DEFINE mid == [b EXCEPT !.sram = Sram]
             z == ZeroRegs(mid, 4)
  <2>1. IsBoard(mid)
    BY SramStill DEF Still, Idle
  <2> HIDE DEF mid
  <2>2. IsBoard(z)
    BY <2>1, ZeroRegsIs
  <2> HIDE DEF z
  <2>3. Follows(46, Map46_Set_ROM_Banks(z))
    BY <2>2, Map46Follows
  <2>4. QED
    BY <2>3, MirrorFollows DEF Map46_Init, mid, z
<1>2. Follows(46, Map46_Write(b, a, d))
  <2> DEFINE mid == WithReg(b, 2, d % 2)
             t == WithReg(mid, 3, Field(d, 4, 3))
  <2>1. IsBoard(mid)
    BY RegMoves
  <2>2. Map46_Write(b, a, d) = Map46_Set_ROM_Banks(t)
    BY DEF Map46_Write, WithReg
  <2> HIDE DEF mid
  <2>3. IsBoard(t)
    BY <2>1, RegMoves
  <2> HIDE DEF t
  <2>4. QED
    BY <2>2, <2>3, Map46Follows
<1>3. Follows(46, Map46_Sram(b, a, d))
  <2> DEFINE mid == WithReg(b, 0, d % 16)
             t == WithReg(mid, 1, Field(d, 4, 4))
  <2>1. IsBoard(mid)
    BY RegMoves
  <2>2. Map46_Sram(b, a, d) = Map46_Set_ROM_Banks(t)
    BY DEF Map46_Sram, WithReg
  <2> HIDE DEF mid
  <2>3. IsBoard(t)
    BY <2>1, RegMoves
  <2> HIDE DEF t
  <2>4. QED
    BY <2>2, <2>3, Map46Follows
<1>4. QED
  BY <1>1, <1>2, <1>3

(* Board 96 shows pattern RAM: a page the CPU selects, half of it by the   *)
(* page of the name table the PPU last fetched from.                       *)
LEMMA Map96Follows ==
  ASSUME NEW b, IsBoard(b)
  PROVE  LET t == Map96_Set_Banks(b)
         IN  /\ Draws(b, t) /\ Patterns(t) = PatternPages(96, b) /\ Names(t) = Names(b)
             /\ Follows(96, t)
<1> DEFINE p == [k \in 0..(4 - 1) |-> CRam(4 * (4 * b.reg[0] + b.reg[1]) + k)]
           q == [k \in 0..(4 - 1) |-> CRam(4 * (4 * b.reg[0] + 3) + k)]
           u == PpuWin(b, 0, p)
           v == InfoNES_SetupChr(u)
           x == PpuWin(v, 4, q)
           t == InfoNES_SetupChr(x)
<1>1. Map96_Set_Banks(b) = t
  BY DEF Map96_Set_Banks, ChrCRam
<1>2. /\ DOMAIN p = 0..3 /\ DOMAIN q = 0..3
      /\ \A w \in 0..3 : p[w] = CRam(4 * (4 * b.reg[0] + b.reg[1]) + w)
      /\ \A w \in 0..3 : q[w] = CRam(4 * (4 * b.reg[0] + 3) + w)
  OBVIOUS
<1> HIDE DEF p, q
<1>3. Draws(b, u) /\ \A w \in 0..11 : u.ppu[w] = IF w - 0 \in 0..3 THEN p[w - 0] ELSE b.ppu[w]
  BY <1>2, PpuWinDraws
<1> HIDE DEF u
<1>4. Still(u, v)
  BY <1>3, SetupChrStill DEF Draws
<1> HIDE DEF v
<1>5. Draws(v, x) /\ \A w \in 0..11 : x.ppu[w] = IF w - 4 \in 0..3 THEN q[w - 4] ELSE v.ppu[w]
  BY <1>2, <1>4, PpuWinDraws DEF Still, Idle
<1> HIDE DEF x
<1>6. Still(x, t)
  BY <1>5, SetupChrStill DEF Draws
<1> HIDE DEF t
<1>7. Draws(b, t)
  BY <1>3, <1>4, <1>5, <1>6 DEF Draws, Still, Idle
<1>8. t.ppu = x.ppu /\ v.ppu = u.ppu
  BY <1>4, <1>6 DEF Still
<1>9. \A w \in 0..3 : t.ppu[w] = p[w]
  BY <1>3, <1>5, <1>8
<1>10. \A w \in 4..7 : t.ppu[w] = q[w - 4]
  BY <1>5, <1>8
<1>11. \A w \in 8..11 : t.ppu[w] = b.ppu[w]
  BY <1>3, <1>5, <1>8
<1>12. Names(t) = Names(b)
  BY <1>11 DEF Names
<1>13. \A w \in 0..7 : t.ppu[w] = PatternPage(96, b, w)
  <2>1. \A w \in 0..7 :
          PatternPage(96, b, w) =
          IF w < 4 THEN CRam(4 * (4 * b.reg[0] + b.reg[1]) + w)
          ELSE CRam(4 * (4 * b.reg[0] + 3) + (w - 4))
    BY DEF PatternPage
  <2>2. \A w \in 0..3 : t.ppu[w] = PatternPage(96, b, w)
    BY <1>2, <1>9, <2>1
  <2>3. ASSUME NEW w \in 4..7
        PROVE  t.ppu[w] = PatternPage(96, b, w)
    <3>1. w - 4 \in 0..3 /\ w \in 0..7 /\ ~(w < 4)
      OBVIOUS
    <3>2. t.ppu[w] = CRam(4 * (4 * b.reg[0] + 3) + (w - 4))
      BY <1>2, <1>10, <3>1
    <3>3. QED
      BY <2>1, <3>1, <3>2
  <2>4. QED
    BY <2>2, <2>3
<1>14. Patterns(t) = PatternPages(96, b)
  BY <1>13 DEF Patterns, PatternPages
<1>15. Follows(96, t)
  <2>1. PatternPages(96, t) = PatternPages(96, b)
    BY <1>7, PagesByRegisters DEF Draws
  <2>2. ~MovesCpu(96) /\ Selects(96, t)
    BY DEF MovesCpu, Selects, Mmc3Boards
  <2>3. QED
    BY <1>7, <1>14, <2>1, <2>2 DEF Follows, Draws, CpuFollows, PpuFollows
<1>16. QED
  BY <1>1, <1>7, <1>12, <1>14, <1>15

(* Its handlers.                                                           *)
LEMMA Map96Handlers ==
  ASSUME NEW b, IsBoard(b), NEW a, NEW d
  PROVE  /\ Follows(96, Map96_Init(b)) /\ Follows(96, Map96_Write(b, a, d))
         /\ Follows(96, b) => Follows(96, Map96_PPU(b, a))
<1>1. Follows(96, Map96_Init(b))
  <2> DEFINE mid == FirstFour(b)
             z == ZeroRegs(mid, 2)
  <2>1. IsBoard(mid)
    BY BanksIs DEF Swaps
  <2> HIDE DEF mid
  <2>2. IsBoard(z)
    BY <2>1, ZeroRegsIs
  <2> HIDE DEF z
  <2>3. Follows(96, Map96_Set_Banks(z))
    BY <2>2, Map96Follows
  <2>4. QED
    BY <2>3, MirrorFollows DEF Map96_Init, mid, z
<1>2. Follows(96, Map96_Write(b, a, d))
  <2> DEFINE mid == PrgMod(b, 0, 4, 4 * (d % 4))
             t == WithReg(mid, 0, Bit(d, 2))
  <2>1. IsBoard(mid)
    BY PrgSwaps DEF Swaps
  <2>2. Map96_Write(b, a, d) = Map96_Set_Banks(t)
    BY DEF Map96_Write, WithReg
  <2> HIDE DEF mid
  <2>3. IsBoard(t)
    BY <2>1, RegMoves
  <2> HIDE DEF t
  <2>4. QED
    BY <2>2, <2>3, Map96Follows
<1>3. ASSUME Follows(96, b)
      PROVE  Follows(96, Map96_PPU(b, a))
  <2> DEFINE t == WithReg(b, 1, Field(a, 8, 2))
  <2>1. IsBoard(t)
    BY RegMoves
  <2>2. Map96_PPU(b, a) \in {Map96_Set_Banks(t), b}
    BY DEF Map96_PPU, WithReg
  <2> HIDE DEF t
  <2>3. QED
    BY <1>3, <2>1, <2>2, Map96Follows
<1>4. QED
  BY <1>1, <1>2, <1>3

-----------------------------------------------------------------------------
(* Boards 109, 135 and 191, whose expansion area holds the registers.      *)
LEMMA ApuSets ==
  ASSUME NEW b, IsBoard(b)
  PROVE  /\ Map109_Set_PPU_Banks(b) = SetPpu(109, b) /\ Map135_Set_PPU_Banks(b) = SetPpu(135, b)
         /\ Map191_Set_PPU_Banks(b) = SetPpu(191, b) /\ Map191_Set_CPU_Banks(b) = SetCpu(191, b)
<1>1. Map109_Set_PPU_Banks(b) = SetPpu(109, b)
  <2>1. PatternPages(109, b) = [k \in 0..7 |-> VRom(Map109Page(b, k))]
    BY DEF PatternPages, PatternPage
  <2>2. MovesPpu(109, b) <=> b.vrom # 0
    BY DEF MovesPpu, Mmc3Boards
  <2>3. Map109_Set_PPU_Banks(b) =
          IF b.vrom = 0 THEN b
          ELSE InfoNES_SetupChr(PpuWin(b, 0, [k \in 0..7 |-> VRom(Map109Page(b, k))]))
    BY DEF Map109_Set_PPU_Banks, Map109Page
  <2>4. QED
    BY <2>1, <2>2, <2>3 DEF SetPpu
<1>2. Map135_Set_PPU_Banks(b) = SetPpu(135, b)
  <2>1. PatternPages(135, b) = [w \in 0..7 |->
          VRom((2 * (((w \div 2) % 2) + 2 * b.bank[w \div 2] + 16 * b.bank[4]) + (w % 2))
                  % ChrPages(b))]
    BY DEF PatternPages, PatternPage
  <2>2. MovesPpu(135, b)
    BY DEF MovesPpu
  <2>3. QED
    BY <2>1, <2>2 DEF SetPpu, Map135_Set_PPU_Banks
<1>3. Map191_Set_PPU_Banks(b) = SetPpu(191, b)
  <2>1. PatternPages(191, b) =
          [w \in 0..7 |-> VRom((4 * (8 * b.bank[4] + b.bank[w \div 2]) + (w % 4)) % ChrPages(b))]
    BY DEF PatternPages, PatternPage
  <2>2. MovesPpu(191, b) <=> b.vrom # 0
    BY DEF MovesPpu, Mmc3Boards
  <2>3. QED
    BY <2>1, <2>2 DEF SetPpu, Map191_Set_PPU_Banks
<1>4. Map191_Set_CPU_Banks(b) = SetCpu(191, b)
  <2>1. \A w : CpuPage(191, b, w) = 4 * b.bank[5] + w
    BY DEF CpuPage
  <2>2. CpuPages(191, b) = [k \in 0..(4 - 1) |-> Rom((4 * b.bank[5] + k) % RomPages(b))]
    BY <2>1 DEF CpuPages
  <2>3. QED
    BY <2>2, Zenon DEF Map191_Set_CPU_Banks, PrgMod, SetCpu
<1>5. QED
  BY <1>1, <1>2, <1>3, <1>4

(* They are three.                                                         *)
ApuBoards == {109, 135, 191}
(* The first port selects a register; no window shows the selector.        *)
LEMMA SelectorFollows ==
  ASSUME NEW no \in ApuBoards, NEW b, Follows(no, b), NEW d \in Nat
  PROVE  Follows(no, WithReg(b, 0, d))
<1> DEFINE t == WithReg(b, 0, d)
<1>1. /\ IsBoard(t) /\ t.reg[0] = d /\ t.cpu = b.cpu /\ t.ppu = b.ppu
      /\ t.bank = b.bank /\ t.vrom = b.vrom /\ t.rom = b.rom
      /\ \A j \in 0..31 \ {0} : t.reg[j] = b.reg[j]
  BY RegMoves DEF Follows
<1> HIDE DEF t
<1>2. RomPages(t) = RomPages(b) /\ ChrPages(t) = ChrPages(b)
  BY <1>1 DEF RomPages, ChrPages
<1>3. Map109Page(t, 0) = Map109Page(b, 0) /\ \A w : Map109Page(t, w) = Map109Page(b, w)
  <2>1. t.reg[1] = b.reg[1] /\ t.reg[2] = b.reg[2]
    BY <1>1
  <2>2. QED
    BY <1>1, <1>2, <2>1 DEF Map109Page
<1>4. PatternPages(no, t) = PatternPages(no, b)
  <2>1. \A w : PatternPage(no, t, w) = PatternPage(no, b, w)
    BY <1>1, <1>2, <1>3 DEF PatternPage, ApuBoards
  <2>2. QED
    BY <2>1 DEF PatternPages
<1>5. MovesCpu(no) => CpuPages(no, t) = CpuPages(no, b)
  <2>1. \A w : no = 191 => CpuPage(no, t, w) = CpuPage(no, b, w)
    BY <1>1 DEF CpuPage
  <2>2. MovesCpu(no) => no = 191
    BY DEF MovesCpu, Mmc3Boards, ApuBoards
  <2>3. QED
    BY <1>2, <2>1, <2>2 DEF CpuPages
<1>6. Selects(no, t)
  BY <1>1 DEF Selects
<1>7. MovesPpu(no, t) <=> MovesPpu(no, b)
  BY <1>1 DEF MovesPpu
<1>8. Follows(no, t)
  BY <1>1, <1>4, <1>5, <1>6, <1>7 DEF Follows, CpuFollows, PpuFollows, Patterns
<1>9. QED
  BY <1>8 DEF t

(* The second port writes a register the pattern windows show.             *)
LEMMA ApuBankFollows ==
  ASSUME NEW no \in ApuBoards, NEW b, Follows(no, b), NEW r \in 0..4, NEW v
  PROVE  IsBoard(WithBank(b, r, v)) /\ Follows(no, SetPpu(no, WithBank(b, r, v)))
<1>1. ~CpuBank(no, r)
  BY DEF CpuBank, ApuBoards, Mmc3Boards
<1>2. IsBoard(WithBank(b, r, v))
  BY BankMoves DEF Follows
<1>3. QED
  BY <1>1, <1>2, PpuBankFollows

(* They have no window of the CPU that the registers call for.             *)
LEMMA SwapsFollow ==
  ASSUME NEW no \in {96, 109, 135}, NEW b, Follows(no, b), NEW t, Swaps(b, t)
  PROVE  Follows(no, t)
<1>1. ~MovesCpu(no)
  BY DEF MovesCpu, Mmc3Boards
<1>2. QED
  BY <1>1, PagesByRegisters DEF Follows, Swaps, CpuFollows, PpuFollows, Patterns

(* The ports of board 109.                                                 *)
LEMMA Map109Apu ==
  ASSUME NEW b, Follows(109, b), NEW a, NEW d \in Nat
  PROVE  Follows(109, Map109_Apu(b, a, d))
<1> DEFINE r == b.reg[0]
           x == WithBank(b, r, d)
           y == WithReg(b, 1, d % 2)
           z == WithReg(b, 2, d % 8)
           T == {IF r < 4 THEN Map109_Set_PPU_Banks(x) ELSE b, Map109_Set_PPU_Banks(y),
                 Map109_Set_PPU_Banks(z), PrgMod(b, 0, 4, d % 8), MirrorIf(b, On(d, 0), 0, 1),
                 WithReg(b, 0, d), b}
           t == Map109_Apu(b, a, d)
<1>1. IsBoard(b) /\ r \in Nat
  BY DEF Follows, Selects
<1>2. t \in T
  BY SMT DEF Map109_Apu, WithBank, WithReg
<1>3. ASSUME r < 4 PROVE Follows(109, Map109_Set_PPU_Banks(x))
  <2>1. r \in 0..4
    BY <1>1, <1>3
  <2>2. IsBoard(x) /\ Follows(109, SetPpu(109, x))
    BY <2>1, ApuBankFollows DEF ApuBoards
  <2> HIDE DEF x
  <2>3. QED
    BY <2>2, ApuSets
<1>4. ASSUME NEW k \in {1, 2}, NEW v
      PROVE  Follows(109, Map109_Set_PPU_Banks(WithReg(b, k, v)))
  <2> DEFINE y0 == WithReg(b, k, v)
  <2>1. IsBoard(y0) /\ y0.reg[0] = r
    BY <1>1, RegMoves
  <2> HIDE DEF y0
  <2>2. Selects(109, y0) /\ CpuFollows(109, y0)
    BY <1>1, <2>1 DEF Selects, CpuFollows, MovesCpu, Mmc3Boards
  <2>3. QED
    BY <2>1, <2>2, PpuThenFollows, ApuSets DEF y0
<1>5. Follows(109, PrgMod(b, 0, 4, d % 8))
  BY <1>1, PrgSwaps, SwapsFollow
<1>6. Follows(109, WithReg(b, 0, d)) /\ Follows(109, MirrorIf(b, On(d, 0), 0, 1))
  BY SelectorFollows, MirrorFollows DEF ApuBoards
<1>7. Follows(109, Map109_Set_PPU_Banks(y)) /\ Follows(109, Map109_Set_PPU_Banks(z))
  BY <1>4
<1> HIDE DEF t, x, y, z, r
<1>8. Follows(109, t)
  BY <1>2, <1>3, <1>5, <1>6, <1>7
<1>9. QED
  BY <1>8 DEF t

(* Those of board 135, one of which swaps windows of the CPU.              *)
LEMMA Map135Apu ==
  ASSUME NEW b, Follows(135, b), NEW a, NEW d \in Nat
  PROVE  Follows(135, Map135_Apu(b, a, d))
<1> DEFINE r == b.reg[0]
           x == WithBank(b, r, d % 8)
           T == {IF r < 5 THEN Map135_Set_PPU_Banks(x) ELSE b, PrgMod(b, 0, 4, 4 * (d % 7)),
                 MirrorBy(b, d \div 2, <<2, 0, 1, 2>>), WithReg(b, 0, d % 8), b}
           t == Map135_Apu(b, a, d)
<1>1. IsBoard(b) /\ r \in Nat
  BY DEF Follows, Selects
<1>2. t \in T
  BY SMT DEF Map135_Apu, WithBank, WithReg
<1>3. ASSUME r < 5 PROVE Follows(135, Map135_Set_PPU_Banks(x))
  <2>1. r \in 0..4
    BY <1>1, <1>3
  <2>2. IsBoard(x) /\ Follows(135, SetPpu(135, x))
    BY <2>1, ApuBankFollows DEF ApuBoards
  <2> HIDE DEF x
  <2>3. QED
    BY <2>2, ApuSets
<1>4. Follows(135, PrgMod(b, 0, 4, 4 * (d % 7)))
  BY <1>1, PrgSwaps, SwapsFollow
<1>5. Follows(135, WithReg(b, 0, d % 8))
  BY SelectorFollows DEF ApuBoards
<1>6. Follows(135, MirrorBy(b, d \div 2, <<2, 0, 1, 2>>))
  BY MirrorFollows DEF MirrorBy
<1> HIDE DEF t, x, r
<1>7. Follows(135, t)
  BY <1>2, <1>3, <1>4, <1>5, <1>6
<1>8. QED
  BY <1>7 DEF t

(* Those of board 191, one of which is the bank of the CPU.                *)
LEMMA Map191Apu ==
  ASSUME NEW b, Follows(191, b), NEW a, NEW d \in Nat
  PROVE  Follows(191, Map191_Apu(b, a, d))
<1> DEFINE r == b.reg[0]
           x == WithBank(b, r, d % 8)
           y == WithBank(b, 5, d % 8)
           T == {IF r < 5 THEN Map191_Set_PPU_Banks(x) ELSE b, Map191_Set_CPU_Banks(y),
                 MirrorIf(b, On(d, 1), 0, 1), WithReg(b, 0, d), b}
           t == Map191_Apu(b, a, d)
<1>1. IsBoard(b) /\ r \in Nat
  BY DEF Follows, Selects
<1>2. t \in T
  BY SMT DEF Map191_Apu, WithBank, WithReg
<1>3. ASSUME r < 5 PROVE Follows(191, Map191_Set_PPU_Banks(x))
  <2>1. r \in 0..4
    BY <1>1, <1>3
  <2>2. IsBoard(x) /\ Follows(191, SetPpu(191, x))
    BY <2>1, ApuBankFollows DEF ApuBoards
  <2> HIDE DEF x
  <2>3. QED
    BY <2>2, ApuSets
<1>4. Follows(191, Map191_Set_CPU_Banks(y))
  <2>1. IsBoard(y)
    BY <1>1, BankMoves
  <2>2. ~PpuBank(191, 5)
    BY DEF PpuBank, Mmc3Boards
  <2>3. Follows(191, SetCpu(191, y))
    BY <2>2, CpuBankFollows
  <2> HIDE DEF y
  <2>4. QED
    BY <2>1, <2>3, ApuSets
<1>5. Follows(191, WithReg(b, 0, d)) /\ Follows(191, MirrorIf(b, On(d, 1), 0, 1))
  BY SelectorFollows, MirrorFollows DEF ApuBoards
<1> HIDE DEF t, x, y, r
<1>6. Follows(191, t)
  BY <1>2, <1>3, <1>4, <1>5
<1>7. QED
  BY <1>6 DEF t

(* Their Inits.                                                            *)
LEMMA ApuInitsFollow ==
  ASSUME NEW b, IsBoard(b)
  PROVE  /\ Follows(109, Map109_Init(b)) /\ Follows(135, Map135_Init(b))
         /\ Follows(191, Map191_Init(b))
<1>1. Follows(109, Map109_Init(b))
  <2> DEFINE mid == FirstFour(b)
             z == ZeroRegs(mid, 3)
             n == [k \in DOMAIN z.bank |-> IF k < 4 THEN 0 ELSE z.bank[k]]
             t == WithBanks(z, n)
  <2>1. IsBoard(mid)
    BY BanksIs DEF Swaps
  <2> HIDE DEF mid
  <2>2. IsBoard(z) /\ z.reg[0] = 0
    BY <2>1, ZeroRegsIs
  <2>3. Map109_Init(b) = Map109_Set_PPU_Banks([z EXCEPT !.bank = n])
    BY DEF Map109_Init, mid
  <2> HIDE DEF z
  <2>4. DOMAIN n = 0..11
    BY <2>2 DEF IsBoard
  <2> HIDE DEF n
  <2>5. IsBoard(t) /\ t.reg[0] = 0
    BY <2>2, <2>4, NewBank
  <2>6. Map109_Init(b) = Map109_Set_PPU_Banks(t)
    BY <2>3 DEF WithBanks
  <2> HIDE DEF t
  <2>7. Selects(109, t) /\ CpuFollows(109, t)
    BY <2>5 DEF Selects, CpuFollows, MovesCpu, Mmc3Boards
  <2>8. QED
    BY <2>5, <2>6, <2>7, PpuThenFollows, ApuSets
<1>2. Follows(135, Map135_Init(b))
  <2> DEFINE mid == FirstFour(b)
             z == WithReg(mid, 0, 0)
             n == [k \in DOMAIN z.bank |-> IF k < 5 THEN 0 ELSE z.bank[k]]
             t == WithBanks(z, n)
  <2>1. IsBoard(mid)
    BY BanksIs DEF Swaps
  <2>2. Map135_Init(b) = Map135_Set_PPU_Banks([z EXCEPT !.bank = n])
    BY DEF Map135_Init, WithReg
  <2> HIDE DEF mid
  <2>3. IsBoard(z) /\ z.reg[0] = 0
    BY <2>1, RegMoves
  <2> HIDE DEF z
  <2>4. DOMAIN n = 0..11
    BY <2>3 DEF IsBoard
  <2> HIDE DEF n
  <2>5. IsBoard(t) /\ t.reg[0] = 0
    BY <2>3, <2>4, NewBank
  <2>6. Map135_Init(b) = Map135_Set_PPU_Banks(t)
    BY <2>2 DEF WithBanks
  <2> HIDE DEF t
  <2>7. Selects(135, t) /\ CpuFollows(135, t)
    BY <2>5 DEF Selects, CpuFollows, MovesCpu, Mmc3Boards
  <2>8. QED
    BY <2>5, <2>6, <2>7, PpuThenFollows, ApuSets
<1>3. Follows(191, Map191_Init(b))
  <2> DEFINE z == Cleared(b)
             n == [k \in DOMAIN z.bank |-> IF k < 6 THEN 0 ELSE z.bank[k]]
             t == WithBanks(z, n)
  <2>1. IsBoard(z) /\ z.reg[0] = 0
    BY ClearedIs
  <2>2. Map191_Init(b) = Map191_Set_PPU_Banks(Map191_Set_CPU_Banks([z EXCEPT !.bank = n]))
    BY DEF Map191_Init, Cleared, WithReg
  <2> HIDE DEF z
  <2>3. DOMAIN n = 0..11
    BY <2>1 DEF IsBoard
  <2> HIDE DEF n
  <2>4. IsBoard(t) /\ t.reg[0] = 0
    BY <2>1, <2>3, NewBank
  <2>5. Map191_Init(b) = Map191_Set_PPU_Banks(Map191_Set_CPU_Banks(t))
    BY <2>2 DEF WithBanks
  <2> HIDE DEF t
  <2>6. Selects(191, t)
    BY <2>4 DEF Selects
  <2>7. Map191_Set_CPU_Banks(t) = SetCpu(191, t) /\ IsBoard(SetCpu(191, t))
    BY <2>4, ApuSets, SetCpuIs
  <2>8. Map191_Set_PPU_Banks(SetCpu(191, t)) = SetPpu(191, SetCpu(191, t))
    BY <2>7, ApuSets
  <2>9. QED
    BY <2>4, <2>5, <2>6, <2>7, <2>8, BothFollow
<1>4. QED
  BY <1>1, <1>2, <1>3

-----------------------------------------------------------------------------
(* Mapper 1.                                                               *)
LEMMA Map1Sets ==
  ASSUME NEW b, IsBoard(b)
  PROVE  Map1_set_ROM_banks(b) = SetCpu(1, b) /\ Follows(1, Map1_set_ROM_banks(b))
<1>1. \A w : CpuPage(1, b, w) = 32 * b.reg[5] + (b.bank[w + 1] % 32)
  BY DEF CpuPage
<1>2. Map1_set_ROM_banks(b) = SetCpu(1, b)
  BY <1>1, Zenon DEF Map1_set_ROM_banks, SetCpu, CpuPages
<1>3. Selects(1, b) /\ PpuFollows(1, b)
  BY DEF Selects, PpuFollows, MovesPpu, Mmc3Boards
<1>4. QED
  BY <1>2, <1>3, CpuThenFollows

(* What the windows of the CPU do not depend on.                           *)
LEMMA Map1Kept ==
  ASSUME NEW b, Follows(1, b), NEW t, IsBoard(t), t.cpu = b.cpu, t.rom = b.rom,
         t.bank = b.bank, t.reg[5] = b.reg[5]
  PROVE  Follows(1, t)
<1>1. \A w : CpuPage(1, t, w) = CpuPage(1, b, w)
  BY DEF CpuPage
<1>2. CpuPages(1, t) = CpuPages(1, b)
  BY <1>1 DEF CpuPages, RomPages
<1>3. MovesCpu(1) /\ ~MovesPpu(1, t) /\ Selects(1, t)
  BY DEF MovesCpu, MovesPpu, Selects, Mmc3Boards
<1>4. QED
  BY <1>2, <1>3 DEF Follows, CpuFollows, PpuFollows

(* The registers but the one of the 256-KB bank.                           *)
LEMMA Map1RegFollows ==
  ASSUME NEW b, Follows(1, b), NEW k \in 0..31 \ {5}, NEW v
  PROVE  Follows(1, WithReg(b, k, v))
<1> DEFINE t == WithReg(b, k, v)
<1>1. /\ IsBoard(t) /\ t.cpu = b.cpu /\ t.rom = b.rom /\ t.bank = b.bank /\ t.reg[5] = b.reg[5]
  BY RegMoves DEF Follows
<1> HIDE DEF t
<1>2. Follows(1, t)
  BY <1>1, Map1Kept
<1>3. QED
  BY <1>2 DEF t

(* The pattern windows.                                                    *)
LEMMA Map1DrawsFollow ==
  ASSUME NEW b, Follows(1, b), NEW t, Draws(b, t)
  PROVE  Follows(1, t)
BY Map1Kept DEF Draws, Registers

(* The steps of a write to the serial port.                                *)
LEMMA Map1Steps ==
  ASSUME NEW b, Follows(1, b)
  PROVE  /\ \A base : Follows(1, Map1_Base(b, base))
         /\ Follows(1, Map1_Chr0(b)) /\ Follows(1, Map1_Chr1(b)) /\ Follows(1, Map1_Prg(b))
         /\ Follows(1, Map1_Empty(b))
<1>1. IsBoard(b)
  BY DEF Follows
<1>2. ASSUME NEW base
      PROVE  Follows(1, Map1_Base(b, base))
  <2> DEFINE f == WithReg(b, 6, 1)
             mid == WithReg(b, 5, base)
             t == WithReg(mid, 6, 0)
  <2>1. Map1_Base(b, base) = IF b.reg[6] = 0 THEN f ELSE Map1_set_ROM_banks(t)
    BY DEF Map1_Base, WithReg
  <2>2. Follows(1, f)
    BY Map1RegFollows
  <2>3. IsBoard(mid)
    BY <1>1, RegMoves
  <2> HIDE DEF mid
  <2>4. IsBoard(t)
    BY <2>3, RegMoves
  <2> HIDE DEF t, f
  <2>5. Follows(1, Map1_set_ROM_banks(t))
    BY <2>4, Map1Sets
  <2>6. QED
    BY <2>1, <2>2, <2>5
<1>3. ASSUME NEW v
      PROVE  Follows(1, Map1_set_ROM_banks(WithReg(b, 5, v)))
  <2>1. IsBoard(WithReg(b, 5, v))
    BY <1>1, RegMoves
  <2>2. QED
    BY <2>1, Map1Sets
<1>4. Follows(1, Map1_Chr0(b))
  <2> DEFINE half == Bit(b.reg[1], 4)
             high == Bit(b.reg[2], 4)
             x == Map1_Base(b, half + (IF On(b.reg[0], 3) THEN 2 * high ELSE 0))
             y == Map1_set_ROM_banks(WithReg(b, 5, 3 * half))
             z == Map1_set_ROM_banks(WithReg(b, 5, half))
             c == ChrMod(b, 0, IF On(b.reg[0], 4) THEN 4 ELSE 8, 4 * b.reg[1])
  <2>1. Map1_Chr0(b) \in {x, y, z, c, b}
    BY SMT DEF Map1_Chr0, WithReg
  <2>2. Follows(1, x) /\ Follows(1, y) /\ Follows(1, z)
    BY <1>2, <1>3
  <2>3. Follows(1, c)
    BY <1>1, ChrDraws, Map1DrawsFollow
  <2> HIDE DEF x, y, z, c
  <2>4. QED
    BY <2>1, <2>2, <2>3
<1>5. Follows(1, Map1_Chr1(b))
  <2> DEFINE mid == IF Map1_Size(b) = "1024K" /\ On(b.reg[0], 3)
                    THEN Map1_Base(b, Bit(b.reg[1], 4) + 2 * Bit(b.reg[2], 4)) ELSE b
             c == ChrCRam(mid, 4, 4, 4 * b.reg[2])
             m == ChrMod(mid, 4, 4, 4 * b.reg[2])
  <2>1. Map1_Chr1(b) \in {mid, c, m}
    BY SMT DEF Map1_Chr1
  <2>2. Follows(1, mid) /\ IsBoard(mid)
    BY <1>2 DEF Follows
  <2> HIDE DEF mid
  <2>3. Follows(1, c) /\ Follows(1, m)
    BY <2>2, ChrDraws, Map1DrawsFollow
  <2> HIDE DEF c, m
  <2>4. QED
    BY <2>1, <2>2, <2>3
<1>6. Follows(1, Map1_Prg(b))
  <2> DEFINE p == 2 * b.reg[3]
             o1 == WithBank(b, 1, p)
             low == WithBank(o1, 2, p + 1)
             l1 == WithBank(low, 3, Map1_HI1(b))
             l2 == WithBank(l1, 4, Map1_HI1(b) + 1)
             h1 == WithBank(b, 1, 0)
             h2 == WithBank(h1, 2, 1)
             h3 == WithBank(h2, 3, p)
             h4 == WithBank(h3, 4, p + 1)
             w1 == WithBank(low, 3, p + 2)
             w2 == WithBank(w1, 4, p + 3)
             S == {l2, h4, b, w2, low}
  <2>1. \E x \in S : Map1_Prg(b) = Map1_set_ROM_banks(x)
    <3>1. Map1_Prg(b) = Map1_set_ROM_banks(
            CASE On(b.reg[0], 3) /\ On(b.reg[0], 2) -> l2
              [] On(b.reg[0], 3) /\ ~On(b.reg[0], 2) -> IF Map1_Size(b) = "SMALL" THEN h4 ELSE b
              [] OTHER -> IF Map1_Size(b) = "SMALL" THEN w2 ELSE low)
      BY SMT DEF Map1_Prg, WithBank
    <3> HIDE DEF l2, h4, w2, low
    <3>2. QED
      BY <3>1
  <2>2. IsBoard(o1) /\ IsBoard(h1)
    BY <1>1, BankMoves
  <2> HIDE DEF o1, h1
  <2>3. IsBoard(low) /\ IsBoard(h2)
    BY <2>2, BankMoves
  <2> HIDE DEF low, h2
  <2>4. IsBoard(l1) /\ IsBoard(w1) /\ IsBoard(h3)
    BY <2>3, BankMoves
  <2> HIDE DEF l1, w1, h3
  <2>5. IsBoard(l2) /\ IsBoard(w2) /\ IsBoard(h4)
    BY <2>4, BankMoves
  <2> HIDE DEF l2, w2, h4
  <2>6. QED
    BY <1>1, <2>1, <2>3, <2>5, Map1Sets
<1>7. Follows(1, Map1_Empty(b))
  <2> DEFINE t == Map1_Empty(b)
  <2>1. DOMAIN t = DOMAIN b
        /\ \A f \in {"rom", "vrom", "hmir", "reg", "bank", "cpu", "ppu"} : t[f] = b[f]
    BY <1>1 DEF Map1_Empty, IsBoard
  <2> HIDE DEF t
  <2>2. Follows(1, t)
    BY <1>1, <2>1, FieldsSame, StillFollows
  <2>3. QED
    BY <2>2 DEF t
<1>8. QED
  BY <1>2, <1>4, <1>5, <1>6, <1>7

(* A write to the serial port, and one with the reset bit.                 *)
LEMMA Map1Write ==
  ASSUME NEW b, Follows(1, b), NEW a \in Nat, NEW d
  PROVE  Follows(1, Map1_Write(b, a, d))
<1> DEFINE region == (a \div 8192) % 4
           e == IF region # b.reg[4] THEN Map1_Empty(b) ELSE b
           moved == Map1_Enter(b, region)
           shifted == [moved EXCEPT !.latch = @ + Bit(d, 0) * 2^moved.cnt, !.cnt = @ + 1]
           set == WithReg(shifted, region, shifted.latch)
           full == Map1_Empty(set)
           T == {Map1_Empty(moved), shifted, MirrorBy(full, full.reg[0], <<3, 2, 1, 0>>),
                 Map1_Chr0(full), Map1_Chr1(full), Map1_Prg(full), full}
           t == Map1_Write(b, a, d)
<1>1. region \in 0..3
  OBVIOUS
<1>2. t \in T
  <2>1. t = CASE On(d, 7) -> Map1_Empty(moved)
              [] ~On(d, 7) /\ shifted.cnt < 5 -> shifted
              [] OTHER -> CASE region = 0 -> MirrorBy(full, full.reg[0], <<3, 2, 1, 0>>)
                            [] region = 1 -> Map1_Chr0(full)
                            [] region = 2 -> Map1_Chr1(full)
                            [] region = 3 -> Map1_Prg(full)
                            [] OTHER -> full
    BY DEF Map1_Write, WithReg
  <2> HIDE DEF full, shifted, moved, region, t
  <2>2. QED
    BY <2>1
<1>3. moved = WithReg(e, 4, region)
  BY DEF Map1_Enter, WithReg
<1> HIDE DEF region, moved
<1>4. Follows(1, moved)
  <2>1. Follows(1, e)
    BY Map1Steps
  <2> HIDE DEF e
  <2>2. QED
    BY <1>3, <2>1, Map1RegFollows
<1>5. Follows(1, shifted)
  <2>1. DOMAIN shifted = DOMAIN moved
        /\ \A f \in {"rom", "vrom", "hmir", "reg", "bank", "cpu", "ppu"} : shifted[f] = moved[f]
    BY <1>4 DEF Follows, IsBoard
  <2> HIDE DEF shifted
  <2>2. QED
    BY <1>4, <2>1, FieldsSame, StillFollows DEF Follows
<1> HIDE DEF shifted
<1>6. Follows(1, set)
  BY <1>1, <1>5, Map1RegFollows
<1> HIDE DEF set
<1>7. Follows(1, full)
  BY <1>6, Map1Steps
<1> HIDE DEF full
<1>8. Follows(1, MirrorBy(full, full.reg[0], <<3, 2, 1, 0>>))
  BY <1>7, MirrorFollows DEF MirrorBy
<1>9. Follows(1, Map1_Empty(moved))
  BY <1>4, Map1Steps
<1>10. Follows(1, Map1_Chr0(full)) /\ Follows(1, Map1_Chr1(full)) /\ Follows(1, Map1_Prg(full))
  BY <1>7, Map1Steps
<1> HIDE DEF t
<1>11. Follows(1, t)
  BY <1>2, <1>5, <1>7, <1>8, <1>9, <1>10
<1>12. QED
  BY <1>11 DEF t

(* The Init of mapper 1.                                                   *)
LEMMA Map1InitFollows ==
  ASSUME NEW b, IsBoard(b)
  PROVE  Follows(1, Map1_Init(b))
<1> DEFINE mid == [b EXCEPT !.sram = Sram, !.cnt = 0, !.latch = 0]
           q == WithReg(WithReg(WithReg(mid, 0, 12), 1, 0), 2, 0)
           r == WithReg(WithReg(WithReg(q, 3, 0), 5, 0), 6, 0)
           o == WithBank(WithBank(r, 1, 0), 2, 1)
           n == WithBank(WithBank(o, 3, Map1_HI1(b)), 4, Map1_HI1(b) + 1)
<1>1. Map1_Init(b) = Map1_set_ROM_banks(n)
  BY DEF Map1_Init, WithReg, WithBank
<1>2. IsBoard(mid)
  <2>1. DOMAIN mid = DOMAIN b
        /\ \A f \in {"rom", "vrom", "hmir", "reg", "bank", "cpu", "ppu"} : mid[f] = b[f]
    BY DEF IsBoard
  <2> HIDE DEF mid
  <2>2. QED
    BY <2>1, FieldsSame DEF Still, Idle
<1> HIDE DEF mid
<1>3. \A x : IsBoard(x) => /\ \A k \in 0..31 : \A v : IsBoard(WithReg(x, k, v))
                           /\ \A k \in 0..11 : \A v : IsBoard(WithBank(x, k, v))
  BY RegMoves, BankMoves
<1>4. IsBoard(r)
  BY <1>2, <1>3
<1> HIDE DEF r
<1>5. IsBoard(n)
  BY <1>3, <1>4
<1> HIDE DEF n
<1>6. QED
  BY <1>1, <1>5, Map1Sets

-----------------------------------------------------------------------------
(* The name tables the registers of boards 51 and 68 call for.             *)
Mirrored(type) == [k \in 0..3 |-> VRam(PPU_MirrorTable[type + 1][k + 1])]
(* The name tables that the registers call for: 51 by its mode, 68 by its  *)
(* mirroring register or pages of pattern ROM.                             *)
NamePages(no, b) ==
  IF no = 51 THEN Mirrored(IF b.reg[0] = 3 THEN 0 ELSE 1)
  ELSE IF b.reg[0] = 0 THEN Mirrored(b.reg[1])
  ELSE LET r == << <<2, 3, 2, 3>>, <<2, 2, 3, 3>>, <<2, 2, 2, 2>>, <<3, 3, 3, 3>> >>[b.reg[1] + 1]
       IN  [k \in 0..3 |-> VRom(b.reg[r[k + 1]] + 128)]
(* They are shown, unless board 68 has not written its registers yet: its  *)
(* Init clears them and leaves the name tables to the header.              *)
NamesFollow(no, b) ==
  /\ no = 51 => Names(b) = NamePages(no, b)
  /\ no = 68 => \/ Names(b) = NamePages(no, b)
                \/ b.reg[0] = 0 /\ b.reg[1] = 0 /\ Names(b) = Mirrored(b.hmir)
(* All windows follow the registers.                                       *)
AllFollow(no, b) == Follows(no, b) /\ NamesFollow(no, b)

(* The name tables depend on the registers only.                           *)
LEMMA NamesKept ==
  ASSUME NEW no, NEW b, NamesFollow(no, b), NEW t, Names(t) = Names(b), Registers(t) = Registers(b)
  PROVE  NamesFollow(no, t)
<1>1. t.reg = b.reg /\ t.hmir = b.hmir
  BY DEF Registers
<1>2. NamePages(no, t) = NamePages(no, b)
  BY <1>1 DEF NamePages
<1>3. QED
  BY <1>1, <1>2 DEF NamesFollow

(* InfoNES_Mirroring shows the tables of its type.                         *)
LEMMA MirroredIs ==
  ASSUME NEW b, IsBoard(b), NEW type
  PROVE  Idle(b, InfoNES_Mirroring(b, type)) /\ Names(InfoNES_Mirroring(b, type)) = Mirrored(type)
BY MirrorIdle DEF Mirrored

(* Map51_Set_CPU_Banks moves the windows of the CPU and the name tables.   *)
LEMMA Map51Sets ==
  ASSUME NEW b, IsBoard(b)
  PROVE  LET t == Map51_Set_CPU_Banks(b)
         IN  AllFollow(51, t) /\ t.cpu = CpuPages(51, b) /\ Patterns(t) = Patterns(b)
             /\ Names(t) = NamePages(51, b) /\ IsBoard(t)
<1> DEFINE mid == SetCpu(51, b)
           type == IF b.reg[0] = 3 THEN 0 ELSE 1
           m == InfoNES_Mirroring(mid, type)
           v == Rom(Or(b.reg[1], CASE b.reg[0] = 0 -> 47 [] b.reg[0] = 2 -> 47 [] OTHER -> 35)
                      % RomPages(b))
           t == [m EXCEPT !.sram = v]
<1>1. Map51_Set_CPU_Banks(b) = t
  <2>1. CpuPages(51, b) = [w \in 0..3 |-> Rom(Map51Page(b, w) % RomPages(b))]
    BY DEF CpuPages, CpuPage
  <2>2. CpuWin(b, 0, [k \in 0..3 |-> Rom(Map51Page(b, k) % RomPages(b))]) = mid
    BY <2>1 DEF SetCpu
  <2> HIDE DEF mid
  <2>3. Map51_Set_CPU_Banks(b) =
          [InfoNES_Mirroring(
             CpuWin(b, 0, [k \in 0..3 |-> Rom(Map51Page(b, k) % RomPages(b))]), type)
             EXCEPT !.sram = v]
    BY DEF Map51_Set_CPU_Banks, Map51Page
  <2>4. QED
    BY <2>2, <2>3
<1> HIDE DEF v
<1>2. IsBoard(mid) /\ mid.cpu = CpuPages(51, b) /\ mid.ppu = b.ppu /\ Registers(mid) = Registers(b)
  BY SetCpuIs
<1> HIDE DEF mid
<1>3. Idle(mid, m) /\ Names(m) = Mirrored(type)
  BY <1>2, MirroredIs
<1> HIDE DEF m
<1>4. Still(m, t)
  BY <1>3, FieldsStill DEF Idle
<1> HIDE DEF t
<1>5. /\ IsBoard(t) /\ t.cpu = CpuPages(51, b) /\ Patterns(t) = Patterns(b)
      /\ Names(t) = Mirrored(type) /\ Registers(t) = Registers(b)
  BY <1>2, <1>3, <1>4 DEF Still, Idle, Names, Patterns
<1>6. Names(t) = NamePages(51, b)
  BY <1>5 DEF NamePages
<1>7. t.reg = b.reg
  BY <1>5 DEF Registers
<1>8. NamesFollow(51, t)
  BY <1>6, <1>7 DEF NamesFollow, NamePages
<1>9. Selects(51, t) /\ PpuFollows(51, t)
  BY DEF Selects, PpuFollows, MovesPpu, Mmc3Boards
<1>10. CpuFollows(51, t)
  BY <1>5, PagesByRegisters DEF CpuFollows
<1>11. QED
  BY <1>1, <1>5, <1>6, <1>8, <1>9, <1>10 DEF AllFollow, Follows

(* Its handlers write registers and then call it.                          *)
LEMMA Map51Handlers ==
  ASSUME NEW b, IsBoard(b), NEW a, NEW d
  PROVE  /\ AllFollow(51, Map51_Init(b)) /\ AllFollow(51, Map51_Write(b, a, d))
         /\ AllFollow(51, b) => AllFollow(51, Map51_Sram(b, a, d))
<1>1. \A x : IsBoard(x) => \A k \in 0..31 : \A v : IsBoard(WithReg(x, k, v))
  BY RegMoves
<1>2. AllFollow(51, Map51_Init(b))
  <2> DEFINE x == WithReg(WithReg(b, 0, 1), 1, 0)
             mid == Map51_Set_CPU_Banks(x)
             p == [k \in 0..7 |-> CRam(0 + k)]
             q == [k \in 0..(8 - 1) |-> CRam(0 + k)]
             t == InfoNES_SetupChr(PpuWin(mid, 0, p))
  <2>1. Map51_Init(b) = InfoNES_SetupChr(PpuWin(mid, 0, q))
    BY DEF Map51_Init, WithReg, ChrCRam
  <2>2. p = q /\ p = [k \in 0..7 |-> p[k]]
    OBVIOUS
  <2>3. IsBoard(x)
    BY <1>1
  <2> HIDE DEF p, q, x
  <2>4. AllFollow(51, mid) /\ IsBoard(mid)
    BY <2>3, Map51Sets
  <2> HIDE DEF mid
  <2>5. IsBoard(t) /\ t.cpu = mid.cpu /\ Names(t) = Names(mid) /\ Registers(t) = Registers(mid)
    BY <2>2, <2>4, PatternsAre
  <2> HIDE DEF t
  <2>6. NamesFollow(51, t)
    BY <2>4, <2>5, NamesKept DEF AllFollow
  <2>7. Selects(51, t) /\ PpuFollows(51, t)
    BY DEF Selects, PpuFollows, MovesPpu, Mmc3Boards
  <2>8. CpuFollows(51, t)
    BY <2>4, <2>5, PagesByRegisters DEF CpuFollows, AllFollow, Follows
  <2>9. AllFollow(51, t)
    BY <2>5, <2>6, <2>7, <2>8 DEF AllFollow, Follows
  <2>10. QED
    BY <2>1, <2>2, <2>9 DEF t
<1>3. AllFollow(51, Map51_Write(b, a, d))
  <2> DEFINE mid == WithReg(b, 1, 4 * (d % 16))
             x == WithReg(mid, 0, IF a \in \hC000..\hDFFF THEN (b.reg[0] % 2) + 2 * Bit(d, 4)
                               ELSE b.reg[0])
  <2>1. Map51_Write(b, a, d) = Map51_Set_CPU_Banks(x)
    BY DEF Map51_Write, WithReg
  <2>2. IsBoard(mid)
    BY <1>1
  <2> HIDE DEF mid
  <2>3. IsBoard(x)
    BY <1>1, <2>2
  <2> HIDE DEF x
  <2>4. QED
    BY <2>1, <2>3, Map51Sets
<1>4. ASSUME AllFollow(51, b)
      PROVE  AllFollow(51, Map51_Sram(b, a, d))
  <2> DEFINE x == WithReg(b, 0, 2 * Bit(d, 4) + Bit(d, 1))
  <2>1. Map51_Sram(b, a, d) \in {Map51_Set_CPU_Banks(x), b}
    BY DEF Map51_Sram, WithReg
  <2>2. IsBoard(x)
    BY <1>1
  <2> HIDE DEF x
  <2>3. QED
    BY <1>4, <2>1, <2>2, Map51Sets
<1>5. QED
  BY <1>2, <1>3, <1>4

(* Board 68.                                                               *)
LEMMA Follows68 ==
  ASSUME NEW b, IsBoard(b)
  PROVE  Follows(68, b)
BY DEF Follows, Selects, CpuFollows, PpuFollows, MovesCpu, MovesPpu, Mmc3Boards

(* Map68_SyncMirror moves the name tables.                                 *)
LEMMA Map68Sets ==
  ASSUME NEW b, IsBoard(b)
  PROVE  LET t == Map68_SyncMirror(b)
         IN  /\ AllFollow(68, t) /\ IsBoard(t) /\ t.cpu = b.cpu
             /\ Patterns(t) = Patterns(b) /\ Names(t) = NamePages(68, b)
<1> DEFINE r == << <<2, 3, 2, 3>>, <<2, 2, 3, 3>>, <<2, 2, 2, 2>>, <<3, 3, 3, 3>> >>[b.reg[1] + 1]
           p == [k \in 0..3 |-> VRom(b.reg[r[k + 1]] + 128)]
           u == PpuWin(b, 8, p)
           m == InfoNES_Mirroring(b, b.reg[1])
           t == Map68_SyncMirror(b)
<1>1. t = IF b.reg[0] # 0 THEN InfoNES_SetupChr(u) ELSE m
  BY DEF Map68_SyncMirror
<1>2. NamePages(68, b) = IF b.reg[0] # 0 THEN p ELSE Mirrored(b.reg[1])
  BY DEF NamePages
<1>3. p = [k \in 0..3 |-> p[k]]
  OBVIOUS
<1> HIDE DEF p
<1>4. Idle(b, u) /\ Names(u) = p
  BY <1>3, NamesMove
<1> HIDE DEF u
<1>5. Still(u, InfoNES_SetupChr(u))
  BY <1>4, SetupChrStill DEF Idle
<1>6. Idle(b, m) /\ Names(m) = Mirrored(b.reg[1])
  BY MirroredIs
<1> HIDE DEF m, t
<1>7. Idle(b, t) /\ Names(t) = NamePages(68, b)
  BY <1>1, <1>2, <1>4, <1>5, <1>6 DEF Idle, Still, Names
<1>8. t.reg = b.reg
  BY <1>7 DEF Idle, Registers
<1>9. NamePages(68, t) = NamePages(68, b)
  BY <1>8 DEF NamePages
<1>10. AllFollow(68, t)
  BY <1>7, <1>9, Follows68 DEF AllFollow, NamesFollow, Idle
<1>11. QED
  BY <1>7, <1>10 DEF Idle, t

(* The writes to its registers call it.                                    *)
LEMMA Map68Write ==
  ASSUME NEW b, AllFollow(68, b), NEW a, NEW d
  PROVE  AllFollow(68, Map68_Write(b, a, d))
<1> DEFINE c(i) == Chr(b, i, 2, (2 * (d % (4 * b.vrom))) % 256)
           x(k) == WithReg(b, k, d)
           y == WithReg(WithReg(b, 0, Bit(d, 4)), 1, d % 4)
           p == Prg(b, 0, 2, (2 * (d % b.rom)) % 256)
           T == {c(0), c(2), c(4), c(6), Map68_SyncMirror(x(2)), Map68_SyncMirror(x(3)),
                 Map68_SyncMirror(y), p, b}
           t == Map68_Write(b, a, d)
<1>1. IsBoard(b)
  BY DEF AllFollow, Follows
<1>2. t \in T
  <2>1. t = CASE a \in {\h8000, \h9000, \hA000, \hB000} -> c(2 * ((a \div 4096) - 8))
              [] a \in {\hC000, \hD000} -> Map68_SyncMirror(x((a \div 4096) - 10))
              [] a = \hE000 -> Map68_SyncMirror(y)
              [] a = \hF000 -> p
              [] OTHER -> b
    BY DEF Map68_Write, WithReg
  <2> HIDE DEF c, x, y, p, t
  <2>2. a \in {\h8000, \h9000, \hA000, \hB000} => 2 * ((a \div 4096) - 8) \in {0, 2, 4, 6}
    OBVIOUS
  <2>3. a \in {\hC000, \hD000} => (a \div 4096) - 10 \in {2, 3}
    OBVIOUS
  <2>4. QED
    BY <2>1, <2>2, <2>3
<1>3. ASSUME NEW i \in {0, 2, 4, 6}
      PROVE  AllFollow(68, c(i))
  <2>1. Draws(b, c(i))
    BY <1>1, ChrDraws
  <2>2. Names(c(i)) = Names(b)
    BY <1>1, ChrKeepsNames
  <2> HIDE DEF c
  <2>3. QED
    BY <2>1, <2>2, NamesKept, Follows68 DEF AllFollow, Draws
<1>4. \A k \in {2, 3} : IsBoard(x(k))
  BY <1>1, RegMoves
<1>5. IsBoard(y)
  <2>1. \A z : IsBoard(z) => \A k \in 0..31 : \A v : IsBoard(WithReg(z, k, v))
    BY RegMoves
  <2>2. QED
    BY <1>1, <2>1
<1>6. AllFollow(68, p)
  <2>1. Swaps(b, p)
    BY <1>1, PrgSwaps
  <2> HIDE DEF p
  <2>2. QED
    BY <2>1, NamesKept, Follows68 DEF AllFollow, Swaps, Names
<1> HIDE DEF c, x, y, p, t
<1>7. AllFollow(68, t)
  BY <1>2, <1>3, <1>4, <1>5, <1>6, Map68Sets
<1>8. QED
  BY <1>7 DEF t

(* Its Init does not.                                                      *)
LEMMA Map68Init ==
  ASSUME NEW b, IsBoard(b), Names(b) = Mirrored(b.hmir)
  PROVE  AllFollow(68, Map68_Init(b))
<1> DEFINE mid == FirstAndLast(b)
           t == ZeroRegs(mid, 4)
<1>1. IsBoard(mid) /\ mid.ppu = b.ppu /\ mid.hmir = b.hmir
  BY BanksIs DEF Swaps, Registers
<1> HIDE DEF mid
<1>2. IsBoard(t) /\ t.ppu = mid.ppu /\ t.hmir = mid.hmir /\ t.reg[0] = 0 /\ t.reg[1] = 0
  BY <1>1, ZeroRegsIs
<1> HIDE DEF t
<1>3. Names(t) = Mirrored(t.hmir)
  BY <1>1, <1>2 DEF Names
<1>4. AllFollow(68, t)
  BY <1>2, <1>3, Follows68 DEF AllFollow, NamesFollow
<1>5. QED
  BY <1>4 DEF Map68_Init, mid, t

-----------------------------------------------------------------------------
(* The boards whose windows follow registers.                              *)
Followers == Mmc3Boards \cup {1, 46, 51, 68, 96, 109, 135, 191}

(* The windows of the PPU are pattern windows and name tables.             *)
LEMMA SamePpu ==
  ASSUME NEW b, IsBoard(b), NEW t, IsBoard(t), Patterns(t) = Patterns(b), Names(t) = Names(b)
  PROVE  t.ppu = b.ppu
<1>1. \A w \in 0..7 : Patterns(t)[w] = t.ppu[w] /\ Patterns(b)[w] = b.ppu[w]
  BY DEF Patterns
<1>2. \A w \in 0..3 : Names(t)[w] = t.ppu[w + 8] /\ Names(b)[w] = b.ppu[w + 8]
  BY DEF Names
<1>3. \A w \in 0..7 : t.ppu[w] = b.ppu[w]
  BY <1>1
<1>4. ASSUME NEW w \in 8..11 PROVE t.ppu[w] = b.ppu[w]
  <2>1. w - 8 \in 0..3 /\ (w - 8) + 8 = w
    OBVIOUS
  <2>2. QED
    BY <1>2, <2>1
<1>5. \A w \in 0..11 : t.ppu[w] = b.ppu[w]
  BY <1>3, <1>4
<1>6. QED
  BY <1>5 DEF IsBoard

(* Moving windows that follow the registers moves nothing.                 *)
LEMMA SetsSame ==
  ASSUME NEW no, NEW b, Follows(no, b)
  PROVE  /\ IsBoard(SetPpu(no, b)) /\ SetPpu(no, b).cpu = b.cpu /\ SetPpu(no, b).ppu = b.ppu
         /\ Follows(no, SetPpu(no, b))
         /\ MovesCpu(no) => /\ Follows(no, SetCpu(no, b)) /\ SetCpu(no, b).cpu = b.cpu
                            /\ SetCpu(no, b).ppu = b.ppu
<1>1. IsBoard(b)
  BY DEF Follows
<1>2. /\ IsBoard(SetPpu(no, b)) /\ SetPpu(no, b).cpu = b.cpu /\ Names(SetPpu(no, b)) = Names(b)
      /\ Patterns(SetPpu(no, b)) = Patterns(b)
  BY <1>1, SetPpuIs DEF Follows, PpuFollows
<1>3. SetPpu(no, b).ppu = b.ppu
  BY <1>1, <1>2, SamePpu
<1>4. Follows(no, SetPpu(no, b))
  BY PpuThenFollows DEF Follows
<1>5. ASSUME MovesCpu(no)
      PROVE  /\ Follows(no, SetCpu(no, b)) /\ SetCpu(no, b).cpu = b.cpu
             /\ SetCpu(no, b).ppu = b.ppu
  BY <1>1, <1>5, SetCpuIs, CpuThenFollows DEF Follows, CpuFollows
<1>6. QED
  BY <1>2, <1>3, <1>4, <1>5

(* Nor does moving both.                                                   *)
LEMMA BothSame ==
  ASSUME NEW no, NEW b, Follows(no, b), MovesCpu(no)
  PROVE  /\ SetCpu(no, SetPpu(no, b)).cpu = b.cpu /\ SetCpu(no, SetPpu(no, b)).ppu = b.ppu
         /\ SetPpu(no, SetCpu(no, b)).cpu = b.cpu /\ SetPpu(no, SetCpu(no, b)).ppu = b.ppu
<1> DEFINE mid == SetCpu(no, b)
           t == SetPpu(no, b)
<1>1. /\ Follows(no, mid) /\ mid.cpu = b.cpu /\ mid.ppu = b.ppu
      /\ Follows(no, t) /\ t.cpu = b.cpu /\ t.ppu = b.ppu
  BY SetsSame
<1> HIDE DEF mid, t
<1>2. SetCpu(no, t).cpu = b.cpu /\ SetCpu(no, t).ppu = b.ppu
  BY <1>1, SetsSame
<1>3. SetPpu(no, mid).cpu = b.cpu /\ SetPpu(no, mid).ppu = b.ppu
  BY <1>1, SetsSame
<1>4. QED
  BY <1>2, <1>3 DEF mid, t

(* So the functions of a board whose windows follow its registers leave    *)
(* the windows as they are, but for the name tables of a board 68 just     *)
(* reset.                                                                  *)
LEMMA SetBanksSame ==
  ASSUME NEW no \in Followers, NEW b, AllFollow(no, b)
  PROVE  /\ SetBanks(no, b).cpu = b.cpu
         /\ \/ SetBanks(no, b).ppu = b.ppu
            \/ /\ no = 68 /\ b.reg[0] = 0 /\ b.reg[1] = 0
               /\ b.ppu = InfoNES_Mirroring(b, b.hmir).ppu
<1>1. Follows(no, b) /\ NamesFollow(no, b) /\ IsBoard(b)
  BY DEF AllFollow, Follows
<1>2. CASE no \in Mmc3Boards
  <2>1. MovesCpu(no)
    BY <1>2 DEF MovesCpu
  <2>2. IsBoard(SetPpu(no, b))
    BY <1>1, SetPpuIs
  <2>3. SetBanks(no, b) = SetCpu(no, SetPpu(no, b))
    <3> DEFINE mid == SetPpu(no, b)
    <3>1. no \in {95, 112, 114, 116, 118} => Mmc3Chr(b) = mid /\ Mmc3Prg(mid) = SetCpu(no, mid)
      BY <1>1, <2>2, Mmc3Sets
    <3>2. no \in {4, 74} => Map4_Set_PPU_Banks(b) = mid /\ Mmc3Prg(mid) = SetCpu(no, mid)
      BY <1>1, <2>2, Mmc3Sets
    <3>3. no \in {44, 47} =>
            Map44_Set_PPU_Banks(b) = mid /\ Map44_Set_CPU_Banks(mid) = SetCpu(no, mid)
      BY <1>1, <2>2, OwnSets
    <3>4. no = 115 => Map115_Set_PPU_Banks(b) = mid /\ Map115_Set_CPU_Banks(mid) = SetCpu(no, mid)
      BY <1>1, <2>2, OwnSets
    <3>5. no = 119 => Map119_Set_PPU_Banks(b) = mid /\ Map119_Set_CPU_Banks(mid) = SetCpu(no, mid)
      BY <1>1, <2>2, OwnSets
    <3> HIDE DEF mid
    <3>6. /\ no = 4 => SetBanks(no, b) = Mmc3Prg(Map4_Set_PPU_Banks(b))
          /\ no = 74 => SetBanks(no, b) = Mmc3Prg(Map4_Set_PPU_Banks(b))
      BY SMT DEF SetBanks, Map4_Set_CPU_Banks, Map74_Set_CPU_Banks, Map74_Set_PPU_Banks
    <3>7. /\ no = 44 => SetBanks(no, b) = Map44_Set_CPU_Banks(Map44_Set_PPU_Banks(b))
          /\ no = 47 => SetBanks(no, b) = Map44_Set_CPU_Banks(Map44_Set_PPU_Banks(b))
          /\ no = 115 => SetBanks(no, b) = Map115_Set_CPU_Banks(Map115_Set_PPU_Banks(b))
          /\ no = 119 => SetBanks(no, b) = Map119_Set_CPU_Banks(Map119_Set_PPU_Banks(b))
      BY SMT DEF SetBanks, Map47_Set_CPU_Banks, Map47_Set_PPU_Banks
    <3>8. no \in {95, 112, 114, 116, 118} => SetBanks(no, b) = Mmc3Prg(Mmc3Chr(b))
      BY SMT DEF SetBanks, Map95_Set_CPU_Banks, Map95_Set_PPU_Banks, Map112_Set_CPU_Banks,
         Map112_Set_PPU_Banks, Map114_Set_CPU_Banks, Map114_Set_PPU_Banks, Map116_Set_CPU_Banks,
         Map116_Set_PPU_Banks, Map118_Set_CPU_Banks, Map118_Set_PPU_Banks
    <3>9. SetBanks(no, b) = SetCpu(no, mid)
      BY <1>2, <3>1, <3>2, <3>3, <3>4, <3>5, <3>6, <3>7, <3>8 DEF Mmc3Boards
    <3>10. QED
      BY <3>9 DEF mid
  <2>4. QED
    BY <1>1, <2>1, <2>3, BothSame
<1>3. CASE no = 1
  <2>1. SetBanks(no, b) = SetCpu(1, b)
    BY <1>1, <1>3, Map1Sets DEF SetBanks
  <2>2. MovesCpu(1)
    BY DEF MovesCpu
  <2>3. QED
    BY <1>1, <1>3, <2>1, <2>2, SetsSame
<1>4. CASE no = 46
  <2>1. SetBanks(no, b) = SetPpu(46, SetCpu(46, b))
    BY <1>1, <1>4, Map46Follows DEF SetBanks
  <2>2. MovesCpu(46)
    BY DEF MovesCpu
  <2>3. QED
    BY <1>1, <1>4, <2>1, <2>2, BothSame
<1>5. CASE no = 51
  <2> DEFINE t == Map51_Set_CPU_Banks(b)
  <2>1. SetBanks(no, b) = t
    BY <1>5 DEF SetBanks
  <2>2. /\ IsBoard(t) /\ t.cpu = CpuPages(51, b) /\ Patterns(t) = Patterns(b)
        /\ Names(t) = NamePages(51, b)
    BY <1>1, Map51Sets DEF AllFollow, Follows
  <2> HIDE DEF t
  <2>3. MovesCpu(51)
    BY DEF MovesCpu
  <2>4. t.cpu = b.cpu /\ Names(t) = Names(b)
    BY <1>1, <1>5, <2>2, <2>3 DEF Follows, CpuFollows, NamesFollow
  <2>5. QED
    BY <1>1, <2>1, <2>2, <2>4, SamePpu
<1>6. CASE no = 68
  <2> DEFINE t == Map68_SyncMirror(b)
             m == InfoNES_Mirroring(b, b.hmir)
  <2>1. SetBanks(no, b) = t
    BY <1>6 DEF SetBanks
  <2>2. IsBoard(t) /\ t.cpu = b.cpu /\ Patterns(t) = Patterns(b) /\ Names(t) = NamePages(68, b)
    BY <1>1, Map68Sets
  <2>3. IsBoard(m) /\ Patterns(m) = Patterns(b) /\ Names(m) = Mirrored(b.hmir)
    BY <1>1, MirroredIs DEF Idle
  <2> HIDE DEF t, m
  <2>4. CASE Names(b) = NamePages(68, b)
    BY <1>1, <2>1, <2>2, <2>4, SamePpu
  <2>5. CASE b.reg[0] = 0 /\ b.reg[1] = 0 /\ Names(b) = Mirrored(b.hmir)
    <3>1. b.ppu = m.ppu
      BY <1>1, <2>3, <2>5, SamePpu
    <3>2. QED
      BY <1>6, <2>1, <2>2, <2>5, <3>1 DEF m
  <2>6. QED
    BY <1>1, <1>6, <2>4, <2>5 DEF NamesFollow
<1>7. CASE no = 96
  <2> DEFINE t == Map96_Set_Banks(b)
  <2>1. SetBanks(no, b) = t
    BY <1>7 DEF SetBanks
  <2>2. Draws(b, t) /\ Patterns(t) = PatternPages(96, b) /\ Names(t) = Names(b)
    BY <1>1, Map96Follows
  <2> HIDE DEF t
  <2>3. MovesPpu(96, b)
    BY DEF MovesPpu
  <2>4. Patterns(t) = Patterns(b)
    BY <1>1, <1>7, <2>2, <2>3 DEF Follows, PpuFollows
  <2>5. QED
    BY <1>1, <2>1, <2>2, <2>4, SamePpu DEF Draws
<1>8. CASE no \in {109, 135}
  <2>1. SetBanks(no, b) = SetPpu(no, b)
    BY <1>1, <1>8, ApuSets DEF SetBanks
  <2>2. QED
    BY <1>1, <2>1, SetsSame
<1>9. CASE no = 191
  <2>1. SetBanks(no, b) = Map191_Set_CPU_Banks(Map191_Set_PPU_Banks(b))
    BY <1>9 DEF SetBanks
  <2>2. Map191_Set_PPU_Banks(b) = SetPpu(191, b) /\ IsBoard(SetPpu(191, b))
    BY <1>1, ApuSets, SetPpuIs
  <2>3. SetBanks(no, b) = SetCpu(191, SetPpu(191, b))
    BY <2>1, <2>2, ApuSets
  <2>4. MovesCpu(191)
    BY DEF MovesCpu
  <2>5. QED
    BY <1>1, <1>9, <2>3, <2>4, BothSame
<1>10. QED
  BY <1>2, <1>3, <1>4, <1>5, <1>6, <1>7, <1>8, <1>9 DEF Followers

-----------------------------------------------------------------------------
(* The handlers of these boards in the table of mappers.                   *)
LEMMA WriteIs ==
  ASSUME NEW b, NEW a, NEW d, NEW line
  PROVE  /\ MapperWrite(1, b, a, d, line) = Map1_Write(b, a, d)
         /\ MapperWrite(4, b, a, d, line) = Map4_Write(b, a, d, line)
         /\ MapperWrite(44, b, a, d, line) = Map44_Write(b, a, d)
         /\ MapperWrite(46, b, a, d, line) = Map46_Write(b, a, d)
         /\ MapperWrite(47, b, a, d, line) = Map47_Write(b, a, d)
         /\ MapperWrite(51, b, a, d, line) = Map51_Write(b, a, d)
         /\ MapperWrite(68, b, a, d, line) = Map68_Write(b, a, d)
         /\ MapperWrite(74, b, a, d, line) = Map4_Write(b, a, d, line)
         /\ MapperWrite(95, b, a, d, line) = Map95_Write(b, a, d)
         /\ MapperWrite(96, b, a, d, line) = Map96_Write(b, a, d)
         /\ MapperWrite(112, b, a, d, line) = Map112_Write(b, a, d)
         /\ MapperWrite(114, b, a, d, line) = Map114_Write(b, a, d)
         /\ MapperWrite(115, b, a, d, line) = Map115_Write(b, a, d)
         /\ MapperWrite(116, b, a, d, line) = Map116_Write(b, a, d)
         /\ MapperWrite(118, b, a, d, line) = Map118_Write(b, a, d)
         /\ MapperWrite(119, b, a, d, line) = Map119_Write(b, a, d)
         /\ \A no \in {109, 135, 191} : MapperWrite(no, b, a, d, line) = b
BY SMTT(60) DEF MapperWrite, Map74_Write
(* The Inits of the table.                                                 *)
LEMMA InitIs ==
  ASSUME NEW b, NEW overrun
  PROVE  /\ MapperInit(1, b, overrun) = Map1_Init(b) /\ MapperInit(4, b, overrun) = Map4_Init(b)
         /\ MapperInit(44, b, overrun) = Map44_Init(b) /\ MapperInit(46, b, overrun) = Map46_Init(b)
         /\ MapperInit(47, b, overrun) = Map44_Init(b) /\ MapperInit(51, b, overrun) = Map51_Init(b)
         /\ MapperInit(68, b, overrun) = Map68_Init(b) /\ MapperInit(74, b, overrun) = Map4_Init(b)
         /\ MapperInit(95, b, overrun) = Map95_Init(b) /\ MapperInit(96, b, overrun) = Map96_Init(b)
         /\ MapperInit(109, b, overrun) = Map109_Init(b)
         /\ MapperInit(112, b, overrun) = Mmc3Init(b)
         /\ MapperInit(114, b, overrun) = Mmc3Init(b)
         /\ MapperInit(115, b, overrun) = Map115_Init(b)
         /\ MapperInit(116, b, overrun) = Mmc3Init(b) /\ MapperInit(118, b, overrun) = Mmc3Init(b)
         /\ MapperInit(119, b, overrun) = Map119_Init(b)
         /\ MapperInit(135, b, overrun) = Map135_Init(b)
         /\ MapperInit(191, b, overrun) = Map191_Init(b)
BY SMTT(60) DEF MapperInit, Map47_Init, Map74_Init, Map112_Init, Map114_Init, Map116_Init,
   Map118_Init

(* Its entries for the other areas, the PPU and the end of the frame.      *)
LEMMA OtherIs ==
  ASSUME NEW b, NEW a, NEW d, NEW line, NEW show, NEW mode
  PROVE  /\ MapperSram(46, b, a, d) = Map46_Sram(b, a, d)
         /\ MapperSram(47, b, a, d) = Map47_Sram(b, a, d)
         /\ MapperSram(51, b, a, d) = Map51_Sram(b, a, d)
         /\ MapperSram(114, b, a, d) = Map114_Sram(b, a, d)
         /\ MapperSram(115, b, a, d) = Map115_Sram(b, a, d)
         /\ \A no \in Followers \ {46, 47, 51, 114, 115} : MapperSram(no, b, a, d) = b
         /\ MapperApu(109, b, a, d) = Map109_Apu(b, a, d)
         /\ MapperApu(135, b, a, d) = Map135_Apu(b, a, d)
         /\ MapperApu(191, b, a, d) = Map191_Apu(b, a, d)
         /\ \A no \in Followers \ ApuBoards : MapperApu(no, b, a, d) = b
         /\ \A no \in Followers : MapperReadApu(no, b, a) = b /\ MapperRenderScreen(no, b, mode) = b
         /\ MapperPPU(96, b, a) = Map96_PPU(b, a)
         /\ \A no \in Followers \ {96} : MapperPPU(no, b, a) = b
<1>1. /\ MapperSram(46, b, a, d) = Map46_Sram(b, a, d)
      /\ MapperSram(47, b, a, d) = Map47_Sram(b, a, d)
      /\ MapperSram(51, b, a, d) = Map51_Sram(b, a, d)
      /\ MapperSram(114, b, a, d) = Map114_Sram(b, a, d)
      /\ MapperSram(115, b, a, d) = Map115_Sram(b, a, d)
      /\ \A no \in Followers \ {46, 47, 51, 114, 115} : MapperSram(no, b, a, d) = b
  BY SMTT(60) DEF MapperSram, Followers, Mmc3Boards
<1>2. /\ MapperApu(109, b, a, d) = Map109_Apu(b, a, d)
      /\ MapperApu(135, b, a, d) = Map135_Apu(b, a, d)
      /\ MapperApu(191, b, a, d) = Map191_Apu(b, a, d)
      /\ \A no \in Followers \ ApuBoards : MapperApu(no, b, a, d) = b
  BY SMTT(60) DEF MapperApu, Followers, Mmc3Boards, ApuBoards
<1>3. /\ \A no \in Followers : MapperReadApu(no, b, a) = b /\ MapperRenderScreen(no, b, mode) = b
      /\ MapperPPU(96, b, a) = Map96_PPU(b, a)
      /\ \A no \in Followers \ {96} : MapperPPU(no, b, a) = b
  BY SMTT(60) DEF MapperReadApu, MapperRenderScreen, MapperPPU, Followers, Mmc3Boards
<1>4. QED
  BY <1>1, <1>2, <1>3

(* Its scanline callbacks.                                                 *)
LEMMA HSyncIs ==
  ASSUME NEW b, NEW line, NEW show
  PROVE  /\ \A no \in {4, 74} : MapperHSync(no, b, line, show) = Map4_HSync(b, line, show)
         /\ MapperHSync(47, b, line, show) = Map47_HSync(b, line, show)
         /\ \A no \in {44, 112, 114, 115, 116, 118, 119} :
              MapperHSync(no, b, line, show) = CountToZero(b, line, show)
         /\ \A no \in {1, 46, 51, 68, 95, 96, 109, 135, 191} : MapperHSync(no, b, line, show) = b
<1>1. \A no \in {4, 74} : MapperHSync(no, b, line, show) = Map4_HSync(b, line, show)
  BY SMTT(60) DEF MapperHSync, Map74_HSync
<1>2. MapperHSync(47, b, line, show) = Map47_HSync(b, line, show)
  BY SMTT(60) DEF MapperHSync
<1>3. \A no \in {44, 112, 114, 115, 116, 118, 119} :
        MapperHSync(no, b, line, show) = CountToZero(b, line, show)
  BY SMTT(60) DEF MapperHSync, Map44_HSync, Map112_HSync, Map114_HSync, Map115_HSync,
     Map116_HSync, Map118_HSync, Map119_HSync
<1>4. \A no \in {1, 46, 51, 68, 95, 96, 109, 135, 191} : MapperHSync(no, b, line, show) = b
  BY SMTT(60) DEF MapperHSync
<1>5. QED
  BY <1>1, <1>2, <1>3, <1>4

(* All but 51 and 68 leave the name tables to others.                      *)
LEMMA OthersFollow ==
  ASSUME NEW no, no \notin {51, 68}, NEW b
  PROVE  AllFollow(no, b) <=> Follows(no, b)
BY DEF AllFollow, NamesFollow

(* Writes to the ROM area.                                                 *)
LEMMA WriteFollows ==
  ASSUME NEW no \in Followers, NEW b, AllFollow(no, b), NEW a \in Nat, NEW d \in Nat, NEW line
  PROVE  AllFollow(no, MapperWrite(no, b, a, d, line))
<1>1. Follows(no, b) /\ IsBoard(b)
  BY DEF AllFollow, Follows
<1> DEFINE t == MapperWrite(no, b, a, d, line)
<1>2. CASE no \in {51, 68}
  BY <1>1, <1>2, WriteIs, Map51Handlers, Map68Write
<1>3. CASE no \notin {51, 68}
  <2>1. CASE no \in {4, 44, 47, 74}
    <3>1. no \in {4, 74} => Follows(no, t)
      BY <1>1, WriteIs, Map4Write
    <3>2. no \in {44, 47} => Follows(no, t)
      BY <1>1, WriteIs, Map44Write
    <3>3. QED
      BY <1>3, <2>1, <3>1, <3>2, OthersFollow
  <2>2. CASE no \in {95, 112, 114, 115, 116, 118, 119}
    <3>1. no \in {95, 112} => Follows(no, t)
      BY <1>1, WriteIs, Map95Write, Map112Write
    <3>2. no \in {114, 116, 118} => Follows(no, t)
      BY <1>1, WriteIs, CloneWrites
    <3>3. no \in {115, 119} => Follows(no, t)
      BY <1>1, WriteIs, Map115Write
    <3>4. QED
      BY <1>3, <2>2, <3>1, <3>2, <3>3, OthersFollow
  <2>3. CASE no \in {1, 46, 96}
    BY <1>1, <1>3, <2>3, WriteIs, Map1Write, Map46Handlers, Map96Handlers, OthersFollow
  <2>4. CASE no \in {109, 135, 191}
    BY <2>4, WriteIs
  <2>5. QED
    BY <1>3, <2>1, <2>2, <2>3, <2>4 DEF Followers, Mmc3Boards
<1>4. QED
  BY <1>2, <1>3

(* Writes to the cartridge's RAM.                                          *)
LEMMA SramFollows ==
  ASSUME NEW no \in Followers, NEW b, AllFollow(no, b), NEW a, NEW d
  PROVE  AllFollow(no, MapperSram(no, b, a, d))
<1>1. Follows(no, b) /\ IsBoard(b)
  BY DEF AllFollow, Follows
<1>2. CASE no \in {47, 114, 115}
  BY <1>1, <1>2, OtherIs, Mmc3SramFollows, OthersFollow
<1>3. CASE no = 46
  BY <1>1, <1>3, OtherIs, Map46Handlers, OthersFollow
<1>4. CASE no = 51
  BY <1>1, <1>4, OtherIs, Map51Handlers
<1>5. CASE no \notin {46, 47, 51, 114, 115}
  BY <1>5, OtherIs
<1>6. QED
  BY <1>2, <1>3, <1>4, <1>5

(* Writes to the expansion area.                                           *)
LEMMA ApuFollows ==
  ASSUME NEW no \in Followers, NEW b, AllFollow(no, b), NEW a, NEW d \in Nat
  PROVE  AllFollow(no, MapperApu(no, b, a, d))
<1>1. Follows(no, b)
  BY DEF AllFollow
<1>2. CASE no \in ApuBoards
  <2>1. Follows(no, MapperApu(no, b, a, d))
    BY <1>1, <1>2, OtherIs, Map109Apu, Map135Apu, Map191Apu DEF ApuBoards
  <2>2. QED
    BY <1>2, <2>1, OthersFollow DEF ApuBoards
<1>3. CASE no \notin ApuBoards
  BY <1>3, OtherIs
<1>4. QED
  BY <1>2, <1>3

(* Fetches of the PPU.                                                     *)
LEMMA FetchFollows ==
  ASSUME NEW no \in Followers, NEW b, AllFollow(no, b), NEW a
  PROVE  AllFollow(no, MapperPPU(no, b, a))
<1>1. Follows(no, b) /\ IsBoard(b)
  BY DEF AllFollow, Follows
<1>2. CASE no = 96
  BY <1>1, <1>2, OtherIs, Map96Handlers, OthersFollow
<1>3. CASE no # 96
  BY <1>3, OtherIs
<1>4. QED
  BY <1>2, <1>3

(* A step that moves no window keeps the name tables, too.                 *)
LEMMA StillAllFollow ==
  ASSUME NEW no, NEW b, AllFollow(no, b), NEW t, Still(b, t)
  PROVE  AllFollow(no, t)
<1>1. Follows(no, t)
  BY StillFollows DEF AllFollow
<1>2. Names(t) = Names(b) /\ Registers(t) = Registers(b)
  BY DEF Still, Idle, Names
<1>3. NamesFollow(no, t)
  BY <1>2, NamesKept DEF AllFollow
<1>4. QED
  BY <1>1, <1>3 DEF AllFollow

(* The end of a scanline.                                                  *)
LEMMA HSyncFollows ==
  ASSUME NEW no \in Followers, NEW b, AllFollow(no, b), NEW line, NEW show
  PROVE  AllFollow(no, MapperHSync(no, b, line, show))
<1>1. IsBoard(b)
  BY DEF AllFollow, Follows
<1>2. /\ Still(b, Map4_HSync(b, line, show)) /\ Still(b, Map47_HSync(b, line, show))
      /\ Still(b, CountToZero(b, line, show)) /\ Still(b, b)
  BY <1>1, Map4HSyncStill, CountersStill, StillStill
<1>3. Still(b, MapperHSync(no, b, line, show))
  BY <1>2, HSyncIs DEF Followers, Mmc3Boards
<1>4. QED
  BY <1>3, StillAllFollow

(* Switching on and resetting.                                             *)
LEMMA InitFollows ==
  ASSUME NEW no \in Followers, NEW b, IsBoard(b), NEW overrun,
         Patterns(b) = [w \in 0..7 |-> CRam(w)], Names(b) = Mirrored(b.hmir)
  PROVE  AllFollow(no, MapperInit(no, b, overrun))
<1> DEFINE t == MapperInit(no, b, overrun)
<1>1. CASE no \in {4, 74}
  <2> DEFINE i == Mmc3Init(b)
             x == [i EXCEPT !.req = 0, !.present = 0, !.vbl = 0]
  <2>1. t = x
    <3>1. t = Map4_Init(b)
      BY <1>1, InitIs
    <3>2. Map4_Init(b) = x
      BY DEF Map4_Init
    <3>3. QED
      BY <3>1, <3>2
  <2>2. Follows(no, i)
    BY <1>1, Mmc3InitFollows
  <2> HIDE DEF i
  <2>3. DOMAIN x = DOMAIN i
        /\ \A f \in {"rom", "vrom", "hmir", "reg", "bank", "cpu", "ppu"} : x[f] = i[f]
    BY <2>2 DEF Follows, IsBoard
  <2> HIDE DEF x
  <2>4. Follows(no, x)
    BY <2>2, <2>3, FieldsSame, StillFollows DEF Follows
  <2>5. QED
    BY <1>1, <2>1, <2>4, OthersFollow
<1>2. CASE no \in {112, 114, 116, 118}
  BY <1>2, InitIs, Mmc3InitFollows, OthersFollow
<1>3. CASE no \in {44, 47, 95, 115, 119}
  BY <1>3, InitIs, OwnInitsFollow, OthersFollow
<1>4. CASE no \in {109, 135, 191}
  BY <1>4, InitIs, ApuInitsFollow, OthersFollow
<1>5. CASE no \in {1, 46, 96}
  BY <1>5, InitIs, Map1InitFollows, Map46Handlers, Map96Handlers, OthersFollow
<1>6. CASE no \in {51, 68}
  BY <1>6, InitIs, Map51Handlers, Map68Init
<1>7. QED
  BY <1>1, <1>2, <1>3, <1>4, <1>5, <1>6 DEF Followers, Mmc3Boards

(* A reset selects pattern RAM and the header's mirroring before the Init, *)
(* whatever the registers held.                                            *)
LEMMA ResetFollows ==
  ASSUME NEW no \in Followers, NEW b, IsBoard(b), NEW overrun
  PROVE  AllFollow(no, InfoNES_Reset(no, b, overrun))
<1> DEFINE q == [w \in 0..11 |-> Ram(w)]
           m == [b EXCEPT !.update = 0..7]
           x == [m EXCEPT !.ppu = q, !.irq = FALSE,
                          !.stale = @ \cup {w \in 0..7 : m.chr[w][1] = "PPURAM"}]
           t == InfoNES_SetupPPU(m)
<1>1. t = InfoNES_Mirroring(x, b.hmir)
  BY DEF InfoNES_SetupPPU, IsBoard
<1>2. q = [w \in 0..11 |-> q[w]] /\ \A w \in 0..7 : q[w] = CRam(w)
  BY DEF CRam
<1> HIDE DEF q
<1>3. /\ DOMAIN x = DOMAIN b /\ x.ppu = q
      /\ \A f \in {"rom", "vrom", "hmir", "reg", "bank", "cpu"} : x[f] = b[f]
  BY DEF IsBoard
<1> HIDE DEF x, t
<1>4. IsBoard(x)
  BY <1>2, <1>3 DEF IsBoard
<1>5. Patterns(x) = [w \in 0..7 |-> CRam(w)]
  BY <1>2, <1>3 DEF Patterns
<1>6. Idle(x, t) /\ Names(t) = Mirrored(b.hmir)
  BY <1>1, <1>4, MirroredIs
<1>7. IsBoard(t) /\ Patterns(t) = [w \in 0..7 |-> CRam(w)] /\ t.hmir = b.hmir
  BY <1>3, <1>5, <1>6 DEF Idle, Registers
<1>8. QED
  BY <1>6, <1>7, InitFollows DEF InfoNES_Reset, t

(* So does switching on.                                                   *)
LEMMA PowerOnFollows ==
  ASSUME NEW c \in Boards, c.no \in Followers, NEW overrun
  PROVE  AllFollow(c.no, PowerOn(c, overrun))
<1> DEFINE b == Blank(c, 0..31)
<1>1. IsBoard(b)
  <2>1. c.vrom \in Nat
    BY BoardsAssumption
  <2>2. QED
    BY <2>1 DEF Blank, IsBoard
<1> HIDE DEF b
<1>2. AllFollow(c.no, InfoNES_Reset(c.no, b, overrun))
  BY <1>1, ResetFollows
<1>3. QED
  BY <1>2 DEF PowerOn, b

(* The invariant.                                                          *)
BoardFollows == cart \in Boards /\ (cart.no \in Followers => AllFollow(cart.no, board))

(* It holds when the console is switched on.                               *)
LEMMA BoardFollowsInit == CartInit => BoardFollows
<1> SUFFICES ASSUME CartInit, cart.no \in Followers
             PROVE  cart \in Boards /\ AllFollow(cart.no, board)
  BY DEF CartInit, BoardFollows
<1>1. PICK overrun \in {0, 1} : fresh = PowerOn(cart, overrun)
  BY DEF CartInit
<1>2. cart \in Boards /\ board = PowerOn(cart, overrun)
  BY <1>1 DEF CartInit
<1>3. QED
  BY <1>2, PowerOnFollows

(* The cartridge stays in the console, and a step resets it once or not.   *)
LEMMA CartStays ==
  ASSUME CartNext
  PROVE  cart' = cart /\ cartResets' \in {cartResets, cartResets + 1}
<1>1. ASSUME Write PROVE cart' = cart /\ cartResets' = cartResets
  BY <1>1 DEF Write, Step
<1>2. ASSUME WriteSram PROVE cart' = cart /\ cartResets' = cartResets
  BY <1>2 DEF WriteSram, Step
<1>3. ASSUME WriteApu PROVE cart' = cart /\ cartResets' = cartResets
  BY <1>3 DEF WriteApu, Step
<1>4. ASSUME ReadApu PROVE cart' = cart /\ cartResets' = cartResets
  BY <1>4 DEF ReadApu, Step
<1>5. ASSUME Fetch PROVE cart' = cart /\ cartResets' = cartResets
  BY <1>5 DEF Fetch, Step
<1>6. ASSUME Render PROVE cart' = cart /\ cartResets' = cartResets
  BY <1>6 DEF Render, Step
<1>7. ASSUME HSync PROVE cart' = cart /\ cartResets' = cartResets
  BY <1>7 DEF HSync, Step
<1>8. ASSUME TakeIrq PROVE cart' = cart /\ cartResets' = cartResets
  BY <1>8 DEF TakeIrq, Step
<1>9. ASSUME CartReset PROVE cart' = cart /\ cartResets' = cartResets + 1
  BY <1>9 DEF CartReset
<1>10. ASSUME StoreVram PROVE cart' = cart /\ cartResets' = cartResets
  BY <1>10 DEF StoreVram, Step
<1>11. ASSUME FrameTop PROVE cart' = cart /\ cartResets' = cartResets
  BY <1>11 DEF FrameTop, Step
<1>12. QED
  BY <1>1, <1>2, <1>3, <1>4, <1>5, <1>6, <1>7, <1>8, <1>9, <1>10, <1>11 DEF CartNext

(* Every step preserves it.                                                *)
LEMMA BoardFollowsNext == BoardFollows /\ [CartNext]_cartVars => BoardFollows'
<1> SUFFICES ASSUME BoardFollows, [CartNext]_cartVars
             PROVE  BoardFollows'
  OBVIOUS
<1>1. CASE UNCHANGED cartVars
  BY <1>1 DEF BoardFollows, cartVars
<1>2. CASE CartNext
  <2>1. cart' = cart /\ cart \in Boards
    BY <1>2, CartStays DEF BoardFollows
  <2> SUFFICES ASSUME cart.no \in Followers
               PROVE  AllFollow(cart.no, board')
    BY <2>1 DEF BoardFollows
  <2>2. AllFollow(cart.no, board) /\ IsBoard(board)
    BY DEF BoardFollows, AllFollow, Follows
  <2>3. CASE Write
    <3>1. PICK w \in Writes(cart.no, "rom"), line \in Lines :
            board' = MapperWrite(cart.no, board, w[1], w[2], line)
      BY <2>3 DEF Write, Step
    <3>2. w[1] \in Nat /\ w[2] \in Nat
      BY <2>1, WritesAssumption
    <3>3. QED
      BY <2>2, <3>1, <3>2, WriteFollows
  <2>4. CASE WriteSram
    <3>1. PICK w \in Writes(cart.no, "sram") : board' = MapperSram(cart.no, board, w[1], w[2])
      BY <2>4 DEF WriteSram, Step
    <3>2. QED
      BY <2>2, <3>1, SramFollows
  <2>5. CASE WriteApu
    <3>1. PICK w \in Writes(cart.no, "apu") : board' = MapperApu(cart.no, board, w[1], w[2])
      BY <2>5 DEF WriteApu, Step
    <3>2. w[2] \in Nat
      BY <2>1, WritesAssumption
    <3>3. QED
      BY <2>2, <3>1, <3>2, ApuFollows
  <2>6. CASE ReadApu
    <3>1. PICK w \in Writes(cart.no, "apu") : board' = MapperReadApu(cart.no, board, w[1])
      BY <2>6 DEF ReadApu, Step
    <3>2. QED
      BY <2>2, <3>1, OtherIs
  <2>7. CASE Fetch
    <3>1. PICK a \in Fetches : board' = MapperPPU(cart.no, board, a)
      BY <2>7 DEF Fetch, Step
    <3>2. QED
      BY <2>2, <3>1, FetchFollows
  <2>8. CASE Render
    <3>1. PICK mode \in {0, 1} : board' = MapperRenderScreen(cart.no, board, mode)
      BY <2>8 DEF Render, Step
    <3>2. QED
      BY <2>2, <3>1, OtherIs
  <2>9. CASE HSync
    <3>1. PICK line \in Lines, show \in BOOLEAN : board' = MapperHSync(cart.no, board, line, show)
      BY <2>9 DEF HSync, Step
    <3>2. QED
      BY <2>2, <3>1, HSyncFollows
  <2>10. CASE TakeIrq
    <3> DEFINE t == [board EXCEPT !.irq = FALSE]
    <3>1. board' = t
      BY <2>10 DEF TakeIrq, Step
    <3>2. Still(board, t)
      BY <2>2, FieldsStill
    <3> HIDE DEF t
    <3>3. QED
      BY <2>2, <3>1, <3>2, StillAllFollow
  <2>11. CASE CartReset
    <3>1. PICK overrun \in {0, 1} : board' = InfoNES_Reset(cart.no, board, overrun)
      BY <2>11 DEF CartReset
    <3>2. QED
      BY <2>2, <3>1, ResetFollows
  <2>12. CASE StoreVram
    <3>1. PICK w \in Stored : board' = StorePattern(board, w)
      BY <2>12 DEF StoreVram, Step
    <3>2. QED
      BY <2>2, <3>1, StoreStill, StillAllFollow
  <2>13. CASE FrameTop
    <3>1. board' = InfoNES_SetupChr(board)
      BY <2>13 DEF FrameTop, Step
    <3>2. QED
      BY <2>2, <3>1, SetupChrStill, StillAllFollow
  <2>14. QED
    BY <1>2, <2>3, <2>4, <2>5, <2>6, <2>7, <2>8, <2>9, <2>10, <2>11, <2>12, <2>13 DEF CartNext
<1>3. QED
  BY <1>1, <1>2

(* Where it holds, computing the banks again changes nothing.              *)
LEMMA BanksFollowLemma == BoardFollows => BanksFollowRegisters
<1> SUFFICES ASSUME BoardFollows PROVE BanksFollowRegisters
  OBVIOUS
<1> DEFINE t == SetBanks(cart.no, board)
<1>1. CASE cart.no \in Followers
  <2>1. AllFollow(cart.no, board)
    BY <1>1 DEF BoardFollows
  <2>2. /\ t.cpu = board.cpu
        /\ \/ t.ppu = board.ppu
           \/ /\ cart.no = 68 /\ board.reg[0] = 0 /\ board.reg[1] = 0
              /\ board.ppu = InfoNES_Mirroring(board, board.hmir).ppu
    BY <1>1, <2>1, SetBanksSame
  <2> HIDE DEF t
  <2>3. QED
    BY <2>2 DEF BanksFollowRegisters, HeaderMirrors, t
<1>2. CASE cart.no \notin Followers
  <2>1. t = board
    BY <1>2, SMTT(60) DEF SetBanks, Followers, Mmc3Boards
  <2> HIDE DEF t
  <2>2. QED
    BY <2>1 DEF BanksFollowRegisters, t
<1>3. QED
  BY <1>1, <1>2

(* BanksFollowRegisters: after any writes, fetches, lines and resets,      *)
(* calling the board's Set_Banks functions again would move no window, so  *)
(* no handler forgets to move a window its registers call for; every ROM   *)
(* and pattern ROM size, every address and every byte.                     *)
THEOREM BanksFollowHolds == CartSpec => []BanksFollowRegisters
<1>1. CartInit => BoardFollows
  BY BoardFollowsInit
<1>2. BoardFollows /\ [CartNext]_cartVars => BoardFollows'
  BY BoardFollowsNext
<1>3. BoardFollows => BanksFollowRegisters
  BY BanksFollowLemma
<1>4. QED
  BY <1>1, <1>2, <1>3, PTL DEF CartSpec

-----------------------------------------------------------------------------
(* MMC1: the port takes a register one bit at a time.  The invariant says  *)
(* of the board and of the history of writes what the five bits in transit *)
(* are: Map1_Cnt of them, the lowest bits of the last writes.              *)

(* A board has a serial port.                                              *)
IsPort(b) ==
  /\ {"cnt", "latch", "reg", "bank", "cpu", "ppu", "chr", "sram", "irq"} \subseteq DOMAIN b
  /\ DOMAIN b.reg = 0..31 /\ DOMAIN b.bank = 0..11

(* A step leaves the shift register and the registers 0 to 4 alone.        *)
Apart(b, t) ==
  /\ IsPort(t) /\ t.cnt = b.cnt /\ t.latch = b.latch
  /\ \A k \in 0..4 : t.reg[k] = b.reg[k]

(* Such steps compose.                                                     *)
LEMMA ApartApart ==
  /\ \A b : IsPort(b) => Apart(b, b)
  /\ \A b, m, t : Apart(b, m) /\ Apart(m, t) => Apart(b, t)
BY DEF Apart

(* A change of other fields is such a step.                                *)
LEMMA FieldApart ==
  ASSUME NEW b, IsPort(b), NEW t, DOMAIN t = DOMAIN b,
         \A f \in {"cnt", "latch", "reg", "bank"} : t[f] = b[f]
  PROVE  Apart(b, t)
BY DEF Apart, IsPort

(* A bank register is set (bank[k] of the boards' files).                  *)
LEMMA BankApart ==
  ASSUME NEW b, IsPort(b), NEW k \in 0..11, NEW v
  PROVE  Apart(b, WithBank(b, k, v))
<1> DEFINE t == WithBank(b, k, v)
           n == [b.bank EXCEPT ![k] = v]
<1>1. DOMAIN n = 0..11
  BY DEF IsPort
<1>2. t = [b EXCEPT !.bank = n]
  BY DEF IsPort, WithBank
<1> HIDE DEF t, n
<1>3. DOMAIN t = DOMAIN b /\ t.bank = n /\ \A f \in {"cnt", "latch", "reg"} : t[f] = b[f]
  BY <1>2 DEF IsPort
<1>4. Apart(b, t)
  BY <1>1, <1>3 DEF Apart, IsPort
<1>5. QED
  BY <1>4 DEF t

(* A register is set: those above 4 are not the port's.                    *)
LEMMA RegApart ==
  ASSUME NEW b, IsPort(b), NEW k \in 0..31, NEW v
  PROVE  LET t == WithReg(b, k, v)
         IN  /\ IsPort(t) /\ t.cnt = b.cnt /\ t.latch = b.latch
             /\ t.reg[k] = v /\ \A j \in 0..31 \ {k} : t.reg[j] = b.reg[j]
             /\ k > 4 => Apart(b, t)
<1> DEFINE t == WithReg(b, k, v)
           n == [b.reg EXCEPT ![k] = v]
<1>1. DOMAIN n = 0..31 /\ n[k] = v /\ \A j \in 0..31 \ {k} : n[j] = b.reg[j]
  BY DEF IsPort
<1>2. t = [b EXCEPT !.reg = n]
  BY DEF IsPort, WithReg
<1> HIDE DEF t, n
<1>3. DOMAIN t = DOMAIN b /\ t.reg = n /\ \A f \in {"cnt", "latch", "bank"} : t[f] = b[f]
  BY <1>2 DEF IsPort
<1>4. IsPort(t) /\ t.cnt = b.cnt /\ t.latch = b.latch
  BY <1>1, <1>3 DEF IsPort
<1>5. t.reg[k] = v /\ \A j \in 0..31 \ {k} : t.reg[j] = b.reg[j]
  BY <1>1, <1>3
<1>6. k > 4 => Apart(b, t)
  BY <1>4, <1>5 DEF Apart
<1>7. QED
  BY <1>4, <1>5, <1>6 DEF t

(* The windows move (ROMBANK, PPUBANK, InfoNES_SetupChr).                  *)
LEMMA WindowsApart ==
  ASSUME NEW b, IsPort(b)
  PROVE  /\ \A i, p : Apart(b, CpuWin(b, i, p)) /\ Apart(b, PpuWin(b, i, p))
         /\ Apart(b, InfoNES_SetupChr(b))
<1>1. ASSUME NEW i, NEW p
      PROVE  Apart(b, CpuWin(b, i, p)) /\ Apart(b, PpuWin(b, i, p))
  <2> DEFINE c == CpuWin(b, i, p)
             u == PpuWin(b, i, p)
  <2>1. DOMAIN c = DOMAIN b /\ \A f \in {"cnt", "latch", "reg", "bank"} : c[f] = b[f]
    BY DEF CpuWin, IsPort
  <2>2. DOMAIN u = DOMAIN b /\ \A f \in {"cnt", "latch", "reg", "bank"} : u[f] = b[f]
    BY DEF PpuWin, IsPort
  <2> HIDE DEF c, u
  <2>3. Apart(b, c) /\ Apart(b, u)
    BY <2>1, <2>2, FieldApart
  <2>4. QED
    BY <2>3 DEF c, u
<1>2. Apart(b, InfoNES_SetupChr(b))
  <2> DEFINE c == InfoNES_SetupChr(b)
  <2>1. DOMAIN c = DOMAIN b /\ \A f \in {"cnt", "latch", "reg", "bank"} : c[f] = b[f]
    BY DEF InfoNES_SetupChr, IsPort
  <2> HIDE DEF c
  <2>2. Apart(b, c)
    BY <2>1, FieldApart
  <2>3. QED
    BY <2>2 DEF c
<1>3. QED
  BY <1>1, <1>2

(* The helpers that move the windows of MMC1.                              *)
LEMMA PagesApart ==
  ASSUME NEW b, IsPort(b)
  PROVE  /\ Apart(b, Map1_set_ROM_banks(b))
         /\ \A i, n, p : Apart(b, ChrMod(b, i, n, p)) /\ Apart(b, ChrCRam(b, i, n, p))
         /\ \A type : Apart(b, InfoNES_Mirroring(b, type))
<1>1. \A i, p : Apart(b, InfoNES_SetupChr(PpuWin(b, i, p)))
  BY WindowsApart, ApartApart DEF Apart
<1>2. ASSUME NEW i, NEW n, NEW p
      PROVE  Apart(b, ChrMod(b, i, n, p)) /\ Apart(b, ChrCRam(b, i, n, p))
  BY <1>1 DEF ChrMod, ChrCRam
<1>3. Apart(b, Map1_set_ROM_banks(b))
  BY WindowsApart DEF Map1_set_ROM_banks
<1>4. ASSUME NEW type
      PROVE  Apart(b, InfoNES_Mirroring(b, type))
  BY WindowsApart DEF InfoNES_Mirroring
<1>5. QED
  BY <1>2, <1>3, <1>4

(* What a full shift register does after the register is written.          *)
LEMMA Map1StepsApart ==
  ASSUME NEW b, IsPort(b)
  PROVE  /\ \A base : Apart(b, Map1_Base(b, base))
         /\ Apart(b, Map1_Chr0(b)) /\ Apart(b, Map1_Chr1(b)) /\ Apart(b, Map1_Prg(b))
<1>1. \A x : Apart(b, x) => Apart(b, Map1_set_ROM_banks(x))
  BY PagesApart, ApartApart DEF Apart
<1>2. ASSUME NEW v
      PROVE  Apart(b, Map1_set_ROM_banks(WithReg(b, 5, v)))
  BY <1>1, RegApart
<1>3. ASSUME NEW base
      PROVE  Apart(b, Map1_Base(b, base))
  <2> DEFINE f == WithReg(b, 6, 1)
             m == WithReg(b, 5, base)
             t == WithReg(m, 6, 0)
  <2>1. Map1_Base(b, base) = IF b.reg[6] = 0 THEN f ELSE Map1_set_ROM_banks(t)
    BY DEF Map1_Base, WithReg
  <2>2. Apart(b, f) /\ Apart(b, m) /\ IsPort(m)
    BY RegApart
  <2> HIDE DEF f, m
  <2>3. Apart(m, t)
    BY <2>2, RegApart
  <2> HIDE DEF t
  <2>4. Apart(b, t)
    BY <2>2, <2>3, ApartApart
  <2>5. QED
    BY <1>1, <2>1, <2>2, <2>4
<1>4. Apart(b, Map1_Chr0(b))
  <2> DEFINE half == Bit(b.reg[1], 4)
             high == Bit(b.reg[2], 4)
             x == Map1_Base(b, half + (IF On(b.reg[0], 3) THEN 2 * high ELSE 0))
             y == Map1_set_ROM_banks(WithReg(b, 5, 3 * half))
             z == Map1_set_ROM_banks(WithReg(b, 5, half))
             c == ChrMod(b, 0, IF On(b.reg[0], 4) THEN 4 ELSE 8, 4 * b.reg[1])
  <2>1. Map1_Chr0(b) \in {x, y, z, c, b}
    BY SMT DEF Map1_Chr0, WithReg
  <2>2. Apart(b, x) /\ Apart(b, y) /\ Apart(b, z) /\ Apart(b, c) /\ Apart(b, b)
    BY <1>2, <1>3, PagesApart, ApartApart
  <2> HIDE DEF x, y, z, c
  <2>3. QED
    BY <2>1, <2>2
<1>5. Apart(b, Map1_Chr1(b))
  <2> DEFINE m == IF Map1_Size(b) = "1024K" /\ On(b.reg[0], 3)
                    THEN Map1_Base(b, Bit(b.reg[1], 4) + 2 * Bit(b.reg[2], 4)) ELSE b
             c == ChrCRam(m, 4, 4, 4 * b.reg[2])
             x == ChrMod(m, 4, 4, 4 * b.reg[2])
  <2>1. Map1_Chr1(b) \in {m, c, x}
    BY SMT DEF Map1_Chr1
  <2>2. Apart(b, m)
    BY <1>3, ApartApart
  <2>3. IsPort(m)
    BY <2>2 DEF Apart
  <2> HIDE DEF m
  <2>4. Apart(m, c) /\ Apart(m, x)
    BY <2>3, PagesApart
  <2> HIDE DEF c, x
  <2>5. QED
    BY <2>1, <2>2, <2>4, ApartApart
<1>6. Apart(b, Map1_Prg(b))
  <2> DEFINE p == 2 * b.reg[3]
             o1 == WithBank(b, 1, p)
             low == WithBank(o1, 2, p + 1)
             l1 == WithBank(low, 3, Map1_HI1(b))
             l2 == WithBank(l1, 4, Map1_HI1(b) + 1)
             h1 == WithBank(b, 1, 0)
             h2 == WithBank(h1, 2, 1)
             h3 == WithBank(h2, 3, p)
             h4 == WithBank(h3, 4, p + 1)
             w1 == WithBank(low, 3, p + 2)
             w2 == WithBank(w1, 4, p + 3)
             S == {l2, h4, b, w2, low}
  <2>1. \E x \in S : Map1_Prg(b) = Map1_set_ROM_banks(x)
    <3>1. Map1_Prg(b) = Map1_set_ROM_banks(
            CASE On(b.reg[0], 3) /\ On(b.reg[0], 2) -> l2
              [] On(b.reg[0], 3) /\ ~On(b.reg[0], 2) -> IF Map1_Size(b) = "SMALL" THEN h4 ELSE b
              [] OTHER -> IF Map1_Size(b) = "SMALL" THEN w2 ELSE low)
      BY SMT DEF Map1_Prg, WithBank
    <3> HIDE DEF l2, h4, w2, low
    <3>2. QED
      BY <3>1
  <2>2. \A x : Apart(b, x) => \A k \in 0..11 : \A v : Apart(b, WithBank(x, k, v))
    BY BankApart, ApartApart DEF Apart
  <2>3. Apart(b, b) /\ Apart(b, o1) /\ Apart(b, h1)
    BY <2>2, ApartApart
  <2> HIDE DEF o1, h1
  <2>4. Apart(b, low) /\ Apart(b, h2)
    BY <2>2, <2>3
  <2> HIDE DEF low, h2
  <2>5. Apart(b, l1) /\ Apart(b, w1) /\ Apart(b, h3)
    BY <2>2, <2>4
  <2> HIDE DEF l1, w1, h3
  <2>6. Apart(b, l2) /\ Apart(b, w2) /\ Apart(b, h4)
    BY <2>2, <2>5
  <2> HIDE DEF l2, w2, h4
  <2>7. QED
    BY <1>1, <2>1, <2>3, <2>4, <2>6
<1>7. QED
  BY <1>3, <1>4, <1>5, <1>6

(* Emptying the shift register.                                            *)
LEMMA EmptyIs ==
  ASSUME NEW b, IsPort(b)
  PROVE  /\ IsPort(Map1_Empty(b)) /\ Map1_Empty(b).cnt = 0 /\ Map1_Empty(b).latch = 0
         /\ \A k \in 0..31 : Map1_Empty(b).reg[k] = b.reg[k]
<1> DEFINE t == Map1_Empty(b)
<1>1. /\ DOMAIN t = DOMAIN b /\ t.cnt = 0 /\ t.latch = 0
      /\ \A f \in {"reg", "bank"} : t[f] = b[f]
  BY DEF Map1_Empty, IsPort
<1> HIDE DEF t
<1>2. IsPort(t) /\ \A k \in 0..31 : t.reg[k] = b.reg[k]
  BY <1>1 DEF IsPort
<1>3. QED
  BY <1>1, <1>2 DEF t

(* The Init of the board empties it.                                       *)
LEMMA Map1InitPort ==
  ASSUME NEW b, IsPort(b)
  PROVE  IsPort(Map1_Init(b)) /\ Map1_Init(b).cnt = 0 /\ Map1_Init(b).latch = 0
<1> DEFINE e == [b EXCEPT !.sram = Sram, !.cnt = 0, !.latch = 0]
           q == WithReg(WithReg(WithReg(e, 0, 12), 1, 0), 2, 0)
           r == WithReg(WithReg(WithReg(q, 3, 0), 5, 0), 6, 0)
           o == WithBank(WithBank(r, 1, 0), 2, 1)
           n == WithBank(WithBank(o, 3, Map1_HI1(b)), 4, Map1_HI1(b) + 1)
           Zero(x) == IsPort(x) /\ x.cnt = 0 /\ x.latch = 0
<1>1. Map1_Init(b) = Map1_set_ROM_banks(n)
  BY DEF Map1_Init, WithReg, WithBank
<1>2. Zero(e)
  <2>1. DOMAIN e = DOMAIN b /\ e.cnt = 0 /\ e.latch = 0 /\ \A f \in {"reg", "bank"} : e[f] = b[f]
    BY DEF IsPort
  <2> HIDE DEF e
  <2>2. QED
    BY <2>1 DEF IsPort
<1> HIDE DEF e
<1>3. \A x : Zero(x) => \A v : /\ \A k \in 0..31 : Zero(WithReg(x, k, v))
                               /\ \A k \in 0..11 : Zero(WithBank(x, k, v))
  BY RegApart, BankApart DEF Apart
<1>4. \A x : Zero(x) => Zero(Map1_set_ROM_banks(x))
  BY PagesApart DEF Apart
<1> HIDE DEF Zero
<1>5. Zero(q)
  BY <1>2, <1>3
<1> HIDE DEF q
<1>6. Zero(r)
  BY <1>3, <1>5
<1> HIDE DEF r
<1>7. Zero(o)
  BY <1>3, <1>6
<1> HIDE DEF o
<1>8. Zero(n)
  BY <1>3, <1>7
<1> HIDE DEF n
<1>9. QED
  BY <1>1, <1>4, <1>8 DEF Zero

(* The i-th of the last n writes.                                          *)
Recent(q, n, i) == q[Len(q) - n + i]

(* The lowest bits of the last n writes, the oldest first.                 *)
Bits(q, n) == [i \in 1..5 |-> IF i <= n THEN Bit(Recent(q, n, i)[2], 0) ELSE 0]
Weighed(x) == x[1] + 2 * x[2] + 4 * x[3] + 8 * x[4] + 16 * x[5]

(* The shift register holds the lowest bits of the last writes, all to the *)
(* region of the last, none with bit 7 set.                                *)
Holds(b, q) ==
  /\ IsPort(b) /\ b.cnt \in 0..4 /\ b.cnt <= Len(q)
  /\ \A i \in 1..b.cnt : Recent(q, b.cnt, i)[1] = b.reg[4] /\ ~On(Recent(q, b.cnt, i)[2], 7)
  /\ b.latch = Weighed(Bits(q, b.cnt))
History(q) == q \in Seq((0..3) \X Nat) /\ Len(q) <= 5

(* A bit is 0 or 1.                                                        *)
LEMMA BitIsInt == \A d \in Nat : Bit(d, 0) \in {0, 1}
<1>1. 2^0 = 1 /\ 2^1 = 2
  OBVIOUS
<1>2. \A d \in Nat : Bit(d, 0) = (d \div 1) % 2
  BY <1>1 DEF Bit, Field
<1>3. QED
  BY <1>2

(* One more write.                                                         *)
LEMMA LastFiveIs ==
  ASSUME NEW q, History(q), NEW e \in (0..3) \X Nat
  PROVE  LET r == LastFive(Append(q, e))
         IN  /\ History(r) /\ r[Len(r)] = e
             /\ Len(r) = IF Len(q) < 5 THEN Len(q) + 1 ELSE 5
             /\ \A i \in 1..(Len(r) - 1) : r[Len(r) - i] = q[Len(q) + 1 - i]
<1> DEFINE S == (0..3) \X Nat
           p == Append(q, e)
<1>1. q \in Seq(S) /\ e \in S
  BY DEF History
<1>2. Len(q) <= 5
  BY DEF History
<1> HIDE DEF S
<1>3. Len(q) \in Nat
  BY <1>1
<1>4. Len(q) \in 0..5
  <2> DEFINE n == Len(q)
  <2>1. n \in Nat /\ n <= 5
    BY <1>2, <1>3
  <2> HIDE DEF n
  <2>2. n \in 0..5
    BY <2>1
  <2>3. QED
    BY <2>2 DEF n
<1>5. /\ p \in Seq(S) /\ Len(p) = Len(q) + 1 /\ p[Len(p)] = e
      /\ p # <<>> /\ \A i \in 1..Len(q) : p[i] = q[i]
  BY <1>1, AppendProperties
<1> HIDE DEF p
<1>6. CASE Len(q) < 5
  <2>1. LastFive(p) = p
    BY <1>1, <1>4, <1>5, <1>6 DEF LastFive
  <2>2. \A i \in 1..(Len(p) - 1) : p[Len(p) - i] = q[Len(q) + 1 - i]
    BY <1>1, <1>4, <1>5
  <2>3. QED
    BY <1>1, <1>4, <1>5, <1>6, <2>1, <2>2 DEF History, p, S
<1>7. CASE Len(q) = 5
  <2> DEFINE r == Tail(p)
  <2>1. LastFive(p) = r
    BY <1>5, <1>7 DEF LastFive
  <2>2. r \in Seq(S) /\ Len(r) = 5 /\ \A i \in 1..5 : r[i] = p[i + 1]
    <3>1. r \in Seq(S) /\ Len(r) = Len(p) - 1 /\ \A i \in 1..Len(r) : r[i] = p[i + 1]
      BY <1>5, HeadTailProperties
    <3> HIDE DEF r
    <3>2. Len(r) = 5
      BY <1>5, <1>7, <3>1
    <3>3. QED
      BY <3>1, <3>2
  <2> HIDE DEF r
  <2>3. r[5] = e
    BY <1>5, <1>7, <2>2
  <2>4. \A i \in 1..4 : r[5 - i] = q[6 - i]
    BY <1>5, <1>7, <2>2
  <2>5. QED
    BY <1>7, <2>1, <2>2, <2>3, <2>4 DEF History, p, S
<1>8. Len(q) < 5 \/ Len(q) = 5
  <2> DEFINE n == Len(q)
  <2>1. n \in 0..5
    BY <1>4
  <2> HIDE DEF n
  <2>2. n < 5 \/ n = 5
    BY <2>1
  <2>3. QED
    BY <2>2 DEF n
<1>9. QED
  BY Zenon, <1>6, <1>7, <1>8

(* The port is entered at the region of the write.                         *)
LEMMA EnterHolds ==
  ASSUME NEW b, NEW q, History(q), Holds(b, q), NEW region
  PROVE  LET t == Map1_Enter(b, region)
         IN  Holds(t, q) /\ t.reg[4] = region /\ \A k \in 0..3 : t.reg[k] = b.reg[k]
<1> DEFINE m == IF region # b.reg[4] THEN Map1_Empty(b) ELSE b
           t == WithReg(m, 4, region)
<1>1. Map1_Enter(b, region) = t
  BY DEF Map1_Enter, WithReg
<1>2. IsPort(b)
  BY DEF Holds
<1>3. IsPort(m) /\ \A k \in 0..31 : m.reg[k] = b.reg[k]
  BY <1>2, EmptyIs
<1> HIDE DEF m
<1>4. /\ IsPort(t) /\ t.cnt = m.cnt /\ t.latch = m.latch /\ t.reg[4] = region
      /\ \A k \in 0..3 : t.reg[k] = b.reg[k]
  BY <1>3, RegApart
<1> HIDE DEF t
<1>5. CASE region # b.reg[4]
  <2>1. t.cnt = 0 /\ t.latch = 0
    BY <1>2, <1>4, <1>5, EmptyIs DEF m
  <2>2. Weighed(Bits(q, 0)) = 0
    BY DEF Weighed, Bits
  <2>3. Len(q) \in Nat
    BY DEF History
  <2>4. Holds(t, q)
    BY <1>4, <2>1, <2>2, <2>3 DEF Holds
  <2>5. QED
    BY <1>1, <1>4, <2>4
<1>6. CASE region = b.reg[4]
  <2>1. t.cnt = b.cnt /\ t.latch = b.latch /\ t.reg[4] = b.reg[4]
    BY <1>4, <1>6 DEF m
  <2>3. Holds(t, q)
    BY <1>4, <2>1 DEF Holds
  <2>4. QED
    BY <1>1, <1>4, <2>3
<1>7. QED
  BY <1>5, <1>6

(* A bit is shifted in.                                                    *)
LEMMA ShiftedIs ==
  ASSUME NEW b, IsPort(b), NEW v
  PROVE  LET t == [b EXCEPT !.latch = v, !.cnt = @ + 1]
         IN  IsPort(t) /\ t.cnt = b.cnt + 1 /\ t.latch = v /\ t.reg = b.reg
<1> DEFINE t == [b EXCEPT !.latch = v, !.cnt = @ + 1]
<1>1. /\ DOMAIN t = DOMAIN b /\ t.cnt = b.cnt + 1 /\ t.latch = v
      /\ \A f \in {"reg", "bank"} : t[f] = b[f]
  BY DEF IsPort
<1> HIDE DEF t
<1>2. QED
  BY <1>1 DEF IsPort, t

(* Weighing one more bit.                                                  *)
LEMMA WeighedOneMore ==
  ASSUME NEW x \in [1..5 -> {0, 1}], NEW n \in 0..4, x[n + 1] = 0, NEW v \in {0, 1}
  PROVE  Weighed([x EXCEPT ![n + 1] = v]) = Weighed(x) + v * 2^n
<1>1. 2^0 = 1 /\ 2^1 = 2 /\ 2^2 = 4 /\ 2^3 = 8 /\ 2^4 = 16
  OBVIOUS
<1>2. x[1] \in Int /\ x[2] \in Int /\ x[3] \in Int /\ x[4] \in Int /\ x[5] \in Int
  OBVIOUS
<1>3. CASE n = 0
  BY <1>1, <1>2, <1>3 DEF Weighed
<1>4. CASE n = 1
  BY <1>1, <1>2, <1>4 DEF Weighed
<1>5. CASE n = 2
  BY <1>1, <1>2, <1>5 DEF Weighed
<1>6. CASE n = 3
  BY <1>1, <1>2, <1>6 DEF Weighed
<1>7. CASE n = 4
  BY <1>1, <1>2, <1>7 DEF Weighed
<1>8. QED
  BY <1>3, <1>4, <1>5, <1>6, <1>7

(* The last writes and their bits.                                         *)
LEMMA BitsAre ==
  ASSUME NEW q, History(q), NEW n \in 0..5, n <= Len(q)
  PROVE  Bits(q, n) \in [1..5 -> {0, 1}]
<1>1. q \in Seq((0..3) \X Nat)
  BY DEF History
<1>2. ASSUME NEW i \in 1..5, i <= n
      PROVE  Bit(Recent(q, n, i)[2], 0) \in {0, 1}
  <2> DEFINE S == (0..3) \X Nat
             m == Len(q)
             j == m - n + i
  <2>1. m \in Nat
    BY <1>1, LenProperties
  <2>2. n <= m
    OBVIOUS
  <2> HIDE DEF S, m
  <2>3. j \in 1..m
    BY <1>2, <2>1, <2>2
  <2> HIDE DEF j
  <2>4. q[j] \in S
    BY <1>1, <2>3, ElementOfSeq DEF S, m
  <2>5. q[j][2] \in Nat
    BY <2>4 DEF S
  <2>6. Bit(q[j][2], 0) \in {0, 1}
    BY <2>5, BitIsInt
  <2>7. QED
    BY <2>6 DEF j, m, Recent
<1>3. QED
  BY <1>2 DEF Bits

(* Five writes or fewer, and then one more.                                *)
LEMMA OneMore ==
  ASSUME NEW q, History(q), NEW e \in (0..3) \X Nat, NEW n \in 0..4, n <= Len(q),
         NEW r, r = LastFive(Append(q, e))
  PROVE  /\ n + 1 <= Len(r)
         /\ \A i \in 1..n : Recent(r, n + 1, i) = Recent(q, n, i)
         /\ r[Len(r)] = e
         /\ Bits(r, n + 1) = [Bits(q, n) EXCEPT ![n + 1] = Bit(e[2], 0)]
<1> DEFINE m == Len(q)
           k == Len(r)
           Now(i) == Recent(r, n + 1, i)
           Old(i) == Recent(q, n, i)
<1>1. q \in Seq((0..3) \X Nat) /\ m <= 5
  BY DEF History
<1>2. m \in Nat
  BY <1>1, LenProperties
<1>3. r[k] = e /\ k = (IF m < 5 THEN m + 1 ELSE 5) /\ \A i \in 1..(k - 1) : r[k - i] = q[m + 1 - i]
  BY LastFiveIs
<1>4. n <= m
  OBVIOUS
<1> HIDE DEF m, k
<1>5. k \in Nat /\ n + 1 <= k
  BY <1>1, <1>2, <1>3, <1>4
<1>6. ASSUME NEW i \in 1..n
      PROVE  Now(i) = Old(i)
  <2> DEFINE j == n + 1 - i
  <2>1. Now(i) = r[k - (n + 1) + i] /\ Old(i) = q[m - n + i]
    BY DEF Recent, k, m
  <2>2. j \in 1..(k - 1) /\ k - (n + 1) + i = k - j /\ m - n + i = m + 1 - j
    BY <1>2, <1>5
  <2> HIDE DEF j
  <2>3. QED
    BY <1>3, <2>1, <2>2
<1>7. k - (n + 1) + (n + 1) = k
  BY <1>5
<1>8. Bits(r, n + 1) = [Bits(q, n) EXCEPT ![n + 1] = Bit(e[2], 0)]
  <2> DEFINE x == [i \in 1..5 |-> IF i <= n + 1 THEN Bit(Now(i)[2], 0) ELSE 0]
             y == [i \in 1..5 |-> IF i <= n THEN Bit(Old(i)[2], 0) ELSE 0]
  <2>1. Bits(r, n + 1) = x /\ Bits(q, n) = y
    BY DEF Bits
  <2>2. Now(n + 1) = e
    BY <1>3, <1>7 DEF Recent, k
  <2> HIDE DEF Now, Old
  <2>3. ASSUME NEW i \in 1..5
        PROVE  x[i] = [y EXCEPT ![n + 1] = Bit(e[2], 0)][i]
    <3>1. CASE i <= n
      BY <1>6, <3>1
    <3>2. CASE i = n + 1
      BY <2>2, <3>2
    <3>3. CASE i > n + 1
      BY <3>3
    <3>4. QED
      BY <3>1, <3>2, <3>3
  <2>4. x = [y EXCEPT ![n + 1] = Bit(e[2], 0)]
    BY <2>3
  <2>5. QED
    BY <2>1, <2>4
<1>9. QED
  BY <1>3, <1>5, <1>6, <1>8 DEF k, m

(* Register k took the bits of the five writes in r, all to its region and *)
(* none with bit 7 set.                                                    *)
Taken(k, v, r) ==
  /\ Len(r) = 5 /\ \A i \in 1..5 : r[i][1] = k /\ ~On(r[i][2], 7)
  /\ v = Weighed(Bits(r, 5))

(* A step that leaves the shift register alone leaves what it holds.       *)
LEMMA ApartHolds ==
  ASSUME NEW b, NEW t, NEW q, Apart(b, t), Holds(b, q)
  PROVE  Holds(t, q)
BY DEF Apart, Holds

(* An empty shift register holds no writes.                                *)
LEMMA EmptyHolds ==
  ASSUME NEW t, NEW q, History(q), IsPort(t), t.cnt = 0, t.latch = 0
  PROVE  Holds(t, q)
<1>1. Weighed(Bits(q, 0)) = 0
  BY DEF Weighed, Bits
<1>2. Len(q) \in Nat
  BY LenProperties DEF History
<1>3. QED
  BY <1>1, <1>2 DEF Holds

(* What a full shift register leaves.                                      *)
Registered(full) ==
  {MirrorBy(full, full.reg[0], <<3, 2, 1, 0>>),
   Map1_Chr0(full), Map1_Chr1(full), Map1_Prg(full), full}

(* A register is written from the five bits and the shift register         *)
(* emptied: then the windows follow, and the shift register stays empty.   *)
LEMMA RegisterTaken ==
  ASSUME NEW x, IsPort(x), NEW region \in 0..3
  PROVE  LET full == Map1_Empty(WithReg(x, region, x.latch))
         IN  \A t \in Registered(full) :
               /\ IsPort(t) /\ t.cnt = 0 /\ t.latch = 0 /\ t.reg[region] = x.latch
               /\ \A k \in (0..3) \ {region} : t.reg[k] = x.reg[k]
<1> DEFINE set == WithReg(x, region, x.latch)
           full == Map1_Empty(set)
<1>1. /\ IsPort(set) /\ set.reg[region] = x.latch
      /\ \A k \in (0..3) \ {region} : set.reg[k] = x.reg[k]
  BY RegApart
<1> HIDE DEF set
<1>2. /\ IsPort(full) /\ full.cnt = 0 /\ full.latch = 0 /\ full.reg[region] = x.latch
      /\ \A k \in (0..3) \ {region} : full.reg[k] = x.reg[k]
  BY <1>1, EmptyIs
<1> HIDE DEF full
<1>3. Apart(full, MirrorBy(full, full.reg[0], <<3, 2, 1, 0>>))
  BY <1>2, PagesApart DEF MirrorBy
<1>4. Apart(full, Map1_Chr0(full)) /\ Apart(full, Map1_Chr1(full)) /\ Apart(full, Map1_Prg(full))
  BY <1>2, Map1StepsApart
<1>5. Apart(full, full)
  BY <1>2, ApartApart
<1>6. ASSUME NEW t, Apart(full, t)
      PROVE  /\ IsPort(t) /\ t.cnt = 0 /\ t.latch = 0 /\ t.reg[region] = x.latch
             /\ \A k \in (0..3) \ {region} : t.reg[k] = x.reg[k]
  BY <1>2, <1>6 DEF Apart
<1>7. QED
  BY <1>3, <1>4, <1>5, <1>6 DEF full, set, Registered

(* A write to the port.                                                    *)
LEMMA Map1WriteHolds ==
  ASSUME NEW b, NEW q, History(q), Holds(b, q), NEW a \in Nat, NEW d \in Nat
  PROVE  LET t == Map1_Write(b, a, d)
             r == LastFive(Append(q, <<(a \div 8192) % 4, d>>))
         IN  /\ History(r) /\ Holds(t, r)
             /\ \A k \in 0..3 : t.reg[k] # b.reg[k] => Taken(k, t.reg[k], r)
<1> DEFINE region == (a \div 8192) % 4
           e == <<region, d>>
           r == LastFive(Append(q, e))
           moved == Map1_Enter(b, region)
           n == moved.cnt
           v == moved.latch + Bit(d, 0) * 2^n
           shifted == [moved EXCEPT !.latch = v, !.cnt = @ + 1]
           full == Map1_Empty(WithReg(shifted, region, shifted.latch))
           t == Map1_Write(b, a, d)
           Goal == Holds(t, r) /\ \A k \in 0..3 : t.reg[k] # b.reg[k] => Taken(k, t.reg[k], r)
<1>1. region \in 0..3 /\ e \in (0..3) \X Nat /\ e[1] = region /\ e[2] = d
  OBVIOUS
<1>2. /\ On(d, 7) => t = Map1_Empty(moved)
      /\ ~On(d, 7) /\ shifted.cnt < 5 => t = shifted
      /\ ~On(d, 7) /\ ~(shifted.cnt < 5) => t \in Registered(full)
  <2>1. t = CASE On(d, 7) -> Map1_Empty(moved)
              [] ~On(d, 7) /\ shifted.cnt < 5 -> shifted
              [] OTHER -> CASE region = 0 -> MirrorBy(full, full.reg[0], <<3, 2, 1, 0>>)
                            [] region = 1 -> Map1_Chr0(full)
                            [] region = 2 -> Map1_Chr1(full)
                            [] region = 3 -> Map1_Prg(full)
                            [] OTHER -> full
    BY DEF Map1_Write, WithReg
  <2> HIDE DEF full, shifted, moved, region, t
  <2>2. QED
    BY <2>1 DEF Registered
<1> HIDE DEF region
<1>3. Holds(moved, q) /\ moved.reg[4] = region /\ \A k \in 0..3 : moved.reg[k] = b.reg[k]
  BY EnterHolds
<1> HIDE DEF moved
<1>4. /\ IsPort(moved) /\ n \in 0..4 /\ n <= Len(q) /\ moved.latch = Weighed(Bits(q, n))
      /\ \A i \in 1..n : Recent(q, n, i)[1] = region /\ ~On(Recent(q, n, i)[2], 7)
  BY <1>3 DEF Holds
<1>5. IsPort(shifted) /\ shifted.cnt = n + 1 /\ shifted.latch = v /\ shifted.reg = moved.reg
  BY <1>4, ShiftedIs
<1> HIDE DEF e, shifted, n
<1>6. History(r)
  BY <1>1, LastFiveIs
<1>7. /\ n + 1 <= Len(r) /\ r[Len(r)] = e
      /\ \A i \in 1..n : Recent(r, n + 1, i) = Recent(q, n, i)
      /\ Bits(r, n + 1) = [Bits(q, n) EXCEPT ![n + 1] = Bit(d, 0)]
  <2>1. /\ n + 1 <= Len(r) /\ r[Len(r)] = e
        /\ \A i \in 1..n : Recent(r, n + 1, i) = Recent(q, n, i)
        /\ Bits(r, n + 1) = [Bits(q, n) EXCEPT ![n + 1] = Bit(e[2], 0)]
    <3>1. r = LastFive(Append(q, e))
      OBVIOUS
    <3>2. e \in (0..3) \X Nat /\ n \in 0..4 /\ n <= Len(q)
      BY <1>1, <1>4
    <3> HIDE DEF r
    <3>3. QED
      BY <3>1, <3>2, OneMore
  <2> HIDE DEF r
  <2>2. QED
    BY <1>1, <2>1
<1>8. Len(r) \in Nat /\ Len(r) <= 5
  BY <1>6, LenProperties DEF History
<1> HIDE DEF r
<1>9. v = Weighed(Bits(r, n + 1))
  <2>1. n \in 0..5
    BY <1>4
  <2>2. Bits(q, n) \in [1..5 -> {0, 1}]
    BY <1>4, <2>1, BitsAre
  <2>3. Bits(q, n)[n + 1] = 0
    BY <1>4 DEF Bits
  <2>4. Bit(d, 0) \in {0, 1}
    BY BitIsInt
  <2>5. Weighed([Bits(q, n) EXCEPT ![n + 1] = Bit(d, 0)]) = Weighed(Bits(q, n)) + Bit(d, 0) * 2^n
    BY <1>4, <2>2, <2>3, <2>4, WeighedOneMore
  <2>6. QED
    BY <1>4, <1>7, <2>5
<1>10. ASSUME ~On(d, 7), NEW i \in 1..(n + 1)
       PROVE  LET w == Recent(r, n + 1, i) IN w[1] = region /\ ~On(w[2], 7)
  <2>1. CASE i = n + 1
    <3>1. Recent(r, n + 1, i) = r[Len(r)]
      BY <1>4, <1>8, <2>1 DEF Recent
    <3>2. QED
      BY <1>1, <1>7, <1>10, <3>1
  <2>2. CASE i # n + 1
    <3>1. i \in 1..n
      BY <1>4, <2>2
    <3>2. QED
      BY <1>4, <1>7, <3>1
  <2>3. QED
    BY <2>1, <2>2
<1> HIDE DEF v
<1>11. ASSUME On(d, 7)
       PROVE  Goal
  <2>1. IsPort(t) /\ t.cnt = 0 /\ t.latch = 0 /\ \A k \in 0..31 : t.reg[k] = moved.reg[k]
    BY <1>2, <1>4, <1>11, EmptyIs
  <2> HIDE DEF t
  <2>2. Holds(t, r)
    BY <1>6, <2>1, EmptyHolds
  <2>3. \A k \in 0..3 : t.reg[k] = b.reg[k]
    BY <1>3, <2>1
  <2>4. QED
    BY <2>2, <2>3
<1>12. ASSUME ~On(d, 7), shifted.cnt < 5
       PROVE  Goal
  <2>1. t = shifted
    BY <1>2, <1>12
  <2> HIDE DEF t
  <2>2. t.cnt = n + 1 /\ t.cnt \in 0..4 /\ t.reg = moved.reg /\ IsPort(t) /\ t.latch = v
    BY <1>4, <1>5, <1>12, <2>1
  <2>3. \A i \in 1..t.cnt : LET w == Recent(r, t.cnt, i) IN w[1] = t.reg[4] /\ ~On(w[2], 7)
    BY <1>3, <1>10, <1>12, <2>2
  <2>4. Holds(t, r)
    BY <1>7, <1>9, <2>2, <2>3 DEF Holds
  <2>5. \A k \in 0..3 : t.reg[k] = b.reg[k]
    BY <1>3, <2>2
  <2>6. QED
    BY <2>4, <2>5
<1>13. ASSUME ~On(d, 7), ~(shifted.cnt < 5)
       PROVE  Goal
  <2>1. n = 4 /\ Len(r) = 5
    <3> DEFINE k == Len(r)
    <3>1. k \in Nat /\ k <= 5 /\ n + 1 <= k
      BY <1>7, <1>8
    <3>2. n = 4
      BY <1>4, <1>5, <1>13
    <3> HIDE DEF k
    <3>3. k = 5
      BY <3>1, <3>2
    <3>4. QED
      BY <3>2, <3>3 DEF k
  <2>2. t \in Registered(full)
    BY <1>2, <1>13
  <2> HIDE DEF t, full
  <2>3. /\ IsPort(t) /\ t.cnt = 0 /\ t.latch = 0 /\ t.reg[region] = v
        /\ \A k \in (0..3) \ {region} : t.reg[k] = shifted.reg[k]
    <3>1. \A x \in Registered(full) :
            /\ IsPort(x) /\ x.cnt = 0 /\ x.latch = 0 /\ x.reg[region] = shifted.latch
            /\ \A k \in (0..3) \ {region} : x.reg[k] = shifted.reg[k]
      BY <1>1, <1>5, RegisterTaken DEF full
    <3>2. QED
      BY <1>5, <2>2, <3>1
  <2>4. Holds(t, r)
    BY <1>6, <2>3, EmptyHolds
  <2>5. \A k \in (0..3) \ {region} : t.reg[k] = b.reg[k]
    BY <1>3, <1>5, <2>3
  <2>6. Taken(region, t.reg[region], r)
    <3>1. \A i \in 1..5 : Recent(r, 5, i) = r[i]
      BY <2>1 DEF Recent
    <3>2. \A i \in 1..5 : r[i][1] = region /\ ~On(r[i][2], 7)
      BY <1>10, <1>13, <2>1, <3>1
    <3>3. QED
      BY <1>9, <2>1, <2>3, <3>2 DEF Taken
  <2>7. QED
    BY <2>4, <2>5, <2>6
<1>14. Goal
  BY <1>11, <1>12, <1>13
<1>15. QED
  BY <1>6, <1>14 DEF r, e, region

(* The board as it is switched on or reset.                                *)
LEMMA ResetPort ==
  ASSUME NEW b, IsPort(b), NEW overrun
  PROVE  LET t == InfoNES_Reset(1, b, overrun)
         IN  IsPort(t) /\ t.cnt = 0 /\ t.latch = 0
<1> DEFINE e == [b EXCEPT !.update = 0..7]
           m == [e EXCEPT !.ppu = [w \in 0..11 |-> Ram(w)], !.irq = FALSE,
                          !.stale = @ \cup {w \in 0..7 : e.chr[w][1] = "PPURAM"}]
           c == InfoNES_SetupPPU(e)
<1>1. IsPort(m)
  <2>1. DOMAIN m = DOMAIN b /\ \A f \in {"cnt", "latch", "reg", "bank"} : m[f] = b[f]
    BY DEF IsPort
  <2> HIDE DEF m
  <2>2. QED
    BY <2>1 DEF IsPort
<1>2. c = InfoNES_Mirroring(m, e.hmir)
  BY DEF InfoNES_SetupPPU
<1> HIDE DEF m, c
<1>3. IsPort(c)
  BY <1>1, <1>2, PagesApart DEF Apart
<1>4. InfoNES_Reset(1, b, overrun) = Map1_Init(c)
  BY InitIs DEF InfoNES_Reset, c
<1>5. QED
  BY <1>3, <1>4, Map1InitPort

(* MMC1 on the bus.                                                        *)
SerialInv ==
  cart \in Boards /\ cartResets \in Nat /\ (cart.no = 1 => History(serial) /\ Holds(board, serial))

(* A new console: no write yet, and Map1_Init has emptied the port.        *)
LEMMA SerialInit == CartInit => SerialInv
<1> SUFFICES ASSUME CartInit, cart.no = 1
             PROVE  History(serial) /\ Holds(board, serial)
  BY DEF SerialInv, CartInit
<1> DEFINE b == Blank(cart, 0..31)
<1>1. History(serial)
  BY DEF CartInit, History
<1>2. PICK overrun \in {0, 1} : board = PowerOn(cart, overrun)
  BY DEF CartInit
<1>3. IsPort(b)
  BY DEF Blank, IsPort
<1>4. board = InfoNES_Reset(1, b, overrun)
  BY <1>2 DEF PowerOn
<1> HIDE DEF b
<1>5. QED
  BY <1>1, <1>3, <1>4, ResetPort, EmptyHolds

(* What a step does to the board of an MMC1 cartridge and to its history.  *)
SerialStep ==
  /\ History(serial') /\ Holds(board', serial')
  /\ cartResets' = cartResets =>
       \A k \in 0..3 : board'.reg[k] # board.reg[k] => Taken(k, board'.reg[k], serial')

(* Action by action: only Write reaches the port, and CartReset empties it.*)
LEMMA SerialSteps ==
  ASSUME SerialInv, CartNext, cart.no = 1
  PROVE  SerialStep
<1>1. /\ cart \in Boards /\ cartResets \in Nat
      /\ History(serial) /\ Holds(board, serial) /\ IsPort(board)
  BY DEF SerialInv, Holds
<1>2. \A t : Apart(board, t) /\ board' = t /\ serial' = serial => SerialStep
  BY <1>1, ApartHolds DEF SerialStep, Apart
<1>3. board' = board /\ serial' = serial => SerialStep
  BY <1>1 DEF SerialStep
<1>4. CASE Write
  <2>1. PICK w \in Writes(1, "rom"), line \in Lines :
          /\ board' = MapperWrite(1, board, w[1], w[2], line)
          /\ serial' = LastFive(Append(serial, <<(w[1] \div 8192) % 4, w[2]>>))
    BY <1>4 DEF Write, Step
  <2>2. w[1] \in Nat /\ w[2] \in Nat
    BY <1>1, WritesAssumption
  <2>3. board' = Map1_Write(board, w[1], w[2])
    BY <2>1, WriteIs
  <2>4. QED
    BY <1>1, <2>1, <2>2, <2>3, Map1WriteHolds DEF SerialStep
<1>5. CASE WriteSram
  <2>1. PICK w \in Writes(1, "sram") : board' = MapperSram(1, board, w[1], w[2])
    BY <1>5 DEF WriteSram, Step
  <2>2. QED
    BY <1>3, <1>5, <2>1, OtherIs DEF Followers, WriteSram
<1>6. CASE WriteApu
  <2>1. PICK w \in Writes(1, "apu") : board' = MapperApu(1, board, w[1], w[2])
    BY <1>6 DEF WriteApu, Step
  <2>2. QED
    BY <1>3, <1>6, <2>1, OtherIs DEF Followers, ApuBoards, WriteApu
<1>7. CASE ReadApu
  <2>1. PICK w \in Writes(1, "apu") : board' = MapperReadApu(1, board, w[1])
    BY <1>7 DEF ReadApu, Step
  <2>2. QED
    BY <1>3, <1>7, <2>1, OtherIs DEF Followers, ReadApu
<1>8. CASE Fetch
  <2>1. PICK a \in Fetches : board' = MapperPPU(1, board, a)
    BY <1>8 DEF Fetch, Step
  <2>2. QED
    BY <1>3, <1>8, <2>1, OtherIs DEF Followers, Fetch
<1>9. CASE Render
  <2>1. PICK mode \in {0, 1} : board' = MapperRenderScreen(1, board, mode)
    BY <1>9 DEF Render, Step
  <2>2. QED
    BY <1>3, <1>9, <2>1, OtherIs DEF Followers, Render
<1>10. CASE HSync
  <2>1. PICK line \in Lines, show \in BOOLEAN : board' = MapperHSync(1, board, line, show)
    BY <1>10 DEF HSync, Step
  <2>2. QED
    BY <1>3, <1>10, <2>1, HSyncIs DEF HSync
<1>11. CASE TakeIrq
  <2> DEFINE t == [board EXCEPT !.irq = FALSE]
  <2>1. board' = t /\ serial' = serial
    BY <1>11 DEF TakeIrq, Step
  <2>2. DOMAIN t = DOMAIN board /\ \A f \in {"cnt", "latch", "reg", "bank"} : t[f] = board[f]
    BY <1>1 DEF IsPort
  <2> HIDE DEF t
  <2>3. QED
    BY <1>1, <1>2, <2>1, <2>2, FieldApart
<1>12. CASE CartReset
  <2>1. PICK overrun \in {0, 1} : board' = InfoNES_Reset(1, board, overrun)
    BY <1>12 DEF CartReset
  <2>2. IsPort(board') /\ board'.cnt = 0 /\ board'.latch = 0
    BY <1>1, <2>1, ResetPort
  <2>3. cartResets' # cartResets /\ serial' = serial
    BY <1>1, <1>12 DEF CartReset
  <2>4. QED
    BY <1>1, <2>2, <2>3, EmptyHolds DEF SerialStep
<1>13. CASE StoreVram
  <2>1. PICK w \in Stored : board' = StorePattern(board, w) /\ serial' = serial
    BY <1>13 DEF StoreVram, Step
  <2> DEFINE t == StorePattern(board, w)
  <2>2. DOMAIN t = DOMAIN board /\ \A f \in {"cnt", "latch", "reg", "bank"} : t[f] = board[f]
    BY <1>1, StoreFields DEF IsPort
  <2>3. board' = t
    BY <2>1
  <2> HIDE DEF t
  <2>4. QED
    BY <1>1, <1>2, <2>1, <2>2, <2>3, FieldApart
<1>14. CASE FrameTop
  <2>1. board' = InfoNES_SetupChr(board) /\ serial' = serial
    BY <1>14 DEF FrameTop, Step
  <2>2. QED
    BY <1>1, <1>2, <2>1, WindowsApart
<1>15. QED
  BY <1>4, <1>5, <1>6, <1>7, <1>8, <1>9, <1>10, <1>11, <1>12, <1>13, <1>14 DEF CartNext

(* The invariant is inductive.                                             *)
LEMMA SerialNext == SerialInv /\ [CartNext]_cartVars => SerialInv'
<1> SUFFICES ASSUME SerialInv, [CartNext]_cartVars PROVE SerialInv'
  OBVIOUS
<1>1. CASE UNCHANGED cartVars
  BY <1>1 DEF SerialInv, cartVars
<1>2. CASE CartNext
  <2>1. cart' = cart /\ cartResets' \in {cartResets, cartResets + 1}
    BY <1>2, CartStays
  <2>2. cart.no = 1 => SerialStep
    BY <1>2, SerialSteps
  <2>3. QED
    BY <2>1, <2>2 DEF SerialInv, SerialStep
<1>3. QED
  BY <1>1, <1>2

(* SerialPort: whatever the game writes to MMC1, and however it interleaves*)
(* the regions and resets of the port, a register changes only with the    *)
(* fifth of five writes to its region and takes their bits in order        *)
(* (Map1_Write, the reset of the port with bit 7 and the change of region  *)
(* in Map1_Last_Write_Addr).                                               *)
THEOREM SerialPortHolds == CartSpec => SerialPort
<1> DEFINE Serial(r) ==
             cart.no = 1 /\ cartResets' = cartResets /\ board'.reg[r] # board.reg[r] =>
               /\ Len(serial') = 5
               /\ \A i \in 1..5 : serial'[i][1] = r /\ ~On(serial'[i][2], 7)
               /\ board'.reg[r] = Bit(serial'[1][2], 0) + 2 * Bit(serial'[2][2], 0)
                                   + 4 * Bit(serial'[3][2], 0) + 8 * Bit(serial'[4][2], 0)
                                   + 16 * Bit(serial'[5][2], 0)
           Port == \A r \in 0..3 : Serial(r)
<1>1. SerialInv /\ [CartNext]_cartVars => [Port]_cartVars
  <2> SUFFICES ASSUME SerialInv, CartNext, NEW r \in 0..3, cart.no = 1,
                      cartResets' = cartResets, board'.reg[r] # board.reg[r]
               PROVE  Serial(r)
    OBVIOUS
  <2>1. Taken(r, board'.reg[r], serial')
    BY SerialSteps DEF SerialStep
  <2>2. Len(serial') = 5
    BY <2>1 DEF Taken
  <2>3. \A i \in 1..5 : Recent(serial', 5, i) = serial'[i]
    BY <2>2 DEF Recent
  <2>4. Bits(serial', 5) = [i \in 1..5 |-> Bit(serial'[i][2], 0)]
    BY <2>3 DEF Bits
  <2>5. QED
    BY <2>1, <2>4 DEF Taken, Weighed
<1>2. QED
  BY <1>1, SerialInit, SerialNext, PTL DEF CartSpec, SerialPort
=============================================================================
