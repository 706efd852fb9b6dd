--------------------------- MODULE SnesExecProofs ---------------------------
(***************************************************************************)
(* Proofs about SnesExec for every value of its constants.                 *)
(***************************************************************************)
EXTENDS SnesExec, TLAPS

USE LineAssumption, CostAssumption, DmaAssumption, TimerAssumption

(* The signals there are.                                                  *)
LEMMA SignalNames == {"NMI", "NMIEDGE", "IRQ", "DMA", "WAI"} \subseteq Signals
  BY DEF Signals

(* A part has a positive length, and the amounts a CPU may be behind are   *)
(* numbers.                                                                *)
LEMMA PartFacts ==
  /\ PartCycles("active") = ActiveCycles /\ PartCycles("hblank") = HblankCycles
  /\ Overrun \in Nat /\ Overrun >= MaxCost + EntryCost /\ Overrun >= DmaRound
  /\ HdmaExcess \in Nat /\ HdmaExcess >= MaxHdma - HblankCycles
  /\ HdmaExcess <= ActiveCycles - LineDelay
  BY SlackAssumption DEF PartCycles, Overrun, HdmaExcess

(* The program starts in the invariant ...                                 *)
THEOREM InitIInv == Init => IInv
<1> SUFFICES ASSUME Init PROVE IInv
  OBVIOUS
<1>1. signal = {} /\ nmitimen = {}
  BY DEF Init
<1>2. signal \subseteq Signals /\ nmitimen \subseteq Enables
  BY <1>1
<1>b. /\ iflag \in BOOLEAN /\ rdnmi \in BOOLEAN /\ timeup \in BOOLEAN
      /\ vblank \in BOOLEAN /\ hblank \in BOOLEAN /\ owed \in BOOLEAN
  BY Zenon DEF Init
<1>3. TypeOK
  BY <1>2, <1>b DEF Init, TypeOK
<1>4. SignalsMatchRegisters /\ NmiInv
  BY <1>1 DEF Init, SignalsMatchRegisters, NmiInv
<1>5. SliceInv /\ BalanceInv
  BY PartFacts DEF Init, SliceInv, BalanceInv, RestOfPart
<1> QED
  BY <1>3, <1>4, <1>5 DEF IInv

(* ... and no step of the scheduler, of ExecuteCPU or of an instruction    *)
(* leaves it.                                                              *)
THEOREM NextIInv == IInv /\ [Next]_vars => IInv'
<1> SUFFICES ASSUME IInv, [Next]_vars PROVE IInv'
  OBVIOUS
<1>0. /\ TypeOK /\ SignalsMatchRegisters /\ NmiInv /\ SliceInv /\ BalanceInv
  BY DEF IInv
<1> USE PartFacts DEF place, flags
<1>1. CASE BeginLine
  <2>1. TypeOK'
    BY <1>1, <1>0, SignalNames
    DEF TypeOK, BeginLine, BeginPart
  <2>2. SignalsMatchRegisters'
    BY <1>1, <1>0
    DEF TypeOK, SignalsMatchRegisters, BeginLine, BeginPart
  <2>3. NmiInv'
    BY <1>1, <1>0
    DEF TypeOK, SignalsMatchRegisters, NmiInv, BeginLine, BeginPart
  <2>4. SliceInv'
    BY <1>1, <1>0
    DEF TypeOK, SliceInv, BeginLine, BeginPart
  <2>5. BalanceInv'
    BY <1>1, <1>0
    DEF TypeOK, SliceInv, BalanceInv, RestOfPart, BeginLine, BeginPart
  <2> QED BY <2>1, <2>2, <2>3, <2>4, <2>5 DEF IInv
<1>2. CASE FireIRQ
  <2>1. TypeOK'
    BY <1>2, <1>0, SignalNames
    DEF TypeOK, FireIRQ, RestOfPart
  <2>2. SignalsMatchRegisters'
    BY <1>2, <1>0
    DEF TypeOK, SignalsMatchRegisters, FireIRQ, RestOfPart
  <2>3. NmiInv'
    BY <1>2, <1>0
    DEF TypeOK, SignalsMatchRegisters, NmiInv, FireIRQ, RestOfPart
  <2>4. SliceInv'
    BY <1>2, <1>0
    DEF TypeOK, SliceInv, FireIRQ, RestOfPart
  <2>5. BalanceInv'
    BY <1>2, <1>0
    DEF TypeOK, SliceInv, BalanceInv, RestOfPart, FireIRQ, RestOfPart
  <2> QED BY <2>1, <2>2, <2>3, <2>4, <2>5 DEF IInv
<1>3. CASE BeginHblank
  <2>1. TypeOK'
    BY <1>3, <1>0, SignalNames
    DEF TypeOK, BeginHblank, BeginPart
  <2>2. SignalsMatchRegisters'
    BY <1>3, <1>0
    DEF TypeOK, SignalsMatchRegisters, BeginHblank, BeginPart
  <2>3. NmiInv'
    BY <1>3, <1>0
    DEF TypeOK, SignalsMatchRegisters, NmiInv, BeginHblank, BeginPart
  <2>4. SliceInv'
    BY <1>3, <1>0
    DEF TypeOK, SliceInv, BeginHblank, BeginPart
  <2>5. BalanceInv'
    BY <1>3, <1>0
    DEF TypeOK, SliceInv, BalanceInv, RestOfPart, BeginHblank, BeginPart
  <2> QED BY <2>1, <2>2, <2>3, <2>4, <2>5 DEF IInv
<1>4. CASE EndLine
  <2>0. signal' \subseteq Signals
    BY <1>4, <1>0, SignalNames DEF TypeOK, EndLine, FrameOver, Rising, SignalNMI, SignalNMI
  <2>b. /\ iflag' \in BOOLEAN /\ rdnmi' \in BOOLEAN /\ timeup' \in BOOLEAN
        /\ vblank' \in BOOLEAN /\ hblank' \in BOOLEAN /\ owed' \in BOOLEAN
    BY <1>4, <1>0, Zenon DEF TypeOK, EndLine, AfterNMI, flags, place
  <2>1. TypeOK'
    BY <1>4, <1>0, <2>0, <2>b
    DEF TypeOK, EndLine, FrameOver, Rising, SignalNMI
  <2>2. SignalsMatchRegisters'
    BY <1>4, <1>0
    DEF TypeOK, SignalsMatchRegisters, EndLine, FrameOver, Rising, SignalNMI
  <2>3. NmiInv'
    BY <1>4, <1>0
    DEF TypeOK, SignalsMatchRegisters, NmiInv, EndLine, FrameOver, Rising, SignalNMI
  <2>4. SliceInv'
    BY <1>4, <1>0
    DEF TypeOK, SliceInv, EndLine, FrameOver, Rising, SignalNMI
  <2>5. BalanceInv'
    BY <1>4, <1>0
    DEF TypeOK, SliceInv, BalanceInv, RestOfPart, EndLine, FrameOver, Rising, SignalNMI
  <2> QED BY <2>1, <2>2, <2>3, <2>4, <2>5 DEF IInv
<1>5. CASE SliceDone
  <2>1. TypeOK'
    BY <1>5, <1>0, SignalNames
    DEF TypeOK, SliceDone
  <2>2. SignalsMatchRegisters'
    BY <1>5, <1>0
    DEF TypeOK, SignalsMatchRegisters, SliceDone
  <2>3. NmiInv'
    BY <1>5, <1>0
    DEF TypeOK, SignalsMatchRegisters, NmiInv, SliceDone
  <2>4. SliceInv'
    BY <1>5, <1>0
    DEF TypeOK, SliceInv, SliceDone
  <2>5. BalanceInv'
    BY <1>5, <1>0
    DEF TypeOK, SliceInv, BalanceInv, RestOfPart, SliceDone
  <2> QED BY <2>1, <2>2, <2>3, <2>4, <2>5 DEF IInv
<1>6. CASE ProcessMDMA
  <2>1. TypeOK'
    BY <1>6, <1>0, SignalNames
    DEF TypeOK, ProcessMDMA, DmaSignal
  <2>2. SignalsMatchRegisters'
    BY <1>6, <1>0
    DEF TypeOK, SignalsMatchRegisters, ProcessMDMA, DmaSignal
  <2>3. NmiInv'
    BY <1>6, <1>0
    DEF TypeOK, SignalsMatchRegisters, NmiInv, ProcessMDMA, DmaSignal
  <2>4. SliceInv'
    BY <1>6, <1>0
    DEF TypeOK, SliceInv, ProcessMDMA, DmaSignal
  <2>5. BalanceInv'
    BY <1>6, <1>0
    DEF TypeOK, SliceInv, BalanceInv, RestOfPart, ProcessMDMA, DmaSignal
  <2> QED BY <2>1, <2>2, <2>3, <2>4, <2>5 DEF IInv
<1>7. CASE AnswerNMI
  <2>1. TypeOK'
    BY <1>7, <1>0, SignalNames
    DEF TypeOK, AnswerNMI
  <2>2. SignalsMatchRegisters'
    BY <1>7, <1>0
    DEF TypeOK, SignalsMatchRegisters, AnswerNMI
  <2>3. NmiInv'
    BY <1>7, <1>0
    DEF TypeOK, SignalsMatchRegisters, NmiInv, AnswerNMI
  <2>4. SliceInv'
    BY <1>7, <1>0
    DEF TypeOK, SliceInv, AnswerNMI
  <2>5. BalanceInv'
    BY <1>7, <1>0
    DEF TypeOK, SliceInv, BalanceInv, RestOfPart, AnswerNMI
  <2> QED BY <2>1, <2>2, <2>3, <2>4, <2>5 DEF IInv
<1>8. CASE EnterNMI
  <2>0. signal' \subseteq Signals
    BY <1>8, <1>0, SignalNames DEF TypeOK, EnterNMI, AfterNMI, RunIf, SignalNMI
  <2>b. /\ iflag' \in BOOLEAN /\ rdnmi' \in BOOLEAN /\ timeup' \in BOOLEAN
        /\ vblank' \in BOOLEAN /\ hblank' \in BOOLEAN /\ owed' \in BOOLEAN
    BY <1>8, <1>0, Zenon DEF TypeOK, EnterNMI, AfterNMI, flags, place
  <2>1. TypeOK'
    BY <1>8, <1>0, <2>0, <2>b
    DEF TypeOK, EnterNMI, AfterNMI, RunIf
  <2>2. SignalsMatchRegisters'
    BY <1>8, <1>0
    DEF TypeOK, SignalsMatchRegisters, EnterNMI, AfterNMI, RunIf
  <2>3. NmiInv'
    BY <1>8, <1>0
    DEF TypeOK, SignalsMatchRegisters, NmiInv, EnterNMI, AfterNMI, RunIf
  <2>4. SliceInv'
    BY <1>8, <1>0
    DEF TypeOK, SliceInv, EnterNMI, AfterNMI, RunIf
  <2>5. BalanceInv'
    BY <1>8, <1>0
    DEF TypeOK, SliceInv, BalanceInv, RestOfPart, EnterNMI, AfterNMI, RunIf
  <2> QED BY <2>1, <2>2, <2>3, <2>4, <2>5 DEF IInv
<1>9. CASE AnswerIRQ
  <2>0. signal' \subseteq Signals
    BY <1>9, <1>0, SignalNames DEF TypeOK, AnswerIRQ, RunIf, SignalNMI
  <2>b. /\ iflag' \in BOOLEAN /\ rdnmi' \in BOOLEAN /\ timeup' \in BOOLEAN
        /\ vblank' \in BOOLEAN /\ hblank' \in BOOLEAN /\ owed' \in BOOLEAN
    BY <1>9, <1>0, Zenon DEF TypeOK, AnswerIRQ, AfterNMI, flags, place
  <2>1. TypeOK'
    BY <1>9, <1>0, <2>0, <2>b
    DEF TypeOK, AnswerIRQ, RunIf
  <2>2. SignalsMatchRegisters'
    BY <1>9, <1>0
    DEF TypeOK, SignalsMatchRegisters, AnswerIRQ, RunIf
  <2>3. NmiInv'
    BY <1>9, <1>0
    DEF TypeOK, SignalsMatchRegisters, NmiInv, AnswerIRQ, RunIf
  <2>4. SliceInv'
    BY <1>9, <1>0
    DEF TypeOK, SliceInv, AnswerIRQ, RunIf
  <2>5. BalanceInv'
    BY <1>9, <1>0
    DEF TypeOK, SliceInv, BalanceInv, RestOfPart, AnswerIRQ, RunIf
  <2> QED BY <2>1, <2>2, <2>3, <2>4, <2>5 DEF IInv
<1>10. CASE NoSignal
  <2>1. TypeOK'
    BY <1>10, <1>0, SignalNames
    DEF TypeOK, NoSignal
  <2>2. SignalsMatchRegisters'
    BY <1>10, <1>0
    DEF TypeOK, SignalsMatchRegisters, NoSignal
  <2>3. NmiInv'
    BY <1>10, <1>0
    DEF TypeOK, SignalsMatchRegisters, NmiInv, NoSignal
  <2>4. SliceInv'
    BY <1>10, <1>0
    DEF TypeOK, SliceInv, NoSignal
  <2>5. BalanceInv'
    BY <1>10, <1>0
    DEF TypeOK, SliceInv, BalanceInv, RestOfPart, NoSignal
  <2> QED BY <2>1, <2>2, <2>3, <2>4, <2>5 DEF IInv
<1>11. CASE Instruction
  <2>1. TypeOK'
    BY <1>11, <1>0, SignalNames
    DEF TypeOK, Instruction, Executing, Pay, After, RunIf
  <2>2. SignalsMatchRegisters'
    BY <1>11, <1>0
    DEF TypeOK, SignalsMatchRegisters, Instruction, Executing, Pay, After, RunIf
  <2>3. NmiInv'
    BY <1>11, <1>0
    DEF TypeOK, SignalsMatchRegisters, NmiInv, Instruction, Executing, Pay, After, RunIf
  <2>4. SliceInv'
    BY <1>11, <1>0
    DEF TypeOK, SliceInv, Instruction, Executing, Pay, After, RunIf
  <2>5. BalanceInv'
    BY <1>11, <1>0
    DEF TypeOK, SliceInv, BalanceInv, RestOfPart, Instruction, Executing, Pay, After, RunIf
  <2> QED BY <2>1, <2>2, <2>3, <2>4, <2>5 DEF IInv
<1>12. CASE SetI
  <2>1. TypeOK'
    BY <1>12, <1>0, SignalNames
    DEF TypeOK, SetI, Executing, Pay, After, RunIf
  <2>2. SignalsMatchRegisters'
    BY <1>12, <1>0
    DEF TypeOK, SignalsMatchRegisters, SetI, Executing, Pay, After, RunIf
  <2>3. NmiInv'
    BY <1>12, <1>0
    DEF TypeOK, SignalsMatchRegisters, NmiInv, SetI, Executing, Pay, After, RunIf
  <2>4. SliceInv'
    BY <1>12, <1>0
    DEF TypeOK, SliceInv, SetI, Executing, Pay, After, RunIf
  <2>5. BalanceInv'
    BY <1>12, <1>0
    DEF TypeOK, SliceInv, BalanceInv, RestOfPart, SetI, Executing, Pay, After, RunIf
  <2> QED BY <2>1, <2>2, <2>3, <2>4, <2>5 DEF IInv
<1>13. CASE Wai
  <2>1. TypeOK'
    BY <1>13, <1>0, SignalNames
    DEF TypeOK, Wai, Pay, After, RunIf
  <2>2. SignalsMatchRegisters'
    BY <1>13, <1>0
    DEF TypeOK, SignalsMatchRegisters, Wai, Pay, After, RunIf
  <2>3. NmiInv'
    BY <1>13, <1>0
    DEF TypeOK, SignalsMatchRegisters, NmiInv, Wai, Pay, After, RunIf
  <2>4. SliceInv'
    BY <1>13, <1>0
    DEF TypeOK, SliceInv, Wai, Pay, After, RunIf
  <2>5. BalanceInv'
    BY <1>13, <1>0
    DEF TypeOK, SliceInv, BalanceInv, RestOfPart, Wai, Pay, After, RunIf
  <2> QED BY <2>1, <2>2, <2>3, <2>4, <2>5 DEF IInv
<1>14. CASE WriteNmitimen
  <2>1. TypeOK'
    BY <1>14, <1>0, SignalNames
    DEF TypeOK, WriteNmitimen, TimerOff, Executing, Pay, After, RunIf, Rising, SignalNMI
  <2>2. SignalsMatchRegisters'
    BY <1>14, <1>0
    DEF TypeOK, SignalsMatchRegisters, WriteNmitimen, TimerOff, Executing, Pay, After, RunIf, Rising, SignalNMI
  <2>3. NmiInv'
    BY <1>14, <1>0
    DEF TypeOK, SignalsMatchRegisters, NmiInv, WriteNmitimen, TimerOff, Executing, Pay, After, RunIf, Rising, SignalNMI
  <2>4. SliceInv'
    BY <1>14, <1>0
    DEF TypeOK, SliceInv, WriteNmitimen, TimerOff, Executing, Pay, After, RunIf, Rising, SignalNMI
  <2>5. BalanceInv'
    BY <1>14, <1>0
    DEF TypeOK, SliceInv, BalanceInv, RestOfPart, WriteNmitimen, TimerOff, Executing, Pay, After, RunIf, Rising, SignalNMI
  <2> QED BY <2>1, <2>2, <2>3, <2>4, <2>5 DEF IInv
<1>15. CASE ReadRdnmi
  <2>0. signal' \subseteq Signals
    BY <1>15, <1>0, SignalNames DEF TypeOK, ReadRdnmi, NMIRead, Executing, Pay, After, RunIf, SignalNMI, SignalNMI
  <2>b. /\ iflag' \in BOOLEAN /\ rdnmi' \in BOOLEAN /\ timeup' \in BOOLEAN
        /\ vblank' \in BOOLEAN /\ hblank' \in BOOLEAN /\ owed' \in BOOLEAN
    BY <1>15, <1>0, Zenon DEF TypeOK, ReadRdnmi, AfterNMI, flags, place
  <2>1. TypeOK'
    BY <1>15, <1>0, <2>0, <2>b
    DEF TypeOK, ReadRdnmi, NMIRead, Executing, Pay, After, RunIf, SignalNMI
  <2>2. SignalsMatchRegisters'
    BY <1>15, <1>0
    DEF TypeOK, SignalsMatchRegisters, ReadRdnmi, NMIRead, Executing, Pay, After, RunIf, SignalNMI
  <2>3. NmiInv'
    BY <1>15, <1>0
    DEF TypeOK, SignalsMatchRegisters, NmiInv, ReadRdnmi, NMIRead, Executing, Pay, After, RunIf, SignalNMI
  <2>4. SliceInv'
    BY <1>15, <1>0
    DEF TypeOK, SliceInv, ReadRdnmi, NMIRead, Executing, Pay, After, RunIf, SignalNMI
  <2>5. BalanceInv'
    BY <1>15, <1>0
    DEF TypeOK, SliceInv, BalanceInv, RestOfPart, ReadRdnmi, NMIRead, Executing, Pay, After, RunIf, SignalNMI
  <2> QED BY <2>1, <2>2, <2>3, <2>4, <2>5 DEF IInv
<1>16. CASE AccessTimeup
  <2>0. signal' \subseteq Signals
    BY <1>16, <1>0, SignalNames DEF TypeOK, AccessTimeup, Executing, Pay, After, RunIf, SignalNMI
  <2>b. /\ iflag' \in BOOLEAN /\ rdnmi' \in BOOLEAN /\ timeup' \in BOOLEAN
        /\ vblank' \in BOOLEAN /\ hblank' \in BOOLEAN /\ owed' \in BOOLEAN
    BY <1>16, <1>0, Zenon DEF TypeOK, AccessTimeup, AfterNMI, flags, place
  <2>1. TypeOK'
    BY <1>16, <1>0, <2>0, <2>b
    DEF TypeOK, AccessTimeup, Executing, Pay, After, RunIf
  <2>2. SignalsMatchRegisters'
    BY <1>16, <1>0
    DEF TypeOK, SignalsMatchRegisters, AccessTimeup, Executing, Pay, After, RunIf
  <2>3. NmiInv'
    BY <1>16, <1>0
    DEF TypeOK, SignalsMatchRegisters, NmiInv, AccessTimeup, Executing, Pay, After, RunIf
  <2>4. SliceInv'
    BY <1>16, <1>0
    DEF TypeOK, SliceInv, AccessTimeup, Executing, Pay, After, RunIf
  <2>5. BalanceInv'
    BY <1>16, <1>0
    DEF TypeOK, SliceInv, BalanceInv, RestOfPart, AccessTimeup, Executing, Pay, After, RunIf
  <2> QED BY <2>1, <2>2, <2>3, <2>4, <2>5 DEF IInv
<1>17. CASE WriteMdmaen
  <2>1. TypeOK'
    BY <1>17, <1>0, SignalNames
    DEF TypeOK, WriteMdmaen, RaiseDMA, Executing, Pay, After, RunIf
  <2>2. SignalsMatchRegisters'
    BY <1>17, <1>0
    DEF TypeOK, SignalsMatchRegisters, WriteMdmaen, RaiseDMA, Executing, Pay, After, RunIf
  <2>3. NmiInv'
    BY <1>17, <1>0
    DEF TypeOK, SignalsMatchRegisters, NmiInv, WriteMdmaen, RaiseDMA, Executing, Pay, After, RunIf
  <2>4. SliceInv'
    BY <1>17, <1>0
    DEF TypeOK, SliceInv, WriteMdmaen, RaiseDMA, Executing, Pay, After, RunIf
  <2>5. BalanceInv'
    BY <1>17, <1>0
    DEF TypeOK, SliceInv, BalanceInv, RestOfPart, WriteMdmaen, RaiseDMA, Executing, Pay, After, RunIf
  <2> QED BY <2>1, <2>2, <2>3, <2>4, <2>5 DEF IInv
<1>18. CASE UNCHANGED vars
  BY <1>18, <1>0 DEF vars, IInv, TypeOK, SignalsMatchRegisters, NmiInv, SliceInv, BalanceInv, RestOfPart
<1> QED BY <1>1, <1>2, <1>3, <1>4, <1>5, <1>6, <1>7, <1>8, <1>9, <1>10, <1>11, <1>12, <1>13, <1>14, <1>15, <1>16, <1>17, <1>18 DEF Next, Scheduler, ExecuteCPU, Execute

(* The inductive invariant holds throughout.                               *)
THEOREM Invariance == Spec => []IInv
<1>1. Init => IInv
  BY InitIInv
<1>2. IInv /\ [Next]_vars => IInv'
  BY NextIInv
<1>. QED
  BY <1>1, <1>2, PTL DEF Spec

(* Every variable keeps its type.                                          *)
THEOREM TypeCorrect == Spec => []TypeOK
<1>1. IInv => TypeOK
  BY DEF IInv
<1>. QED
  BY <1>1, Invariance, PTL

(* The CPU's signals agree with $4200, $4210, $4211 and $420B for every    *)
(* frame geometry and every sequence of instructions.                      *)
THEOREM SignalsMatch == Spec => []SignalsMatchRegisters
<1>1. IInv => SignalsMatchRegisters
  BY DEF IInv
<1>. QED
  BY <1>1, Invariance, PTL

(* ExecuteCPU enters the NMI handler once for every edge, in v-blank.      *)
THEOREM NmiPerEdge == Spec => []NmiAnswersAnEdge
<1>1. IInv => NmiAnswersAnEdge
  BY DEF IInv, NmiInv, NmiAnswersAnEdge
<1>. QED
  BY <1>1, Invariance, PTL

(* Overrun cycles never accumulate, whatever the costs, as long as a line  *)
(* pays for its delay and its HDMA.                                        *)
THEOREM LinesOnTime == Spec => []LineStartsOnTime
<1>1. IInv => LineStartsOnTime
  BY PartFacts DEF IInv, TypeOK, SliceInv, BalanceInv, RestOfPart, LineStartsOnTime
<1>. QED
  BY <1>1, Invariance, PTL
=============================================================================
