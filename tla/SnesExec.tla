------------------------------- MODULE SnesExec -------------------------------
(***************************************************************************)
(* How the 65816 is scheduled: ExecuteFrame cuts the frame into lines,     *)
(* ExecuteLine a line into an active part and an h-blank part, and         *)
(* ExecuteWithIRQ a part at the position of the timer interrupt.           *)
(* ExecuteCPU gives the CPU the cycles of one slice and, before letting it *)
(* run, answers the signals DMA, NMIEDGE and IRQ.  Instructions raise and  *)
(* clear signals through the registers $4200, $4210, $4211 and $420B; a    *)
(* signal raised by an instruction aborts the interpreter so that          *)
(* ExecuteCPU looks at it again.                                           *)
(*                                                                         *)
(* Sources: src/snes/core/snes.cpp, src/snes/cpu/sncpu.c, the opcodes WAI, *)
(* CLI and SEI of src/snes/cpu/sncpu_c.c, src/snes/core/sndma.cpp.         *)
(*                                                                         *)
(* Abstractions: a DMA byte costs one cycle, and DMA data do not address   *)
(* the registers $4200-$421F; the timer positions HTIME and VTIME are      *)
(* registers the game can rewrite before any line, so whether and where    *)
(* the timer fires is chosen freely at the start of a line; the program    *)
(* counter is not modelled, but for standing at a WAI.  The RESET signal   *)
(* is never raised.                                                        *)
(***************************************************************************)
EXTENDS Integers

CONSTANTS
    VisibleLines,   \* 225
    FrameLines,     \* 262
    ActiveCycles,   \* SNES_CYCLESPERLINE - SNES_HBLANKCYCLES
    HblankCycles,   \* SNES_HBLANKCYCLES
    LineDelay,      \* SNES_LINECYCLEDELAY
    MaxCost,        \* most cycles an instruction takes
    EntryCost,      \* cycles of entering an NMI or IRQ handler
    MaxHdma,        \* most cycles the HDMA channels take on one line
    DmaSizes,       \* bytes a write to $420B may start to transfer
    DmaRound,       \* bytes a DMA may run over its slice (rounding to 4)
    HTimes          \* positions of the horizontal timer

ASSUME LineAssumption ==
    /\ FrameLines \in Nat /\ VisibleLines \in 1..(FrameLines - 1)
    /\ ActiveCycles \in Nat \ {0} /\ HblankCycles \in Nat \ {0}
    /\ LineDelay \in Nat
ASSUME CostAssumption ==
    /\ MaxCost \in Nat \ {0} /\ EntryCost \in Nat \ {0}
    /\ MaxHdma \in Nat
(* A whole line pays for its delay and for the dearest HDMA.               *)
ASSUME SlackAssumption ==
    /\ LineDelay <= ActiveCycles
    /\ MaxHdma + LineDelay <= ActiveCycles + HblankCycles
ASSUME DmaAssumption == DmaSizes \subseteq Nat \ {0} /\ DmaRound \in Nat
ASSUME TimerAssumption == HTimes \subseteq Nat

VARIABLES
    pc,             \* where the scheduler is: see TypeOK
    line,           \* m_uLine
    part,           \* the part of the line being executed
    then,           \* what follows the present call of ExecuteCPU
    irqAt,          \* nHIRQCycles: cycles until the timer fires, or below 0
    cycles,         \* m_Cpu.Cycles: cycles left in the slice
    signal,         \* m_Cpu.uSignal
    iflag,          \* SNCPU_FLAG_I, masks IRQ
    nmitimen,       \* $4200: which interrupts are enabled
    rdnmi,          \* $4210 bit 7
    timeup,         \* $4211 bit 7
    vblank,         \* $4212 bit 7
    hblank,         \* $4212 bit 6
    mdma,           \* bytes the DMA channels still have to transfer
    owed            \* an NMI edge has come that no NMI has answered yet

vars == << pc, line, part, then, irqAt, cycles, signal, iflag, nmitimen, rdnmi,
           timeup, vblank, hblank, mdma, owed >>

place == << line, part, then, irqAt >>
flags == << vblank, hblank >>

Signals == {"NMI", "NMIEDGE", "IRQ", "DMA", "WAI"}
Enables == {"nmi", "h", "v"}

TypeOK ==
    /\ pc \in {"line", "top", "one", "nmi", "exec", "irq", "end"}
    /\ line \in 0..(FrameLines - 1)
    /\ part \in {"active", "hblank"}
    /\ then \in {"irq", "end"}
    /\ irqAt \in Int
    /\ cycles \in Int
    /\ signal \subseteq Signals
    /\ nmitimen \subseteq Enables
    /\ mdma \in Nat
    /\ iflag \in BOOLEAN /\ rdnmi \in BOOLEAN /\ timeup \in BOOLEAN
    /\ vblank \in BOOLEAN /\ hblank \in BOOLEAN /\ owed \in BOOLEAN

(* SnesSystem::Reset                                                       *)
Init ==
    /\ pc = "line" /\ line = 0 /\ part = "active" /\ then = "end" /\ irqAt = -1
    /\ cycles = 0 /\ signal = {} /\ iflag = TRUE
    /\ nmitimen = {} /\ rdnmi = FALSE /\ timeup = FALSE
    /\ vblank = FALSE /\ hblank = FALSE
    /\ mdma = 0 /\ owed = FALSE

-----------------------------------------------------------------------------
(* SNCPUSignalNMI, given the new level of rdnmi AND nmitimen: a rising      *)
(* level also raises NMIEDGE, a low level drops both.                      *)
Rising(level) == level /\ "NMI" \notin signal

SignalNMI(sig, level) ==
    IF ~level THEN sig \ {"NMI", "NMIEDGE"}
    ELSE IF "NMI" \in sig THEN sig ELSE sig \cup {"NMI", "NMIEDGE"}

PartCycles(p) == IF p = "active" THEN ActiveCycles ELSE HblankCycles

(* ExecuteWithIRQ: run up to the timer if it lies in this part, else all   *)
(* of it.  n is the CPU's cycle count before SNCPUAddCycles.               *)
BeginPart(p, at, n) ==
    /\ part' = p
    /\ irqAt' = at
    /\ pc' = "top"
    /\ IF at >= 0 /\ at < PartCycles(p)
       THEN then' = "irq" /\ cycles' = n + at
       ELSE then' = "end" /\ cycles' = n + PartCycles(p)

(* ExecuteLine up to the first ExecuteWithIRQ: when does the timer fire?   *)
BeginLine ==
    /\ pc = "line"
    /\ \E at \in {-1} \cup HTimes :
          /\ at = -1 => ("v" \in nmitimen \/ "h" \notin nmitimen)
          /\ at # -1 => ("v" \in nmitimen \/ "h" \in nmitimen)
          /\ (at # -1 /\ "h" \notin nmitimen) => at = 0
          /\ BeginPart("active", at, cycles - LineDelay)
    /\ UNCHANGED << line, signal, iflag, nmitimen, rdnmi, timeup, flags, mdma, owed >>

(* nCycles - nIRQCycles; its mutant.                                       *)
RestOfPartMutant == irqAt
RestOfPart == PartCycles(part) - irqAt

(* The timer: TIMEUP and the IRQ signal, then the rest of the part.        *)
FireIRQ ==
    /\ pc = "irq"
    /\ timeup' = TRUE
    /\ signal' = signal \cup {"IRQ"}
    /\ cycles' = cycles + RestOfPart
    /\ pc' = "top" /\ then' = "end"
    /\ UNCHANGED << line, part, irqAt, iflag, nmitimen, rdnmi, flags, mdma, owed >>

(* The active part is over: h-blank begins, with HDMA outside v-blank.     *)
BeginHblank ==
    /\ pc = "end" /\ part = "active"
    /\ hblank' = TRUE
    /\ \E h \in (IF vblank THEN {0} ELSE 0..MaxHdma) :
          BeginPart("hblank", irqAt - ActiveCycles, cycles - h)
    /\ UNCHANGED << line, signal, iflag, nmitimen, rdnmi, timeup, vblank, mdma, owed >>

(* m_uLine < 262 ends the frame.                                           *)
FrameOver == line + 1 = FrameLines

(* The line is over.  After the last visible line v-blank begins and RDNMI *)
(* is set; after the last line of the frame both end.                      *)
EndLine ==
    /\ pc = "end" /\ part = "hblank"
    /\ hblank' = FALSE
    /\ pc' = "line"
    /\ IF line + 1 = VisibleLines
       THEN /\ line' = line + 1 /\ vblank' = TRUE /\ rdnmi' = TRUE
            /\ signal' = SignalNMI(signal, "nmi" \in nmitimen)
            /\ owed' = (owed \/ Rising("nmi" \in nmitimen))
       ELSE IF FrameOver
       THEN /\ line' = 0 /\ vblank' = FALSE /\ rdnmi' = FALSE
            /\ signal' = SignalNMI(signal, FALSE)
            /\ UNCHANGED owed
       ELSE line' = line + 1 /\ UNCHANGED << vblank, rdnmi, signal, owed >>
    /\ UNCHANGED << part, then, irqAt, cycles, iflag, nmitimen, timeup, mdma >>

-----------------------------------------------------------------------------
(* ExecuteCPU, the head of its loop.                                       *)

SliceDone ==
    /\ pc = "top" /\ cycles <= 0
    /\ pc' = then
    /\ UNCHANGED << place, cycles, signal, iflag, nmitimen, rdnmi, timeup, flags,
                    mdma, owed >>

(* The DMA signal once rest bytes are left; in its mutant it stays up.     *)
DmaSignalMutant(rest) == signal
DmaSignal(rest) == IF rest = 0 THEN signal \ {"DMA"} ELSE signal

(* The DMA runs for the rest of the slice, or until it is complete.        *)
ProcessMDMA ==
    /\ pc = "top" /\ cycles > 0 /\ "DMA" \in signal
    /\ \E n \in 0..(cycles + DmaRound) :
          /\ n <= mdma
          /\ n < cycles => n = mdma
          /\ mdma' = mdma - n
          /\ cycles' = cycles - n
          /\ signal' = DmaSignal(mdma - n)
    /\ UNCHANGED << pc, place, iflag, nmitimen, rdnmi, timeup, flags, owed >>

(* NMI: one instruction first, unless the CPU waits in a WAI.              *)
AnswerNMI ==
    /\ pc = "top" /\ cycles > 0 /\ "DMA" \notin signal /\ "NMIEDGE" \in signal
    /\ pc' = IF "WAI" \in signal THEN "nmi" ELSE "one"
    /\ UNCHANGED << place, cycles, signal, iflag, nmitimen, rdnmi, timeup, flags,
                    mdma, owed >>

(* Where SNCPUExecute leaves the loop.                                     *)
RunIf(n) == IF n > 0 THEN "exec" ELSE "top"

(* The signals once the NMI is entered: out of the WAI, the edge cleared.  *)
(* Its mutants leave the one or the other.                                 *)
AfterNMIMutantEdge == signal \ {"WAI"}
AfterNMIMutantWai == signal \ {"NMIEDGE"}
AfterNMI == signal \ {"WAI", "NMIEDGE"}

(* SNCPUNMI, and the edge is cleared.                                      *)
EnterNMI ==
    /\ pc = "nmi"
    /\ signal' = AfterNMI
    /\ owed' = FALSE
    /\ cycles' = cycles - EntryCost
    /\ pc' = RunIf(cycles')
    /\ UNCHANGED << place, iflag, nmitimen, rdnmi, timeup, flags, mdma >>

(* SNCPUIRQ does nothing when the I flag is set.                           *)
AnswerIRQ ==
    /\ pc = "top" /\ cycles > 0
    /\ signal \cap {"DMA", "NMIEDGE"} = {} /\ "IRQ" \in signal
    /\ IF iflag
       THEN UNCHANGED << signal, iflag, cycles >>
       ELSE /\ signal' = signal \ {"WAI"} /\ iflag' = TRUE
            /\ cycles' = cycles - EntryCost
    /\ pc' = RunIf(cycles')
    /\ UNCHANGED << place, nmitimen, rdnmi, timeup, flags, mdma, owed >>

NoSignal ==
    /\ pc = "top" /\ cycles > 0
    /\ signal \cap {"DMA", "NMIEDGE", "IRQ"} = {}
    /\ pc' = "exec"
    /\ UNCHANGED << place, cycles, signal, iflag, nmitimen, rdnmi, timeup, flags,
                    mdma, owed >>

-----------------------------------------------------------------------------
(* One instruction, in SNCPUExecute (pc = "exec") or in SNCPUExecuteOne    *)
(* (pc = "one").  An instruction that aborts ends SNCPUExecute at once,    *)
(* and pays only the cycles it used before its access.  While the WAI      *)
(* signal is up the program counter stays at the WAI.                      *)
Executing == pc \in {"one", "exec"} /\ "WAI" \notin signal

After(aborted) ==
    pc' = IF pc = "one" THEN "nmi" ELSE IF aborted THEN "top" ELSE RunIf(cycles')

Pay == \E c \in 1..MaxCost : cycles' = cycles - c

Instruction ==
    /\ Executing /\ Pay /\ After(FALSE)
    /\ UNCHANGED << place, signal, iflag, nmitimen, rdnmi, timeup, flags, mdma, owed >>

(* SEI, CLI, PLP and RTI.  SNCPU_CHECKIRQ is empty: nothing looks at a     *)
(* pending IRQ when the flag is cleared.                                   *)
SetI ==
    /\ Executing /\ Pay /\ After(FALSE)
    /\ iflag' \in BOOLEAN
    /\ UNCHANGED << place, signal, nmitimen, rdnmi, timeup, flags, mdma, owed >>

(* WAI repeats itself unless an IRQ is signalled.  The interpreter written *)
(* in C gives up the slice, the one in assembly comes round to it again.   *)
Wai ==
    /\ pc \in {"one", "exec"}
    /\ IF "IRQ" \in signal
       THEN signal' = signal \ {"WAI"} /\ Pay
       ELSE /\ signal' = signal \cup {"WAI"}
            /\ \/ Pay
               \/ \E c \in 1..MaxCost :
                     cycles' = (IF pc = "one" THEN cycles - 1 ELSE 0) - c
    /\ After(FALSE)
    /\ UNCHANGED << place, iflag, nmitimen, rdnmi, timeup, flags, mdma, owed >>

(* The IRQ signal when $4200 turns the timers off; in its mutant it stays. *)
TimerOffMutant(off) == signal
TimerOff(off) == IF off THEN signal \ {"IRQ"} ELSE signal

(* $4200.  With both timer bits off TIMEUP and the IRQ signal are dropped. *)
WriteNmitimen ==
    /\ Executing /\ Pay
    /\ \E new \in SUBSET Enables :
          LET off == {"h", "v"} \cap new = {}
              level == rdnmi /\ "nmi" \in new
          IN /\ nmitimen' = new
             /\ timeup' = (timeup /\ ~off)
             /\ signal' = SignalNMI(TimerOff(off), level)
             /\ owed' = (owed \/ Rising(level))
             /\ After(Rising(level))
    /\ UNCHANGED << place, iflag, rdnmi, flags, mdma >>

(* The signals after $4210 is read.                                        *)
NMIRead == SignalNMI(signal, FALSE)

(* $4210 read: RDNMI, the NMI level and its edge are cleared.              *)
ReadRdnmi ==
    /\ Executing /\ Pay /\ After(FALSE)
    /\ rdnmi' = FALSE
    /\ signal' = NMIRead
    /\ UNCHANGED << place, iflag, nmitimen, timeup, flags, mdma, owed >>

(* $4211 read or written: TIMEUP and the IRQ signal are cleared.           *)
AccessTimeup ==
    /\ Executing /\ Pay /\ After(FALSE)
    /\ timeup' = FALSE
    /\ signal' = signal \ {"IRQ"}
    /\ UNCHANGED << place, iflag, nmitimen, rdnmi, flags, mdma, owed >>

(* A write to $420B raises the DMA signal.                                 *)
RaiseDMA(n) == IF n = 0 THEN signal ELSE signal \cup {"DMA"}

(* $420B: start a DMA of n bytes.                                          *)
WriteMdmaen ==
    /\ Executing /\ Pay
    /\ \E n \in DmaSizes \cup {0} :
          /\ mdma' = n
          /\ signal' = RaiseDMA(n)
          /\ After(n # 0)
    /\ UNCHANGED << place, iflag, nmitimen, rdnmi, timeup, flags, owed >>

-----------------------------------------------------------------------------
Scheduler == BeginLine \/ FireIRQ \/ BeginHblank \/ EndLine

ExecuteCPU == SliceDone \/ ProcessMDMA \/ AnswerNMI \/ EnterNMI \/ AnswerIRQ \/ NoSignal

Execute == \/ Instruction \/ SetI \/ Wai
           \/ WriteNmitimen \/ ReadRdnmi \/ AccessTimeup \/ WriteMdmaen

Next == Scheduler \/ ExecuteCPU \/ Execute

Spec == Init /\ [][Next]_vars

(* A single thread: some step is always taken.                             *)
FairSpec == Spec /\ WF_vars(Next)

-----------------------------------------------------------------------------
(* Properties.                                                             *)

(* The signals of the CPU, which are set and cleared in six places, always *)
(* agree with the registers they stand for: NMI with RDNMI and its enable  *)
(* bit, IRQ with TIMEUP, DMA with the channels that have bytes left.  No   *)
(* NMI edge outlives its level, and RDNMI does not outlive v-blank.        *)
SignalsMatchRegisters ==
    /\ "NMI" \in signal <=> (rdnmi /\ "nmi" \in nmitimen)
    /\ "NMIEDGE" \in signal => "NMI" \in signal
    /\ "IRQ" \in signal <=> timeup
    /\ mdma # 0 => "DMA" \in signal
    /\ rdnmi => vblank

(* ExecuteCPU enters the NMI handler only in v-blank, and once for every   *)
(* edge, although the signals can change in the instruction before it.     *)
NmiAnswersAnEdge == pc = "nmi" => owed /\ vblank

(* How far the CPU may run over the end of a slice.                        *)
Overrun == IF DmaRound > MaxCost + EntryCost THEN DmaRound ELSE MaxCost + EntryCost
HdmaExcess == IF MaxHdma > HblankCycles THEN MaxHdma - HblankCycles ELSE 0

(* The cycles a slice runs over are taken from the next one, and so never  *)
(* add up: a line starts late by one overrun at most.  HDMA and the line   *)
(* delay, charged with nothing left to pay, do not change that as long as  *)
(* a whole line can pay for them.                                          *)
LineStartsOnTime == pc = "line" => cycles <= 0 /\ cycles >= -(Overrun + HdmaExcess)

(* The inductive invariant behind the three properties above.              *)

(* Whenever the CPU is about to enter the NMI handler, or will be once the *)
(* DMA lets it, an edge is owed an answer.                                 *)
NmiInv ==
    /\ pc \in {"one", "nmi"} => owed /\ vblank
    /\ "NMIEDGE" \in signal => owed

(* The timer splits only a part it lies in, and the scheduler is left only *)
(* when the slice is used up.                                              *)
SliceInv ==
    /\ then = "irq" => irqAt >= 0 /\ irqAt < PartCycles(part)
    /\ pc = "irq" => then = "irq"
    /\ pc \in {"end", "line"} => then = "end"
    /\ pc \in {"irq", "end", "line"} => cycles <= 0
    /\ pc \in {"one", "exec"} => cycles > 0
    /\ pc = "nmi" => cycles >= -MaxCost

(* Counting what the rest of a split part will still bring, the CPU is     *)
(* never further behind than one overrun, and in h-blank the HDMA excess.  *)
BalanceInv ==
    cycles + (IF then = "irq" THEN RestOfPart ELSE 0)
        >= -(Overrun + (IF part = "hblank" THEN HdmaExcess ELSE 0))

IInv == /\ TypeOK
        /\ SignalsMatchRegisters
        /\ NmiInv
        /\ SliceInv
        /\ BalanceInv

(* The scheduler reaches the end of every frame: no signal, and no pair of *)
(* signals, keeps ExecuteCPU in its loop.                                  *)
FramesGoOn == []<>(pc = "line" /\ line = 0)

(* A CPU that waits with NMI enabled does not wait for ever.               *)
WaiWakes == ("WAI" \in signal /\ "nmi" \in nmitimen) ~> "WAI" \notin signal

(* Claims of the source that do not hold.                                  *)

(* snes.cpp: assert(m_DMAC.GetMDMAEnable() == 0) before SNCPUExecute.      *)
NoCpuDuringDma == pc = "exec" => mdma = 0

(* sncpu.c: "If the NMI signal is set to 0, NMIEDGE is cleared."  So an    *)
(* NMI whose level went low before it was entered is not entered.          *)
NmiNeedsEdge == pc = "nmi" => "NMIEDGE" \in signal

(* snes.cpp: "irqs will always be attempted until signal has been          *)
(* cleared": no instruction that starts with an IRQ signalled and enabled  *)
(* is followed by another one.                                             *)
IrqEnabled == "IRQ" \in signal /\ ~iflag

IrqTakenAtOnce ==
    [][(pc = "exec" /\ IrqEnabled /\ IrqEnabled') => pc' # "exec"]_vars
=============================================================================
