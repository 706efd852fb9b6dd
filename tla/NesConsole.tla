------------------------------- MODULE NesConsole -------------------------------
(***************************************************************************)
(* The NES line by line: the loop of InfoNES_RunOneFrame (the body of      *)
(* InfoNES_Cycle) with the CPU executing a game's code, the sprite-0 hit   *)
(* in the middle of a line, the frame interrupt of the sound unit, the     *)
(* board's callback and the renderer's and PPU's work at the end of each   *)
(* line.  The player holds buttons, which the console reads once a frame,  *)
(* and may reset the console between frames.                               *)
(***************************************************************************)
EXTENDS NesCpu, FiniteSets

CONSTANTS
  Carts,           \* the cartridges: [no, rom, vrom, hmir, four, battery]
  Buttons,         \* what the player may hold (sets of bits, A = 0)
  OpaqueRow(_, _), \* the first row drawn of sprite pattern n with attributes
                   \* a that is not transparent (16 or more: none)
  PatternFetch,    \* the pattern address fetched on a line
  MainLoop,        \* where the game's code waits for interrupts
  NmiCounter, IrqCounter, \* the bytes of RAM its handlers increment
  MaxFrames,       \* bound: frames between resets
  MaxResets        \* bound: resets

VARIABLES
  s,               \* the console
  hit,             \* SpriteJustHit
  phase,           \* "line", "hit" (the rest of a line with a hit), "sync"
  left,            \* clocks of the line the CPU still has to run
  frames, resets,  \* frames since the reset, resets
  nmis, irqs,      \* NMIs and IRQs requested while none was pending
  since, raised    \* lines since $4017 was written, frame IRQs since then

vars == <<s, hit, phase, left, frames, resets, nmis, irqs, since, raised>>

STEP_PER_SCANLINE == 113
STEP_PER_FRAME == 29828

-----------------------------------------------------------------------------
(* The CPU runs until its clocks are used up; what it runs over is taken   *)
(* off the next slice.                                                     *)

\* The loop.  No instruction takes less than two clocks, so a slice of at most
\* a line ends within MaxTurns turns.
MaxTurns == (STEP_PER_SCANLINE + 1) \div 2
Turn(q, n) == IF q.clk < n THEN Instruction(q) ELSE q
Turns(q, n) ==
  LET after[k \in 0..MaxTurns] == IF k = 0 THEN q ELSE Turn(after[k - 1], n)
  IN  after[MaxTurns]
K6502_Step(q, n) == [Turns(EnterInterrupt(q), n) EXCEPT !.clk = @ - n]

-----------------------------------------------------------------------------
(* InfoNES_Reset: RAM, the PPU and its memory, the joypads, the mapper, the *)
(* CPU; b is the board as it was.  ROM pages and cartridge RAM keep what    *)
(* was written to them.  The frame-IRQ bit is a byte beyond APU_Reg, which  *)
(* the clearing of that array does not reach.                               *)

Console_Reset(no, vrom, battery, b, mem, apuIrq) ==
  K6502_Reset(
    [PC |-> 0, SP |-> 0, A |-> 0, X |-> 0, Y |-> 0, F |-> {}, clk |-> 0, nmi |-> FALSE, d |-> 0, ea |-> 0,
     ram |-> <<>>, spr |-> <<>>, no |-> no, battery |-> battery, line |-> 0,
     mem |-> [k \in {x \in DOMAIN mem : x[1][1] # "PPURAM"} |-> mem[k]],
     board |-> InfoNES_Reset(no, b, 0),
     R0 |-> 0, R1 |-> 0, R2 |-> 0, R3 |-> 0, R7 |-> 0, addr |-> 0, temp |-> 0, latch |-> 0, nt |-> 0,
     vwe |-> VramWriteEnable(no, vrom),
     step |-> 0, frameIrq |-> FALSE, apuIrq |-> apuIrq, strobe |-> 0,
     pad |-> <<{}, {}>>, padBit |-> <<0, 0>>])

-----------------------------------------------------------------------------
(* The end of a line. *)

Shown(q) == On(q.R1, 3) /\ On(q.R1, 4)
Height(q) == IF On(q.R0, 5) THEN 16 ELSE 8

\* The sprites whose rows cover the line.
OnLine(q) == {k \in 0..63 : LET y == Get(q.spr, 4 * k) + 1 IN y <= q.line /\ q.line < y + Height(q)}

\* The callbacks of the board, and the flag of more than seven sprites.
InfoNES_DrawLine(q) ==
  LET bg == MapperRenderScreen(q.no, q.board, 1)
      tiles == IF On(q.R1, 3) THEN MapperPPU(q.no, bg, PatternFetch) ELSE bg
      sp == [q EXCEPT !.board = MapperRenderScreen(q.no, tiles, 0)]
  IN  IF ~On(q.R1, 4) THEN sp
      ELSE [sp EXCEPT !.R2 = SetField(@, 5, 1, IF Cardinality(OnLine(q)) >= 8 THEN 1 ELSE 0)]

\* Mutant: a row early.
GetSprHitY_Row(q, old) ==
  LET y == Get(q.spr, 0)
      row == OpaqueRow(Get(q.spr, 1), Get(q.spr, 2))
  IN  IF y = 0 \/ y + 1 > 240 THEN 241
      ELSE IF row < Height(q) THEN y + row ELSE old

\* A sprite 0 without an opaque row leaves the old value.
InfoNES_GetSprHitY(q, old) ==
  LET y == Get(q.spr, 0)
      row == OpaqueRow(Get(q.spr, 1), Get(q.spr, 2))
  IN  IF y = 0 \/ y + 1 > 240 THEN 241
      ELSE IF row < Height(q) THEN y + 1 + row ELSE old

\* The frame sequencer of the sound unit.  FrameStep is a WORD.
Ticked(q) == (q.step + STEP_PER_SCANLINE) % 65536
FrameIrqDue(q) == Ticked(q) > STEP_PER_FRAME /\ q.frameIrq
\* Mutant: it goes on from where it is.
FrameStep_On(q) ==
  IF FrameIrqDue(q) THEN [q EXCEPT !.step = Ticked(q), !.board.irq = TRUE, !.apuIrq = TRUE]
  ELSE [q EXCEPT !.step = Ticked(q)]
FrameStep(q) ==
  IF FrameIrqDue(q)
    THEN [q EXCEPT !.step = Ticked(q) % STEP_PER_FRAME, !.board.irq = TRUE, !.apuIrq = TRUE]
    ELSE [q EXCEPT !.step = Ticked(q)]

\* The line is drawn (FrameSkip stays 0), then the next begins.
TopOfFrame(q) == [q EXCEPT !.R2 = 0, !.board = IF @.vrom = 0 THEN InfoNES_SetupChr(@) ELSE @]
VBlank(q, buttons) ==
  [q EXCEPT !.R2 = 128, !.latch = 0, !.pad = <<buttons, {}>>, !.nmi = @ \/ On(q.R0, 7)]
InfoNES_HSync(q, buttons) ==
  LET drawn == IF q.line < 240 THEN InfoNES_DrawLine(q) ELSE q
      next == [drawn EXCEPT !.line = (@ + 1) % 263]
  IN  CASE next.line = 0 -> TopOfFrame(next)
        [] next.line = 243 -> VBlank(next, buttons)
        [] OTHER -> next

-----------------------------------------------------------------------------
(* The loop. *)

Count(c) == IF c THEN 1 ELSE 0
HitLine == hit = s.line /\ s.line < 240

\* A slice of the CPU; a write to $4017 in it restarts the sequencer.
Restarted(q) == q.step # s.step \/ q.frameIrq # s.frameIrq
Slice(q) ==
  /\ s' = q
  /\ since' = IF Restarted(q) THEN 0 ELSE since
  /\ raised' = IF Restarted(q) THEN 0 ELSE raised
  /\ UNCHANGED <<hit, frames, resets, irqs>>

RunLine ==
  /\ frames < MaxFrames /\ phase = "line" /\ ~HitLine
  /\ Slice(K6502_Step(s, STEP_PER_SCANLINE))
  /\ phase' = "sync"
  /\ left' = 0
  /\ UNCHANGED nmis

\* The flag, and the NMI at the hit.
HitNmi(q) == On(q.R0, 6) /\ On(q.R1, 4)
SliceToHit(q) ==
  /\ Slice([q EXCEPT !.R2 = IF Shown(q) THEN SetField(@, 6, 1, 1) ELSE @, !.nmi = @ \/ HitNmi(q)])
  /\ nmis' = nmis + Count(HitNmi(q) /\ ~q.nmi)

RunToHit ==
  /\ frames < MaxFrames /\ phase = "line" /\ HitLine
  /\ LET n == (Get(s.spr, 3) * STEP_PER_SCANLINE) \div 256
     IN  /\ SliceToHit(K6502_Step(s, n))
         /\ left' = STEP_PER_SCANLINE - n
  /\ phase' = "hit"

RunFromHit ==
  /\ phase = "hit"
  /\ Slice(K6502_Step(s, left))
  /\ phase' = "sync"
  /\ left' = 0
  /\ UNCHANGED nmis

\* FrameStep, MapperHSync and InfoNES_HSync.
EndOfLine ==
  /\ phase = "sync"
  /\ \E buttons \in (IF s.line = 242 THEN Buttons ELSE {s.pad[1]}) :
       LET f == FrameStep(s)
           b == [f EXCEPT !.board = MapperHSync(f.no, @, f.line, Shown(f))]
       IN  /\ s' = InfoNES_HSync(b, buttons)
           /\ irqs' = irqs + Count(b.board.irq /\ ~s.board.irq)
  /\ hit' = IF s'.line = 0 THEN InfoNES_GetSprHitY(s', hit) ELSE hit
  /\ nmis' = nmis + Count(s'.line = 243 /\ On(s'.R0, 7) /\ ~s.nmi)
  /\ since' = since + 1
  /\ raised' = raised + Count(FrameIrqDue(s))
  /\ frames' = frames + Count(s'.line = 0)
  /\ phase' = "line"
  /\ left' = STEP_PER_SCANLINE
  /\ UNCHANGED resets

\* NesSystem::Reset, between two frames.
Reset ==
  /\ phase = "line" /\ s.line = 0 /\ frames > 0 /\ resets < MaxResets
  /\ s' = Console_Reset(s.no, s.board.vrom, s.battery, s.board, s.mem, s.apuIrq)
  /\ hit' = 0
  /\ resets' = resets + 1
  /\ frames' = 0 /\ nmis' = 0 /\ irqs' = 0 /\ since' = 0 /\ raised' = 0
  /\ UNCHANGED <<phase, left>>

Init ==
  /\ \E c \in Carts : s = Console_Reset(c.no, c.vrom, c.battery, Blank(c, 0..31), <<>>, FALSE)
  /\ hit = 0 /\ phase = "line" /\ left = STEP_PER_SCANLINE
  /\ frames = 0 /\ resets = 0
  /\ nmis = 0 /\ irqs = 0 /\ since = 0 /\ raised = 0

Next == RunLine \/ RunToHit \/ RunFromHit \/ EndOfLine \/ Reset

Spec == Init /\ [][Next]_vars

-----------------------------------------------------------------------------
(* Properties. *)

\* From a write to $4017 that enables it on, wherever in a line it falls, the
\* frame interrupt comes at the end of each line in which another 29828 clocks
\* are complete, and never in between (FrameStep in RunOneFrame).
FrameIrqOnTime ==
  phase = "line" /\ s.frameIrq /\ since > 0
    => raised = (STEP_PER_SCANLINE * since - 1) \div STEP_PER_FRAME

\* Whenever the game is back in its main loop, its handlers have run once for
\* each NMI and each IRQ requested, but for the one still pending: a line's
\* end, a sprite hit and a board may ask in the middle of any instruction
\* sequence or handler, and no request is lost, served twice or let in by the
\* wrong flag (EnterInterrupt, RTI, PLA).
InterruptsServed ==
  s.PC \in MainLoop =>
    /\ Get(s.ram, NmiCounter) + Count(s.nmi) = nmis % 256
    /\ Get(s.ram, IrqCounter) + Count(s.board.irq) = irqs % 256

\* From its second frame on, a game that shows the screen and leaves sprite 0
\* where it is sees the hit flag of $2002 exactly from the line of the
\* sprite's first opaque row to the vertical blank: nothing in a line's work
\* between hit and blank clears it, and no line of the frame before sets it,
\* nor does one after.
SpriteHitSeen ==
  LET row == Get(s.spr, 0) + 1 + OpaqueRow(Get(s.spr, 1), Get(s.spr, 2))
      passed == row < s.line \/ (row = s.line /\ phase # "line")
  IN  frames > 0 /\ Shown(s) => (On(s.R2, 6) <=> row < 240 /\ passed /\ s.line < 243)
=============================================================================
