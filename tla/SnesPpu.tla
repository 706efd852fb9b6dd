------------------------------- MODULE SnesPpu -------------------------------
(***************************************************************************)
(* How register writes reach the PPU and when lines are drawn.  The CPU    *)
(* never waits for the picture: writes are queued with the number of the   *)
(* scan line they were made on, and Sync, called when somebody needs the   *)
(* PPU's state, draws all lines up to the current one, each with the       *)
(* writes that precede it.  DMA writes sprite, video and colour data       *)
(* directly, after one Sync per slice.                                     *)
(*                                                                         *)
(* Source: src/snes/ppu/snppu.cpp (EnqueueWrite, Sync, BeginFrame,         *)
(* EndFrame, Write8, ReadOAMDATA) and the callers in core/snes.cpp         *)
(* (Write2000, Read2000, ExecuteCPU, ExecuteFrame) and core/sndma.cpp      *)
(* (TransferData).                                                         *)
(*                                                                         *)
(* Of the registers only those are kept that something other than Write8   *)
(* changes: the OAM address, which data accesses and the end of the frame  *)
(* move, its latch, and the forced blanking the end of the frame asks for. *)
(***************************************************************************)
EXTENDS SNQueue, SequencesExt

CONSTANTS
    VisibleLines,   \* 224: lines 1..VisibleLines are drawn
    FrameLines,     \* 262
    OamWidth,       \* size of the OAM address
    OamValues,      \* addresses a game writes
    MaxWrites       \* bound: writes in a behaviour

ASSUME LineAssumption ==
    /\ VisibleLines \in Nat \ {0} /\ FrameLines \in Nat
    /\ VisibleLines + 1 < FrameLines
ASSUME OamAssumption == OamWidth \in Nat \ {0} /\ OamValues \subseteq 0..(OamWidth - 1)
ASSUME MaxWritesAssumption == MaxWrites \in Nat

VARIABLES
    scan,           \* SnesSystem::m_uLine, the line the CPU is on
    uLine,          \* SnesPPU::m_uLine, the next line to draw
    bVBlank,        \* SnesPPU::m_bVBlank
    queue,          \* SnesPPU::m_Queue
    regs,           \* m_Regs: OAM address, its latch, forced blanking
    pc,             \* where the program is: "run" the game, "dma" a transfer,
                    \* "enqueue" a write that found the queue full, "sync"
                    \* Sync, "read" Read2000,
                    \* "endframe" and "newframe" in ExecuteFrame
    back,           \* where Write2000 and Read2000 return to
    ret,            \* where Sync returns to
    made,           \* for every write so far: its line, whether it is of an
                    \* earlier frame, and whether DMA made it directly
    applied,        \* numbers of the writes the PPU has performed, in order
    drawn,          \* lines drawn in this frame, in order
    ideal,          \* regs if every write were performed when it is made
    sliceStart,     \* Len(made) when the DMA slice began
    mixed           \* a DMA slice has mixed queued and direct writes

vars == << scan, uLine, bVBlank, queue, regs, pc, back, ret, made, applied, drawn,
           ideal, sliceStart, mixed >>

Writes == [reg : {"oamadd"}, val : OamValues] \cup [reg : {"inidisp"}, val : BOOLEAN]
              \cup [reg : {"oamdata"}, val : {0}]
Regs == [oamaddr : 0..(OamWidth - 1), latch : 0..(OamWidth - 1), blank : BOOLEAN]
Numbers == 1..MaxWrites
MadeWrites == [line : 0..FrameLines, old : BOOLEAN, direct : BOOLEAN]
Entries == [cycle : 0..FrameLines, num : Numbers, write : Writes]

TypeOK ==
    /\ scan \in 0..FrameLines /\ uLine \in 0..FrameLines
    /\ bVBlank \in BOOLEAN /\ mixed \in BOOLEAN
    /\ queue \in Queues(Entries)
    /\ regs \in Regs /\ ideal \in Regs
    /\ pc \in {"run", "dma", "enqueue", "sync", "read", "endframe", "newframe"}
    /\ back \in {"run", "dma"}
    /\ ret \in {"run", "dma", "enqueue", "read", "endframe", "newframe"}
    /\ made \in Seq(MadeWrites)
    /\ Len(made) <= MaxWrites
    /\ applied \in Seq(Numbers)
    /\ drawn \in Seq(1..VisibleLines)
    /\ sliceStart \in 0..MaxWrites

Cleared == [oamaddr |-> 0, latch |-> 0, blank |-> FALSE]

Init ==
    /\ scan = 0 /\ uLine = 0 /\ bVBlank = FALSE
    /\ queue = EmptyQueue
    /\ regs = Cleared /\ ideal = Cleared
    /\ pc = "run" /\ back = "run" /\ ret = "run"
    /\ made = << >> /\ applied = << >> /\ drawn = << >>
    /\ sliceStart = 0 /\ mixed = FALSE

-----------------------------------------------------------------------------
(* Every access to OAM data moves the address on.                          *)
NextOam(r) == [r EXCEPT !.oamaddr = (@ + 1) % OamWidth]

(* Write8.                                                                 *)
Perform(r, w) ==
    CASE w.reg = "oamadd" -> [r EXCEPT !.oamaddr = w.val, !.latch = w.val]
      [] w.reg = "inidisp" -> [r EXCEPT !.blank = w.val]
      [] w.reg = "oamdata" -> NextOam(r)

(* EndFrame puts the OAM address back, unless the screen is off.           *)
ReloadOam(r) == IF r.blank THEN r ELSE [r EXCEPT !.oamaddr = r.latch]

(* Mutant: the caller goes on without the Sync.                            *)
CallMutant(to) == pc' = to /\ ret' = to

Call(to) == pc' = "sync" /\ ret' = to

-----------------------------------------------------------------------------
(* Writes: of the game, of HDMA, and those of a DMA transfer that          *)
(* TransferData has no direct path for.                                    *)
Write2000 ==
    /\ pc \in {"run", "dma", "enqueue"} /\ Len(made) < MaxWrites
    /\ CanEnqueue(queue)
    /\ \E w \in Writes :
          /\ queue' = Enqueue(queue, [cycle |-> scan, num |-> Len(made) + 1, write |-> w])
          /\ ideal' = Perform(ideal, w)
    /\ made' = Append(made, [line |-> scan, old |-> FALSE, direct |-> FALSE])
    /\ pc' = (IF pc = "enqueue" THEN back ELSE pc)
    /\ back' = "run"
    /\ UNCHANGED << scan, uLine, bVBlank, regs, ret, applied, drawn, sliceStart, mixed >>

(* Mutant: a write that finds no room is given up.                         *)
EnqueueFullMutant ==
    /\ pc \in {"run", "dma"} /\ Len(made) < MaxWrites
    /\ ~CanEnqueue(queue)
    /\ made' = Append(made, [line |-> scan, old |-> FALSE, direct |-> FALSE])
    /\ UNCHANGED << scan, uLine, bVBlank, queue, regs, pc, back, ret, applied, drawn,
                    ideal, sliceStart, mixed >>

(* No room: synchronise, and try again.                                    *)
EnqueueFull ==
    /\ pc \in {"run", "dma"} /\ Len(made) < MaxWrites
    /\ ~CanEnqueue(queue)
    /\ Call("enqueue") /\ back' = pc
    /\ UNCHANGED << scan, uLine, bVBlank, queue, regs, made, applied, drawn,
                    ideal, sliceStart, mixed >>

(* ExecuteCPU finds the DMA signal: one Sync, then ProcessMDMA.            *)
StartSlice ==
    /\ pc = "run" /\ Call("dma")
    /\ sliceStart' = Len(made)
    /\ UNCHANGED << scan, uLine, bVBlank, queue, regs, back, made, applied, drawn, ideal, mixed >>

DirectWrite ==
    /\ pc = "dma" /\ Len(made) < MaxWrites
    /\ made' = Append(made, [line |-> scan, old |-> FALSE, direct |-> TRUE])
    /\ applied' = Append(applied, Len(made) + 1)
    /\ regs' = NextOam(regs) /\ ideal' = NextOam(ideal)
    /\ mixed' = (mixed \/ ~IsEmpty(queue))
    /\ UNCHANGED << scan, uLine, bVBlank, queue, pc, back, ret, drawn, sliceStart >>

EndSlice ==
    /\ pc = "dma" /\ pc' = "run"
    /\ sliceStart' = 0
    /\ UNCHANGED << scan, uLine, bVBlank, queue, regs, back, ret, made, applied, drawn,
                    ideal, mixed >>

(* Read2000 of OAM data, by the game or by DMA: the PPU must be up to date.*)
Read2000 ==
    /\ pc \in {"run", "dma"} /\ Call("read") /\ back' = pc
    /\ UNCHANGED << scan, uLine, bVBlank, queue, regs, made, applied, drawn,
                    ideal, sliceStart, mixed >>

ReadOAMDATA ==
    /\ pc = "read" /\ pc' = back /\ back' = "run"
    /\ regs' = NextOam(regs) /\ ideal' = NextOam(ideal)
    /\ UNCHANGED << scan, uLine, bVBlank, queue, ret, made, applied, drawn,
                    sliceStart, mixed >>

-----------------------------------------------------------------------------
(* Sync(scan).  Lines are drawn while the PPU is not past the current one. *)
Drawing == ~bVBlank /\ uLine <= scan

(* Mutant: the writes of the line being drawn are performed before it.     *)
EarlierMutant == HasBefore(queue, uLine + 1)

Earlier == HasBefore(queue, uLine)

PerformFront ==
    /\ regs' = Perform(regs, Head(queue.live).write)
    /\ applied' = Append(applied, Head(queue.live).num)
    /\ queue' = Dequeue(queue)
    /\ UNCHANGED << scan, uLine, bVBlank, pc, back, ret, made, drawn, ideal, sliceStart, mixed >>

(* Writes of earlier lines come before the line is drawn.                  *)
SyncEarlier == pc = "sync" /\ Drawing /\ Earlier /\ PerformFront

(* Mutant: line 0 is drawn.                                                *)
VisibleMutant == uLine <= VisibleLines

(* Line 0 is not visible, and neither is the line vertical blank starts on.*)
Visible == uLine > 0 /\ uLine <= VisibleLines

RenderLine ==
    /\ pc = "sync" /\ Drawing /\ ~Earlier
    /\ drawn' = IF Visible THEN Append(drawn, uLine) ELSE drawn
    /\ uLine' = uLine + 1
    /\ UNCHANGED << scan, bVBlank, queue, regs, pc, back, ret, made, applied, ideal,
                    sliceStart, mixed >>

(* Whatever is left was written on the line just drawn, or in vertical     *)
(* blank.                                                                  *)
SyncRest == pc = "sync" /\ ~Drawing /\ ~IsEmpty(queue) /\ PerformFront

(* Mutant: what is left waits for the next Sync.                           *)
RestMutant == TRUE
Rest == IsEmpty(queue)

SyncReturn ==
    /\ pc = "sync" /\ ~Drawing /\ Rest
    /\ pc' = ret /\ ret' = "run"
    /\ UNCHANGED << scan, uLine, bVBlank, queue, regs, back, made, applied, drawn,
                    ideal, sliceStart, mixed >>

-----------------------------------------------------------------------------
(* ExecuteFrame.  After the last visible line and at the end of the frame  *)
(* the PPU is synchronised.                                                *)
NextLine ==
    /\ pc = "run" /\ scan < FrameLines
    /\ scan' = scan + 1
    /\ IF scan' = VisibleLines + 1 THEN Call("endframe")
       ELSE IF scan' = FrameLines THEN Call("newframe")
       ELSE UNCHANGED << pc, ret >>
    /\ UNCHANGED << uLine, bVBlank, queue, regs, back, made, applied, drawn, ideal,
                    sliceStart, mixed >>

EndFrame ==
    /\ pc = "endframe" /\ pc' = "run"
    /\ bVBlank' = TRUE
    /\ regs' = ReloadOam(regs) /\ ideal' = ReloadOam(ideal)
    /\ UNCHANGED << scan, uLine, queue, back, ret, made, applied, drawn, sliceStart, mixed >>

BeginFrame ==
    /\ pc = "newframe" /\ pc' = "run"
    /\ scan' = 0 /\ uLine' = 0 /\ bVBlank' = FALSE
    /\ drawn' = << >>
    /\ made' = [i \in DOMAIN made |-> [made[i] EXCEPT !.old = TRUE]]
    /\ UNCHANGED << queue, regs, back, ret, applied, ideal, sliceStart, mixed >>

Next ==
    \/ Write2000 \/ EnqueueFull
    \/ StartSlice \/ DirectWrite \/ EndSlice
    \/ Read2000 \/ ReadOAMDATA
    \/ SyncEarlier \/ RenderLine \/ SyncRest \/ SyncReturn
    \/ NextLine \/ EndFrame \/ BeginFrame

Spec == Init /\ [][Next]_vars

(* The emulator runs in one thread; a game cannot keep the scan line from  *)
(* moving (SnesExec, FramesGoOn).                                          *)
FairSpec == Spec /\ WF_vars(Next) /\ SF_vars(NextLine) /\ WF_vars(EndSlice)

-----------------------------------------------------------------------------
Queued == { i \in DOMAIN made : ~made[i].direct }
Waiting == { queue.live[i].num : i \in DOMAIN queue.live }

(* Writes that go through the queue are performed in the order they were   *)
(* made, none is lost and none performed twice, whatever synchronises the  *)
(* PPU and however often the queue is full.                                *)
PpuOrder ==
    /\ \A i, j \in DOMAIN applied :
          i < j /\ applied[i] \in Queued /\ applied[j] \in Queued => applied[i] < applied[j]
    /\ \A i \in DOMAIN made : i \in ToSet(applied) <=> i \notin Waiting
    /\ \A n \in Waiting \cap Queued, i \in DOMAIN applied : applied[i] \in Queued => applied[i] < n

(* A line is drawn after exactly the writes of the lines before it: the    *)
(* time of the Sync that happens to draw it makes no difference to what    *)
(* is on it.                                                               *)
LineSeesEarlierWrites ==
    [][drawn' # drawn /\ drawn' # << >> =>
          ToSet(applied) = { i \in DOMAIN made : made[i].old \/ made[i].line < uLine }]_vars

(* Lines are drawn once each and in order, and when vertical blank starts  *)
(* none is missing and no write of a visible line is still waiting for the *)
(* OAM reload to go wrong on.                                              *)
FrameComplete ==
    /\ drawn = [i \in 1..Len(drawn) |-> i]
    /\ pc = "endframe" => Len(drawn) = VisibleLines /\ IsEmpty(queue)

(* The registers once what waits in the queue is performed too.            *)
CaughtUp(r, live) == FoldLeft(LAMBDA x, e : Perform(x, e.write), r, live)

(* The registers and the queue together are what they would be if every    *)
(* write had been performed at once.  So a read and the end of the frame   *)
(* act on the state the game expects.  A DMA slice that mixes direct and   *)
(* queued writes is excused, see DirectOvertakesItsSlice.                  *)
RegsCatchUp ==
    /\ ~mixed => CaughtUp(regs, queue.live) = ideal
    /\ pc = "read" => IsEmpty(queue)

(* The direct writes of a DMA slice overtake no write made before the      *)
(* slice: neither of the game, nor of HDMA, nor of an earlier slice.       *)
DirectOvertakesItsSlice ==
    [][DirectWrite => \A i \in DOMAIN queue.live : queue.live[i].num > sliceStart]_vars

(* Every write reaches the PPU: again and again, none is waiting.          *)
EveryWritePerformed == []<>(\A i \in DOMAIN made : i \in ToSet(applied))

(* The inductive invariant behind the safety properties above.             *)

(* What waits was made by the game or HDMA in this frame; the numbers rise *)
(* and the stamps do not fall.                                             *)
QueueInv ==
    /\ Tl(queue) <= QueueSize
    /\ \A i \in DOMAIN queue.live :
          LET e == queue.live[i] IN
          /\ e.num \in Queued /\ ~made[e.num].old /\ made[e.num].line = e.cycle
          /\ \A j \in DOMAIN queue.live :
                i < j => e.num < queue.live[j].num /\ e.cycle <= queue.live[j].cycle

(* Writes of this frame were made on lines up to now, and those performed  *)
(* outside vertical blank before the line to be drawn next.                *)
WrittenInv ==
    /\ \A i \in DOMAIN applied : applied[i] \in DOMAIN made
    /\ \A i \in DOMAIN made : made[i].old \/ made[i].line <= scan
    /\ ~bVBlank => \A i \in DOMAIN applied :
                     made[applied[i]].old \/ made[applied[i]].line < uLine

(* Whoever asked for the Sync finds the PPU past the current line.         *)
SyncedInv ==
    /\ pc \in {"dma", "enqueue", "read", "endframe"} /\ ~bVBlank => uLine > scan
    /\ pc \in {"enqueue", "read", "endframe", "newframe"} => IsEmpty(queue)

(* The lines behind uLine are drawn; vertical blank starts after the last. *)
LineInv ==
    /\ drawn = [i \in 1..Len(drawn) |-> i]
    /\ Len(drawn) = IF uLine = 0 THEN 0
                    ELSE IF uLine <= VisibleLines THEN uLine - 1 ELSE VisibleLines
    /\ bVBlank => scan > VisibleLines
    /\ ~bVBlank => scan <= VisibleLines + 1
    /\ ~bVBlank /\ scan = VisibleLines + 1 <=>
          pc = "endframe" \/ (pc = "sync" /\ ret = "endframe")

SliceInv ==
    /\ sliceStart <= Len(made)
    /\ pc = "dma" => \A i \in DOMAIN queue.live : queue.live[i].num > sliceStart

IInv == /\ TypeOK
        /\ PpuOrder
        /\ QueueInv
        /\ WrittenInv
        /\ SyncedInv
        /\ LineInv
        /\ SliceInv
=============================================================================
