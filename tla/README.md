# Formal models of the emulator

TLA+ models of the core logic of this repository: a Super Nintendo and NES
emulator for the PlayStation 2. The models are model-checked with TLC on small
instances and, for eight of them, proved correct with TLAPS for every value of
their constants. Paths below are relative to the repository (`src/...` is its
source directory).

Contents

1. The system: components, state, interactions, hard behaviours
2. Modules and how they correspond to the code
3. Runs: what each one asks, its bounds, what it shows
4. Fairness
5. Proofs
6. Where the code and its comments disagree
7. What is not modelled, and the plan

## 1. The system

### 1.1 Parts and their state

| Part | Source | State it keeps | Operations |
|---|---|---|---|
| Scheduler | `src/snes/core/snes.cpp` | line number, v-blank and h-blank bits, `m_uFrame`; the frame counters of CPU and SPC | `ExecuteFrame`, `ExecuteLine`, `ExecuteWithIRQ`, `ExecuteCPU`, `SyncSPC`, `SyncPPU` |
| 65816 CPU | `src/snes/cpu` | registers, remaining cycles, aborted cycles, the signals NMI, NMIEDGE, IRQ, DMA, WAI | `SNCPUExecute`, `SNCPUExecuteOne`, `SNCPUNMI`, `SNCPUIRQ`, `SNCPUSignal*` |
| Interrupt and I/O registers | `src/snes/core/snio.cpp`, `Read4000`/`Write4000` | NMITIMEN, RDNMI, TIMEUP, HTIME/VTIME, joypad shift registers, multiply/divide | register reads and writes, `LatchInput` |
| General DMA, HDMA | `src/snes/core/sndma.cpp` | eight channels (mode, source, count, table pointer, line counter), two enable masks | `ProcessMDMA`, `BeginHDMA`, `ProcessHDMA`, register access |
| Write queue | `src/snes/core/snqueue.h` | buffer, head, tail | `Enqueue`, `Dequeue`, `Reset` |
| PPU | `src/snes/ppu/snppu.cpp` | registers, OAM, VRAM, CGRAM, the next line to draw, a write queue | `EnqueueWrite`, `Sync`, `Write8`, `BeginFrame`, `EndFrame` |
| PPU renderer | `src/snes/ppu/snppurender*.cpp` and others | tile cache, line buffers | one line at a time |
| SPC700 | `src/snes/apu/snspc*.c` | registers, RAM, boot ROM overlay, cycles | `SNSPCExecute` |
| APU ports | `src/snes/apu/snspcio.cpp` | four registers in each direction, a write queue | `EnqueueWrite`, `SyncQueue`, `SyncQueueAll` |
| SPC timers | `src/snes/apu/snspctimer.cpp` | cycle stamp, divisor, counter | `Sync`, `SetEnable`, `Read` |
| DSP and mixer | `src/snes/apu/snspcdsp.cpp`, `snspcmix.cpp` | 128 registers, a write queue, eight voices with envelopes | `EnqueueWrite`, `Sync`, `Mix` |
| DSP-1 | `src/snes/core/sndsp1.cpp` | command, parameter and result buffers | `ReadData`, `WriteData` |
| Memory map, ROM, states | `snmemmap.cpp`, `snrom.cpp`, `snstate.cpp` | bank table, ROM header, snapshot | mapping, loading, save/restore |
| NES 6502 | `src/nes/cpu` | registers, interrupt latches, clocks | `K6502_Step`, `K6502_NMI`, the memory accesses of `K6502_rw.h` |
| NES core | `src/nes/core`, `src/nes/system` | scan line, `PPU_R0`..`R7`, address latch, sprites, pads, frame sequencer | `RunOneFrame`, `InfoNES_HSync`, `InfoNES_Reset` |
| NES mappers | `src/nes/mapper` | bank windows, registers in file statics, IRQ counters | `MapN_Init`, `MapN_Write`, `MapN_HSync`, `MapN_PPU` and the others |
| NES APU | `src/nes/apu` | event queue, channels | sample synthesis |
| Platform | `src/platform/ps2`, `src/modules` | display lists, pads, audio ring, memory card, network play | main loop, RPC services |
| Shell and base | `src/app`, `src/common` | movies, menus, files | |

`PROJECT.json` lists every part with its files and says which are modelled.

### 1.2 How the parts interact

Everything of the SNES runs in one thread, but the parts of the machine do not
run in step. `ExecuteFrame` is the only clock: it hands the CPU slices of a few
hundred cycles. The other processors lag behind and are brought up to date
when someone needs them:

```
 ExecuteFrame ── line ──> ExecuteLine ── part ──> ExecuteWithIRQ ── slice ──> ExecuteCPU
                                                                       |          |
          +------------- signals: DMA, NMIEDGE, IRQ, WAI <-------------+          |
          v                                                                       v
     ProcessMDMA ── direct writes ──> PPU memory                            instructions
                                        ^                                    |     |
     ProcessHDMA ── Write2000 ──> PPU queue <──────────── Write2000 ─────────+     |
                                        |  Sync(line): draw the lines so far       |
                                        v                                          v
                                    renderer              APU port queue <── Write2000 / Read2000
                                                              |  SyncSPC: grant cycles
                                                              v
                                                     SPC700 ── timers, DSP queue ──> mixer
```

* **CPU to PPU.** A register write is queued with its scan line. Lines are
  drawn only when somebody asks (`SyncPPU`): a read of PPU memory, the start of
  a DMA slice, a full queue, the last visible line, the end of the frame.
* **CPU to SPC.** A port write is queued with the CPU's cycle count. The SPC is
  run only in `SyncSPC`: on a port read, a full queue, the end of the frame. It
  takes from the queue what was written before its own time.
* **CPU to scheduler.** Writes to `$4200` and `$420B` and reads of `$4210` and
  `$4211` raise and clear signals in the CPU; a raised signal makes the
  interpreter return so that `ExecuteCPU` can answer it.
* **DMA.** Cut into slices like the CPU; between the slices NMI, IRQ and HDMA
  happen. DMA writes PPU memory directly, past the queue.

### 1.3 What is hard

* *Lagging processors.* Three queues with three kinds of stamps (lines, CPU
  cycles, SPC cycles), drained by different callers at different times. A
  result must not depend on when somebody happened to synchronise.
* *The end of a frame.* All counters restart, and what is left in queues,
  remaining cycles and stamps belongs to another epoch.
* *Limits.* A full queue takes another path than a queue with room.
* *Signals as copies.* The CPU's signals repeat what registers say and are
  updated in six places.
* *Suspension.* A DMA, a timer interrupt and an NMI may meet in any order at
  the end of a slice, and cycles overrun there are a debt for the next one.
* *Numbers.* 16-bit addresses and counts that wrap, a count of 0 that means
  65536, signed clocks compared with unsigned stamps.

* *Two copies of one fact.* The 65816 interpreter keeps flags in variables of
  their own during a slice and selects the opcode table by copies of M, X and
  E. The NES decodes pattern banks into a buffer that has to be renewed
  whenever a window moves. Mappers keep bank numbers in registers and windows.
* *What a reset leaves.* The NES mappers keep their registers in file statics,
  which only their own `Init` sets again.
* *Shared latches.* `$2005`, `$2006` and `$2002` share one toggle and one
  temporary address on the NES; the frame sequencer and the mapper share one
  interrupt request.

There is no crash, message loss or preemption inside the emulator proper, so
none is modelled; what comes nearest is a restored save state, after which parts
of the machine go on from the snapshot and the rest from where it was. What the platform layer shares with the I/O processor (pads,
audio, memory card) does have those and is left for later modules.

`PROJECT.json` ("hazards") lists these one by one at the line where they bite,
with the property that covers each, or the reason why none does yet.

### 1.4 What makes each part correct

| Part | Correctness |
|---|---|
| APU ports | no write lost, doubled or overtaken; a read of a port sees every earlier write; the SPC is never more than one instruction away from the CPU when a synchronisation returns |
| Scheduler | signals agree with registers; an NMI for each edge and no other; cycle debts do not add up; every frame ends; a suspended DMA resumes |
| DMA | every byte once, in order, from the right address, however the transfer is cut |
| HDMA | each line sends what the table says for that line |
| PPU | each line is drawn once, after exactly the writes made on earlier lines; reads and the end of the frame see all writes |
| SPC timers | a lazily updated timer shows what one ticked every cycle shows |
| Boot ROM | the RAM under the ROM is neither lost nor replaced by the ROM |
| DSP | writes reach the mixer in order and at their time |
| 65816 | every opcode of the regular groups, load, store, shift and transfer computes what its fields say in every mode; a slice may be cut, or interrupted, after any instruction without a trace |
| NES 6502 | each of the 151 documented opcodes computes what the manual says, and the others nothing; the port protocols leave the address the game set |
| NES frame | the frame interrupt is never late or early; no request of an NMI or IRQ is dropped or answered twice; the hit flag is set at its line |
| NES mappers | windows inside the ROM; the patterns drawn are those selected, as last stored; windows follow the registers; a reset leaves nothing behind |
| Save states | restoring gives a machine that goes on as the saved one would |

## 2. Modules and how they correspond to the code

| Module | Models | Extends |
|---|---|---|
| `SNQueue` | the linear write queue | |
| `SnesApu` | CPU, SPC and the four ports between them | `SNQueue` |
| `ApuMailbox` | what the ports promise: a first-in first-out mailbox | |
| `SnesApuProofs` | proofs about `SnesApu` and that it implements `ApuMailbox` | `SnesApu` |
| `SnesExec` | frame, line and slice loops, CPU signals | |
| `SnesExecProofs` | proofs about `SnesExec` | `SnesExec` |
| `SnesDma` | general DMA: chunks, suspension, address arithmetic | |
| `SnesDmaProofs` | proofs about `SnesDma` | `SnesDma`, `Arithmetic` |
| `SnesHdma` | one HDMA channel walking its table | |
| `SnesHdmaProofs` | proofs about `SnesHdma` | `SnesHdma`, `Arithmetic` |
| `Arithmetic` | lemmas about division, remainder and least numbers | |
| `SnesPpu` | PPU write queue, drawing of lines, direct path of DMA | `SNQueue` |
| `SnesPpuProofs` | proofs about `SnesPpu` | `SnesPpu`, `Arithmetic` |
| `SnesSpcIo` | timers, boot ROM, DSP writes, mixing loop and save states of the sound unit | `SNQueue` |
| `SpcTimer` | what a timer promises: it ticks in every cycle | |
| `SnesSpcIoProofs` | proofs about `SnesSpcIo` and that its timers implement `SpcTimer` | `SnesSpcIo`, `Arithmetic` |
| `SnesCpu` | the 65816: registers, flags, addressing, packing, interrupts | |
| `SnesOperands` | the opcodes that load, store, or compute with an operand | `SnesCpu` |
| `SnesOpcodes` | the others, and the table of the 256 | `SnesOperands` |
| `SnesProgram` | a program on the 65816 whose slices end anywhere | `SnesOpcodes` |
| `NesBoard` | a NES cartridge's windows, memories and the arrays mappers keep | |
| `NesMapper000` ... `NesMapper200` | the mappers, by number: 0-18, 19-49, 50-99, 100-191, 193-255 | each the one before, the first `NesBoard` |
| `NesMapper` | `MapperTable` and which board has which callbacks | `NesMapper200` |
| `NesCart` | a cartridge under any sequence of callbacks and resets | `NesMapper` |
| `NesBus` | `K6502_rw.h`: memory and ports as the 6502 sees them | `NesMapper` |
| `NesCpu` | the 6502 and its interrupts | `NesBus` |
| `NesProgram` | code fragments on the 6502 | `NesCpu` |
| `NesConsole` | `RunOneFrame`: CPU, picture lines, sound sequencer, mapper | `NesCpu` |
| `NesProofs` | proofs about `NesConsole` and `NesCart` | `NesConsole`, `NesCart`, `Arithmetic` |
| `MC*` | small values of the constants | the module of that name |

Common conventions: variables and actions have the names of the members and
functions they stand for where TLA+ allows it. `pc` says which function the
program is in; a function that calls another which loops or can be entered from
several places is split at the call, and an action stands for everything
between two such points. A definition whose name contains `Mutant` is a changed
form of the definition beside it, as a plausible bug would have it. None is
part of a specification: they are there to show that each property fails when
the code is wrong in that way (the pairs are listed in `PROJECT.json`).

**`SNQueue`.** A queue is a record of the read index and the elements still in
the buffer; the write index is their sum. `CanEnqueue` is the success of
`Enqueue`, `HasBefore` that of `Dequeue(cycle)` including its unsigned
comparison. Capacity is not reclaimed until the queue is found empty, as in the
code.

**`SnesApu`.** `cpuTime` and `spcCounter` are the frame counters of both
processors, `spcCycles` the cycles granted to the SPC and not used. The SPC's
time is `spcCounter - spcCycles`. `EnqueueWrite`, `WriteToFullQueue` followed
by `DirectWrite`, and `ReadPort` followed by `ReadReturn` are the port branches
of `Write2000` and `Read2000`. `SyncSPC` grants cycles; `SpcExec`,
`SpcClearPorts` and `SpcReadPort` are instructions of the SPC, which run while
their base cost is covered; `SyncQueue` and `SyncQueueAll` are one round of the
two drain loops. `EndFrame` and `BeginFrame` are the end of one `ExecuteFrame`
and the start of the next. Data are serial numbers, so that order and loss can
be seen. The variables `issued`, `applied`, `carried` and `burst` only observe.

**`SnesExec`.** `BeginLine`, `FireIRQ`, `BeginHblank` and `EndLine` are the
lines of `ExecuteFrame`, `ExecuteLine` and `ExecuteWithIRQ` between calls of
`ExecuteCPU`. `SliceDone`, `ProcessMDMA`, `AnswerNMI`, `EnterNMI`, `AnswerIRQ`
and `NoSignal` are the head of the loop of `ExecuteCPU`. Instructions are
grouped by what they do to signals: `WriteNmitimen`, `ReadRdnmi`,
`AccessTimeup`, `WriteMdmaen`, `Wai`, `SetI` (CLI, SEI, PLP, RTI) and
`Instruction` for all the others. Each may cost any number of cycles up to
`MaxCost`. The position of the timer interrupt is chosen anew on each line,
because the game may have rewritten HTIME and VTIME. WAI has two outcomes,
since the interpreter in C and the one in assembly spend the slice
differently.

**`SnesDma`.** A channel has `a1t` and `das` with their 16-bit wrap, direction
and address step. `WriteChunk` is one round of `ProcessMDMAChFast`, `ReadByte`
one of `ProcessMDMAChRead`. `Chunk` contains the rounding, the limits of the
buffer and of the bank in the order of the code. `HdmaOverwrites` is HDMA
storing its own pointer in the channel's `dasx`.

**`SnesHdma`.** `a2ax`, `ntlrx` and `dasx` are the registers, `table` is memory.
`ProcessHDMACh` handles one line. `Expected` is written from the meaning of a
table (for how many lines each entry holds, whether it repeats) and does not
use those registers.

**`SnesPpu`.** `scan` is the CPU's line, `uLine` the next line to draw.
`SyncEarlier`, `RenderLine`, `SyncRest` and `SyncReturn` are the two loops of
`Sync`, entered from `EnqueueFull` (no room), `Read2000`, `StartSlice` (a DMA)
and the two places in `NextLine` (`ExecuteFrame`). `DirectWrite` is the direct
path of `TransferData`. Of the registers there remain those that something
other than a queued write changes: the OAM address, its latch, forced blanking.

**`SnesSpcIo`, `SpcTimer`.** `pc` is "spc" while the SPC executes, "mix" during the
end of `ExecuteFrame`, "idle" between frames. Every action of an instruction
takes its cost from `cycles` (and, if it is a taken branch, two more than it
looked for); the register it accesses sees the clock before that, because the
interpreter subtracts at the end. `total`, `granted` and `cycles` give the two
clocks of `SNSPCGetCounter`: one runs on and wraps, the other restarts in every
frame below zero. `timers` are `m_Regs.spc_timer` with the operators of
`snspctimer.cpp`; `Shown` is what a timer would show if somebody asked now, and
with it each of them is an instance of `SpcTimer`, whose `Cycle` looks at the
clock in every cycle. `mem` and `shadow` are the RAM under the ROM as one cell,
`bRomEnable` the byte the switch compares. `queue`, `dsp` and `uCycle` are the
DSP's queue, the registers and voices the queued writes act on, and the time of
the mixing loop. `Save` and `Restore` go through the ROM switch as the code
does; `shot` remembers the whole machine at the save, for comparison. What a
game does is chosen at the start (`game`): timers, ROM and DSP share nothing but
the clock and the save state, so each is explored by games of its own.

**`SnesCpu`, `SnesOperands`, `SnesOpcodes`, `SnesProgram`.** The state of the processor is a
record. `P` holds the flags as packed, `live` those the interpreter keeps in
variables of their own during a slice (`fC`, `fN`, `fZ`, with V, I and D in P), `mod` is
`uOpcodeMod`, the index into the table of five opcode sets, `cyc` the cycles used.
An opcode is the composition the table names: an addressing operator, an
access, an operation on 8 or 16 bits. Width, wrap and the decimal correction are
those of the macros. `SnesProgram` runs pieces of code and, between any two,
lets the scheduler cut the slice (`SNCPU_PACKFLAGS` and `UNPACKFLAGS`) or enter
an NMI or IRQ whose handler is `REP #$30, RTI`. Peculiarities that the model has
because the code has them: unpacking clears the direct page in emulation mode;
XCE leaves the high bytes of X and Y; NMI leaves the I flag alone; a reset keeps
the data bank; COP takes its vector from `$FFE4` in all modes; STP is answered
as an unknown opcode; the program counter is not wrapped to its bank; an
emulation-mode interrupt pushes three bytes. `$7E0000` and `$0000`-`$1FFF` are memory; mirrors and
I/O ports are not there.

**`NesBoard`, `NesMapper*`.** A board is a record: `cpu` the four 8 KB windows
`ROMBANK0`-`3` (and `SRAMBANK`), `ppu` the windows `PPUBANK[0..11]` with the
name tables, `chr` the pattern pages last decoded by `InfoNES_SetupChr`, `update`
the windows `ChrBufUpdate` marks as written, `reg` the mapper's statics, `irq` the
request line. `stale` only observes: the windows whose page was stored to after
it was decoded for them. Window contents are pairs of a memory
and a page number, so that a pointer outside a memory is a page outside its
range. Each `MapN_*` operator is the function of that name; the page operators
reduce numbers the way the code does, or do not where it does not. The table
`MapperTable` is `MapperInit`, the seven function pointers are `MapperWrite`,
`MapperSram`, `MapperApu`, `MapperReadApu`, `MapperHSync`, `MapperPPU` and
`MapperRenderScreen`. `Map19_Init` stores one element beyond its register array, so
what follows that array in memory has two possible values in `PowerOn`.

**`NesCart`.** Any sequence of writes to the mapper, stores to pattern RAM,
pattern fetches, scan lines, frame tops, renderings and resets. A second board, switched on afresh and from the
first reset on given the same operations, serves the comparison in
`ResetForgets`; `serial` remembers the last five writes to an MMC1.

**`NesBus`, `NesCpu`, `NesProgram`.** `K6502_Read` and `K6502_Write` of the
console's record, page by page, with the PPU and pad ports, sprite DMA and the
mapper callbacks. `K6502_Step` answers a pending NMI, then an IRQ, and executes
instructions until the clocks are used up; the remainder carries over.
Undocumented opcodes are the one- to three-byte no-operations of the code. In
the model as in the code BRK and PHP leave the B flag set, and a pending IRQ is
looked at when `K6502_Step` is entered and when CLI clears I, but not when PLP or
RTI clears it.

**`NesConsole`.** One action per call of `K6502_Step` in `RunOneFrame`:
`RunLine`, or `RunToHit` and `RunFromHit` on the line of the sprite hit, then
`EndOfLine` (`InfoNES_pAPUHsync`'s sequencer, the mapper's callback,
`InfoNES_HSync`). `Reset` is `InfoNES_Reset` at the start of a frame. `nmis`, `irqs`,
`since`, `raised` and `hit` observe or hold locals. The loop counts 263 lines
(0-262), although `InfoNES_System_PS2.cpp` speaks of 262; the pad is replaced at
line 243 even while the game reads it; a sprite 0 without opaque dots leaves the
previous hit line. These are in the model. The loop of `K6502_Step` is `Turns`,
with as many turns as a line can have at two clocks an instruction (`MaxTurns`).

How the modules fit together: `SnesExec` lets a DMA move any number of bytes
that its contract permits (all that a slice pays for, plus a bounded overrun);
`SnesDma` shows that the transfer keeps this contract (`OverrunBounded`) and
needs from `SnesExec` only that slices keep coming (`FramesGoOn`). `SnesPpu`
needs from `SnesExec` that the scan line moves on. `SnesApu` and `SnesPpu` share
`SNQueue`.

## 3. Runs

Ten runs establish properties, two show a disagreement (section 6). The type
invariants of `SnesApu`, `SnesExec` and `SnesPpu` are proved (`TypeCorrect`,
section 5); the runs spend their time on what can go wrong.

**`apu_ports`** (`MCSnesApu.cfg`). Two ports, a queue of three, four writes, a
frame of five cycles repeated without bound, CPU steps of 1 and 3 cycles, SPC
instructions of 1 and 2 cycles and a branch penalty of 1. This is the least
that has: a queue that fills while its head has moved; a write with and without
room; an SPC that stops short of and beyond the CPU; writes carried over one
and several frame ends; a negative SPC clock. Shows:

* `PortOrder` and `ApuRefinesMailbox`: nothing lost, doubled or overtaken.
* `SpcLeadBounded`: the SPC is ahead by no more than a branch (that it is behind
  by less than an instruction after synchronising is proved: `CatchUpHolds`).
* `ReadsSeeEarlierWrites`, `VisibleOnTime`: each side sees what
  was written before, and not more than one instruction of the future.
* `EveryWriteArrives`: a port nobody reads is drained all the same.

**`exec_signals`** (`MCSnesExec.cfg`). One visible line and two of v-blank, five
cycles of active line and two of h-blank, instructions of up to 2 cycles,
interrupt entry of 1, HDMA of up to 3 (more than h-blank), DMA of 1 or 4 bytes,
the timer in the active part, in h-blank or off. Slices are shorter than two
instructions, so that every signal can be raised in the last instruction of any
slice. Shows `SignalsMatchRegisters`, `NmiAnswersAnEdge`, `LineStartsOnTime`
and the liveness properties `FramesGoOn` and `WaiWakes`.

**`dma_transfer`** (`MCSnesDma.cfg`). Two channels, banks of 16 bytes, a buffer
of 8, patterns of 4, slices of 1 and 9 cycles at 2 cycles a byte, counts of 6
and of 0 (which means 16), sources at the start and near the end of the bank.
So a transfer is cut by each of the three limits, wraps, and is suspended in
the first or second channel. Shows `TransferExact`, `OverrunBounded`,
`PatternInPhase` and `DmaCompletes`.

**`hdma_table`** (`MCSnesHdma.cfg`). All tables of five cells over the values
0, 1, 4, 5, 7 (with 4 as the repeat bit: end, one line, "128" lines without
repeat, one and three lines with repeat), direct and indirect, units of one and
two bytes, six lines a frame, HDMA switched on and off at any time. Shows
`FollowsTable`.

**`ppu_sync`** (`MCSnesPpu.cfg`). Two visible lines of four, a queue of two,
three writes, frames without bound. A queue of two fills in one line or across
lines; a third write forces the retry. Shows `PpuOrder`, `FrameComplete`,
`RegsCatchUp`, `LineSeesEarlierWrites`, `DirectOvertakesItsSlice` and
`EveryWritePerformed`.

**`spc_io`** (`MCSnesSpcIo.cfg`). One timer with periods of one and three cycles,
counters of 4 and 2 values, instructions of two and three cycles and a branch of
one more, frames of five cycles, clocks of 22 values. So a timer is passed over
several times between two looks, its counter wraps, an instruction begins in one
frame and ends in the next, and the clock wraps. The game that only uses timers
runs without bound; the others for two frames, and a game that saves makes two
accesses. The DSP's queue holds two writes, the mixer's chunks are three cycles,
one voice. Shows `TimersTick` (a refinement of `SpcTimer`), `RamUnderRom`,
`RestoreGoesOn` and `DspOnTime`. Two exceptions are in the properties: the RAM is
lost when the ROM is switched on twice, and writes wait for the frame's end
behind one stamped before the frame's clock reached zero (section 6). 193 000
states.

**`w65816`** (`MCSnesProgram.cfg`). Two programs. "any" executes each of the
256 opcodes in each of the five modes, on operands in zero page, in RAM and in
a page that the index carries into the next, with accumulators and flags that
carry, borrow, overflow and correct decimals; operands of decimal arithmetic
have decimal digits. "modes" executes sequences of three of: REP, SEP, XCE, PLP,
DEX, TCD, WAI, an immediate load and an immediate compare whose length depends
on the mode. After each piece the slice may be cut or an
interrupt entered. Shows `DecodesByFields` (all opcodes of the regular groups
and all loads, stores, shifts and transfers, against a reference that decodes
the fields of the opcode and knows no table), `SliceTransparent` and
`InterruptTransparent`. 64 000 states.

**`nes_cart`** (`MCNesCart.cfg`). Every number of `MapperTable` but 45 with 128
KB of program and 64 KB of patterns, board 68 with either mirroring in its
header, and sixteen boards once more with pattern RAM; all ports of the board
with bytes at both ends of their range, stores to pattern windows 0 and 5, scan
lines 20 and 250, two to six operations and a reset.
Six operations are what an MMC1 register, a counter with its reload, or a
command and a data port twice, need; boards with a single latch need two. Shows
`PagesExist`, `StoresDecoded`, `ResetForgets`, `BanksFollowRegisters`,
`PatternsFresh` and `SerialPort`. The exceptions are in the properties: board 15
adds to page numbers without reducing them, 255 never renews the patterns, ten
boards keep registers over a reset, and `Map68_Init` clears the mirroring register
of board 68 but leaves the name tables to the header (`HeaderMirrors`).
`PatternsFresh` speaks of steps other than a reset: on 18 boards the `Init` does
not place the pattern windows. `StoresDecoded` says that
no store to pattern RAM is missed when the characters are next decoded. It
excludes 13, 74, 85 and MMC1, which can show one page in two windows: the mark
is the window's, so the other window keeps the old characters (of the first three
the run finds it so without the exclusion; MMC1 needs more than ten writes for
it, and is not run with pattern RAM). On 74 and 77, whose pattern RAM comes with
ROM, the next decoding is the next bank switch; without ROM it is the next frame
(`FrameTop`). 34 and 119 reduce banks by the size of the ROM and are not run
without one. 139 000 states.

**`nes_program`** (`MCNesProgram.cfg`). "any" executes each of the 256 opcodes
with 48 combinations of registers and flags and eight operands, which cross pages
and wrap the zero page and the stack. "ports" executes sequences of four accesses
to `$2000`, `$2002`, `$2004`-`$2007`, `$4014` and a mapper port, with and without
pattern ROM. Shows `DecodesByFields`, against a reference that decodes fields where an
opcode has them, lists the other 32, and lets the undefined opcodes change PC and
clock alone, and `PointerAgrees`. Two things are the code's own in the reference:
BRK clears D, which the 6502 leaves, and the clocks of a branch to the first byte
of a page, where the code looks at the page of the byte before the target. 154 000
states.

**`nes_frame`** (`MCNesConsole.cfg`). A game with an NMI handler and an IRQ
handler, each longer than a line, runs for four frames with at most one reset on
boards 0 and 4. The player's buttons, chosen anew in every frame, make it
disable or restart the frame interrupt and ask for an NMI at the sprite hit. So
mapper and frame interrupts meet, an NMI falls into an IRQ handler, and
the sequencer is restarted at any phase to the frame. Shows `FrameIrqOnTime`,
`InterruptsServed` and `SpriteHitSeen`. 97 000 states.

Deadlock is looked for in the first five runs and does not occur. In the others
the histories end at the bounds (`MaxOps`, `MaxPieces`, `MaxFrames`), so it is
not looked for. For the same reason they state no liveness.

The violation runs `exec_dma` and `nes_vrom` each check one
statement of a comment or assertion, on instances of the same size.

## 4. Fairness

The emulator is one thread that never blocks, so weak fairness of the whole
next-state relation (`WF_vars(Next)`) says no more than that the program keeps
running. `SnesApu` and `SnesExec` need nothing else.

`SnesDma` and `SnesPpu` leave out the scheduler that drives them. `SnesDma`
assumes that slices keep coming and that each loop, once entered, continues:
weak fairness of `Slice`, of the channel loop and of the transfer loops.
`SnesPpu` assumes that the scan line moves again and again
(`SF_vars(NextLine)`, strong because the line does not move while a write
synchronises) and that a DMA slice ends. Both follow from `FramesGoOn` of
`SnesExec`: a frame comes to its end whatever instructions, DMA and interrupts
do. No fairness is asked of the game's program: it may write, read or do
neither.

## 5. Proofs

The theorems of the seven `*Proofs` modules hold for all values of the
constants that satisfy the assumptions named in the modules they extend.
`Arithmetic` has the lemmas on `%` they share, and `NatLeast`: a nonempty set of
numbers has a least element, which follows from the library's theorem that `<`
is well founded. With it an induction is an argument about a least
counterexample.

**APU ports.** Assumed: the SPC has a dearest instruction; every instruction
and CPU step takes at least a cycle; no more accesses share one CPU instant
than fit in the queue (`BurstAssumption`; an instruction makes at most two, a
DMA chunk at most 256, the queue holds 512). `PortOrder` is not inductive by
itself: the direct write after a full queue keeps the order only if `SyncSPC`
has emptied the queue, and `SyncSPC` returns early when the SPC has been
granted all cycles. `IInv` adds

* `ClockInv`: the grants never exceed the CPU's time, and outside the SPC's run
  what is left does not cover an instruction;
* `InstantInv`: if everything has been granted, what is queued was written at
  this very instant, so by `BurstAssumption` the queue is not full;
* `BypassInv`: at the direct write the queue is empty;
* `StampInv`: the stamps of this frame are sorted and follow those carried over
  from earlier frames.

`InitIInv` and `NextIInv` show it inductive, with one step per action. From it
follow `TypeCorrect`, `PortOrderHolds`, `CatchUpHolds`,
`SpcLeadBoundedHolds`, `ReadsSeeEarlierWritesHolds` and the
action property `VisibleOnTimeHolds`. `RefinesMailbox` shows that each step maps
to a step of `ApuMailbox` or to none, with the ports of the queued writes as the
mailbox's pending sequence.

**Scheduler.** Assumed: a whole line pays for the line delay and for HDMA
(`SlackAssumption`; 1364 cycles against 40 and at most a few hundred). `IInv`
adds to `SignalsMatchRegisters` that an edge is owed an answer wherever the NMI
may be entered (`NmiInv`), where a slice may end (`SliceInv`), and that the
cycles left plus those the rest of a split part will bring never fall below one
overrun (`BalanceInv`): a debt is taken from the next slice and not added to.
From it follow `TypeCorrect`, `SignalsMatch`, `NmiPerEdge` and `LinesOnTime`.

**PPU.** Assumed: there is a visible line, and at least one line after the one
vertical blank starts on (224 of 262). `IInv` adds to `PpuOrder`

* `QueueInv`: the numbers of waiting writes rise, their stamps do not fall, and
  all are of this frame;
* `WrittenInv`: what has been performed in this frame, outside vertical blank,
  was written before the line to be drawn next;
* `SyncedInv`: whoever asked for a `Sync` finds the PPU past the current line,
  and except for a running DMA with an empty queue;
* `LineInv`: the lines behind `uLine` are exactly those drawn, and the line
  after the last visible one is never left without `EndFrame`;
* `SliceInv`: during a DMA slice only writes of that slice wait.

From it follow `TypeCorrect`, `PpuOrderHolds`, `FrameCompleteHolds`,
`DirectOvertakesHolds` and `LineSeesHolds`. The last one uses that a line is
drawn only when the front of the queue is not earlier, and that the stamps are
sorted, so nothing behind the front is earlier either.

`RegsCatchUp` says that the registers become what the writes made so far call
for, once the queue is performed: an induction over the queue. `CaughtUpIs`
describes the recursive function of the statement by its course, and
`FoldExists`, `CaughtUpTrace` and `TraceUnique` show by least counterexamples
that it is that function; from it come the three facts a step needs: what a
write appended to the queue adds (`CaughtUpAppend`), that performing the front
changes nothing (`CaughtUpTail`), and what an empty queue leaves
(`CaughtUpEmpty`). With them `RegsInv` goes through each action; of `IInv` it
needs the types and, from `SyncedInv`, that nothing waits at a read of OAM and
at the end of a frame, which change the registers past the queue.

**General DMA.** Assumed (`SizeAssumption`, `InputAssumption`): the sizes are
positive, the buffer holds whole patterns, counts and addresses fit in the
registers, and a slice has at least a cycle. `TransferExact` says of `dasx` that
it is what is missing *in sixteen bits*, where 0 may mean everything or nothing.
`IInv` adds

* `Ledger`: for an enabled channel what `dasx` stands for (`Count`, with 0 as a
  whole bank) is what is missing, not only modulo the width;
* `Addresses`: the address has moved one step for every byte, modulo the width;
* `Serving`: inside a transfer loop the slice is not used up, and the loop is
  the one for the channel's direction.

`ChunkFacts` says all that is needed of a chunk: it is not empty, not more than
is left, paid for but for less than a pattern, and whole patterns unless it ends
the channel or the bank. `TransferKeeps` shows that any such number of bytes
keeps the invariant, and serves the write loop and the read loop alike. From it follow
`TypeCorrect`, `ServedLowestFirst`, `OverrunIsBounded`, `TransfersAreExact` and
`PatternsStayInPhase`.

**HDMA.** Assumed (`HdmaAssumption`): a counter byte has a high bit above its
low bits, a unit is not empty. `Expected` gives the meaning of a line by the
entries of the table, which the recursive function `Entry` lists. That its
recursive definition defines a function at all is `EntryDefined`, shown by a
least counterexample; `EntriesInOrder` and `OneHolds` show that at most one
entry holds for a line. `Walk` says where the registers stand: `Between` two
entries, with `a2ax` at the next one, or `Inside` the k-th, with `ntlrx` down by
the lines done (`CountDown`: its low bits become 0 exactly when the entry is used
up, and its high bit is the repeat bit until then) and `dasx` up by the units
sent. `IInv` is `TypeOK`, `Walk` and `FollowsTable`; from it follow `TypeCorrect`
and `HdmaFollowsTable`.

**Sound unit.** Assumed (`ClockAssumption`, `TimerAssumption`): the cycles of a
frame, an instruction and a taken branch together are less than half a turn of
the clock (some 350 000 of 2^31), instructions and steps of a timer take at
least a cycle, and the values of `uUpCounter` are a multiple of those a read
returns. The difference of two clocks is exact only for short spans, so
`IInv` bounds how far a timer may be behind: by no more than the cycles used in
this frame (`Runs`), and between frames not at all (`Rests`), which also holds
of the save state. That is why `ExecuteFrame` synchronises the timers at its
end. `Later` is the recursive function of `SpcTimer` in closed form
(`PassingIs`, by a least counterexample); `LaterAdd` says that cycles may be
counted in any portions, `SyncIs` that `SNSpcTimerSync` counts all of a timer's
age, `Untouched` and `Touched` what a timer shows after an instruction that did
not, or did, bring it up to date. From it follow `TypeCorrect` and
`TimersTickHolds`, where each step is a step of every timer or none.
`RInv` adds that the memory under an active ROM is the ROM and that the save
state and `shot` agree; from it follow `RamUnderRomHolds` and
`RestoreGoesOnHolds`. `QInv` adds that the stamps in the DSP's queue do not fall
once the frame's clock has reached 0 and that none is later than this clock;
from it follows `DspOnTimeHolds`.

TLC checked the invariants of DMA, HDMA and the sound unit on the instances of
the runs `dma_transfer`, `hdma_table` and `spc_io`.

**NES console.** No assumption on the constants: any game, any program.
`FrameIrqOnTime` compares the sequencer of the frame interrupt with the lines
since it was started. `Sequencer` picks its two fields out of a console. The
lemmas from `MacrosKeep` to `InstructionKeeps` show operator by operator, from
the register macros to the 256 opcodes, that the 6502 leaves it alone or starts
it again by a write to `$4017` (`Rewound`); `SliceKeeps` carries this over the
turns of a slice, whose first turn to break it would be an instruction that
does. `HSyncKeeps` shows the same of the end of a line, so that `FrameStep` alone
moves the sequencer on. `SeqInv` is inductive: the sequencer stands at 29828
for every line, modulo the period of the frame. `LineOnTime` is the arithmetic
of one line, in which a period ends or does not.

**NES cartridge.** Any bytes and addresses, any size and contents of the ROMs;
`PatternsFresh` needs no assumption on the constants. It says that a handler
which moves a window of patterns renews their decoded characters. The `View` of
a board is one value if the characters are those of the selected pages, and
otherwise the selected pages with the characters that were decoded. A handler
keeps the view or ends with the characters drawn (`Keeps`); either way it cannot
have moved a window unnoticed (`KeepsFresh`). `PrimitivesView` says what each
page operator of `NesBoard` does to the view: `InfoNES_SetupChr` draws, those
that move program windows, mirroring or the request line keep it. On these rest a
lemma for each handler and helper of the boards, and for each callback a lemma
with one step per number in the table (`MapperWriteKeeps`, `MapperPPUKeeps` and
so on). Board 255, which never renews the characters, is the exception
(`Map255Board`). The invariant, `CartInv`, is only that the board is a board.

`BanksFollowRegisters` says that calling the `Set_CPU_Banks` and `Set_PPU_Banks`
of a board once more would move nothing: no handler forgot a window. Assumed is
that a header counts its banks and that a bus carries numbers
(`BoardsAssumption`, `WritesAssumption`). For the 19 boards that have such
functions (`Followers`) the invariant, `BoardFollows`, gives the windows as
functions of the registers: `CpuPages`, `PatternPages`, and the name tables of
boards 51 and 68 (`NamePages`). It also has to say that the select register of an
MMC3 is a number (`Selects`), for the data port looks at `reg[0] % 8` to choose
both the register it writes and the windows it moves. A handler writes a
register and moves some windows; that those are enough is the lemma that the
register is none the others show (`CpuPagesKept`, `PatternPagesKept`: `CpuBank`
and `PpuBank` list the registers a window may show). On it rest a lemma for each
board (`Map44Write`, `CloneWrites`, `Map109Apu`, `Map1Steps` and so on), and a
lemma for each callback of the table (`WriteFollows`, `HSyncFollows`). A reset
needs none of this: `InfoNES_SetupPPU` and the `Init` place all windows whatever
the registers were (`ResetFollows`). The proof found
the exception of board 68: `Map68_Init` clears its registers without calling
`Map68_SyncMirror`, so until its first write the name tables are the header's.

`SerialPort` looks back over five writes to MMC1; assumed is
`WritesAssumption`. The invariant, `SerialInv`, ties the shift register to the
history of writes: `Map1_Cnt` writes, the last ones, are in transit, all to the
region of the last write and none with the reset bit, and `Map1_Latch` is their
lowest bits, weighed (`Holds`). A write to another region empties the register
first (`EnterHolds`), a bit more weighs `2^Map1_Cnt` (`WeighedOneMore`), and
the fifth is moved to the register of the region (`RegisterTaken`). No other
handler comes near (`Apart`), and `Map1_Init` empties the port on every reset,
so that the history, which a reset does not end, is not mistaken for bits in
transit. There is no bound on the number of writes or resets.

**Only model-checked.**

* Liveness: the prover has no rules for fairness and `ENABLED`.
* `InterruptsServed` and `SpriteHitSeen` of `NesConsole`. The first is true of
  games whose handlers look at their interrupt, as the one of the run does, the
  second of games that leave sprite 0 alone during a frame; both conditions are
  about a program, which the run gives.
* `DecodesByFields` of both processors: 256 cases, each compared with a table
  that is part of the statement. The runs go through all of them, and what they
  leave open (other bytes) is arithmetic on single bits.
* `SliceTransparent` and `InterruptTransparent` of the 65816, whose module
  reaches the bitwise operators and recursive definitions that the prover
  cannot use.
* `PointerAgrees` of the 6502: about sequences of accesses that the run lists.
* `PagesExist` and `ResetForgets` of the cartridges. The first is not true of
  every size of ROM: many an `Init` shows the pages 0 to 3, and many a handler
  reduces the first of several pages (`Prg(b, 0, 4, (4 * x) % RomPages(b))`),
  which is right for the sizes a board was built with and that the run gives.
  The second speaks of what each of some 130 boards keeps in which register
  across a reset, so that every board would need an invariant of its own.

## 6. Where the code and its comments disagree

| Run | Statement | What happens |
|---|---|---|
| `exec_dma` | `snes.cpp:907`: no DMA is pending when the CPU runs | the instruction executed ahead of an NMI may start one |
| `nes_vrom` | `InfoNES.cpp:135`, `K6502_rw.h:333`: writes to VRAM can be disabled; the branch is for `$2000`-`$3eff` | with the write disabled, a write to a pattern address falls into the branch for name tables and lands in the ROM image |

Further statements of the source that do not hold are kept as definitions in
the modules. None of them is part of a run; added as an invariant or property
to the configuration of the component's run, each is refuted by TLC.

| Definition | Statement | What happens |
|---|---|---|
| `SnesApu!SpcNeverAhead` | `snspc_c.c:45`: the order of cycle subtraction prevents the SPC from executing ahead of the CPU | a taken branch costs two cycles more than were looked for |
| `SnesApu!DequeueOnlyEarlier` | `snqueue.h:58`: dequeue only what is earlier than the time given | the SPC's clock is negative for the first instructions of a frame; taken as unsigned it is later than every stamp |
| `SnesApu!SyncQueueComplete` | `snspcio.cpp:76`: dequeue all pending writes up to the cycle time | a write that escapes the last synchronisation of a frame has a stamp of that frame, and looks like one of the future in the next |
| `SnesExec!NmiNeedsEdge` | `sncpu.c:762`: NMIEDGE is cleared with the NMI signal | the NMI is entered even if that instruction cleared the signal |
| `SnesExec!IrqTakenAtOnce` | `snes.cpp:895`: an IRQ is attempted until its signal is cleared | nothing looks at a pending IRQ when CLI clears the I flag; it waits for the end of the slice |
| `SnesSpcIo!MixDequeuesDue` | `snspcmix.cpp:1362`: the write queue is dequeued up to the current cycle time | a write stamped before the frame's clock reached zero is later than any time as a `Uint32`, and the queue behind it waits for the end of the frame |
| `SnesSpcIo!ShadowIsRam` | `snspc.c:108`: RAM data is copied to the shadow memory | after a reset `bRomEnable` is 1; the first write to `$F1` with the bit 128 set differs from it, and copies the ROM |
| `SnesProgram!IndexHighZero` | `sncpu_c.c:679` (a check commented out): with the X bit the high bytes of the index registers are 0 | XCE to emulation mode and back selects 8-bit opcodes but clears the bytes only at the next unpacking |
| `SnesDma!ChunksAreWhole` | `sndma.cpp:466`: a chunk is a multiple of four bytes | the clamp to the end of the bank comes after the rounding |

## 7. What is not modelled, and the plan

Left out for good: pixel and sample arithmetic (both PPU renderers, both sound
units' mixers), disassemblers, fonts, files, vendored code, the menus; DSP-1
geometry; the assembly versions of the two SNES interpreters, which repeat the
C ones. These have no control state a model would tell more about than a test.

Of the modelled parts the following is left out: of the 65816 the I/O ports and
memory mirrors (`SnesExec` and `SnesApu` have the ports that matter for
control), of the SPC700 what its opcodes compute; of the NES mapper 45, whose
result depends on the layout of the image, `Map5_Sram`, `Map5_Write` and
`Map90_Apu`, which store data only, and the values `MapN_ReadApu` answers; frame
skipping (always 0), the NES's save states (empty), colours; of the DSP envelope
rates and samples.

Planned, in this order:

1. The SPC700's opcodes in the style of `SnesOpcodes`.
2. A theorem of `PagesExist` for ROMs large enough for the fixed banks of each
   board (with a smaller one the `Init` of many boards selects a page the image
   does not have).
3. The envelope automaton of the DSP's voices.
4. `SnesVram`: VRAM address, increment modes, the read latch; CGRAM and scroll
   registers written twice.
5. `SnesMemMap`: the bank table of LoROM and HiROM as functions from address to
   chip and offset, against a reference over all banks of a small machine.
6. Save states of the CPU and PPU, composed with the queues of `SnesApu` and
   `SnesPpu`: what a queue holds at a restore is neither saved nor cleared.
7. `Dsp1Protocol`, joypads and multitap; the event queue of the NES APU.
8. Platform: display lists and their FIFO against DMA completion, the pad
   buffers shared with the I/O processor, the audio ring, asynchronous saves,
   movies.

Each becomes a module with its type invariant, the safety properties of its
hazards, a run with instances as small as the ones above, and a refinement
where an abstract specification exists (5, 8).
