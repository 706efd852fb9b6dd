-------------------------------- MODULE NesCart --------------------------------
(***************************************************************************)
(* A cartridge in the console, whatever the game does to it: any sequence  *)
(* of writes, pattern fetches, scanlines and resets.  InfoNES_Reset runs   *)
(* once for every cartridge and again whenever the player resets; it does  *)
(* not clear the statics of the mapper's file, only the mapper's own Init  *)
(* does.                                                                   *)
(***************************************************************************)
EXTENDS NesMapper

CONSTANTS
  Boards,       \* the cartridges: [no, rom, vrom, hmir, four]
  Writes(_, _), \* the <<address, byte>> written to a mapper's area of the bus
  Stored,       \* the pattern windows stored to
  Fetches,      \* the pattern addresses fetched
  Lines,        \* the scanlines callbacks come from
  MaxOps(_),    \* bound: operations on a cartridge
  MaxCartResets \* bound: resets of a cartridge

\* A header counts its banks; a bus carries addresses and bytes.
ASSUME BoardsAssumption == \A c \in Boards : c.vrom \in Nat
ASSUME WritesAssumption ==
  \A c \in Boards, area \in {"rom", "sram", "apu"} :
    \A w \in Writes(c.no, area) : w[1] \in Nat /\ w[2] \in Nat

VARIABLES
  cart,         \* the cartridge
  board,        \* its board
  fresh,        \* a second console: switched on, and from the first reset of
                \* the cartridge on given the same operations
  serial,       \* MMC1: the last five <<region, byte>> written to it
  ops,          \* operations so far
  cartResets    \* resets so far

cartVars == <<cart, board, fresh, serial, ops, cartResets>>

-----------------------------------------------------------------------------
CartInit ==
  /\ cart \in Boards
  /\ \E overrun \in {0, 1} : fresh = PowerOn(cart, overrun)
  /\ board = fresh
  /\ serial = <<>>
  /\ ops = 0
  /\ cartResets = 0

Step(Handler(_)) ==
  /\ ops < MaxOps(cart.no)
  /\ board' = Handler(board)
  /\ fresh' = IF cartResets > 0 THEN Handler(fresh) ELSE fresh
  /\ ops' = ops + 1
  /\ UNCHANGED <<cart, cartResets>>

LastFive(s) == IF Len(s) > 5 THEN Tail(s) ELSE s

\* A write of the CPU to ROM, to SRAM, and to the expansion area.
Write == \E w \in Writes(cart.no, "rom"), line \in Lines :
  /\ Step(LAMBDA b : MapperWrite(cart.no, b, w[1], w[2], line))
  /\ serial' = IF cart.no = 1
                 THEN LastFive(Append(serial, <<(w[1] \div 8192) % 4, w[2]>>)) ELSE serial
WriteSram == \E w \in Writes(cart.no, "sram") :
  Step(LAMBDA b : MapperSram(cart.no, b, w[1], w[2])) /\ UNCHANGED serial
WriteApu == \E w \in Writes(cart.no, "apu") :
  Step(LAMBDA b : MapperApu(cart.no, b, w[1], w[2])) /\ UNCHANGED serial
ReadApu == \E w \in Writes(cart.no, "apu") :
  Step(LAMBDA b : MapperReadApu(cart.no, b, w[1])) /\ UNCHANGED serial

\* A store of the CPU to pattern memory, through $2007 (WriteVram).
StoreVram == VramWriteEnable(cart.no, cart.vrom) /\ \E w \in Stored :
  Step(LAMBDA b : StorePattern(b, w)) /\ UNCHANGED serial

\* The top of a frame of a cartridge without pattern ROM (InfoNES_HSync).
FrameTop == cart.vrom = 0 /\ Step(InfoNES_SetupChr) /\ UNCHANGED serial

\* The renderer.
Fetch == \E a \in Fetches :
  Step(LAMBDA b : MapperPPU(cart.no, b, a)) /\ UNCHANGED serial
Render == \E mode \in {0, 1} :
  Step(LAMBDA b : MapperRenderScreen(cart.no, b, mode)) /\ UNCHANGED serial

\* The end of a scanline.
HSync == \E line \in Lines, show \in BOOLEAN :
  Step(LAMBDA b : MapperHSync(cart.no, b, line, show)) /\ UNCHANGED serial

\* The CPU takes the interrupt.
TakeIrq == board.irq /\ Step(LAMBDA b : [b EXCEPT !.irq = FALSE]) /\ UNCHANGED serial

\* The store beyond Map19_Regs leaves the same in both consoles.
CartReset ==
  /\ cartResets < MaxCartResets
  /\ \E overrun \in {0, 1} : /\ board' = InfoNES_Reset(cart.no, board, overrun)
                             /\ fresh' = PowerOn(cart, overrun)
  /\ cartResets' = cartResets + 1
  /\ UNCHANGED <<cart, serial, ops>>

CartNext ==
  \/ Write \/ WriteSram \/ WriteApu \/ ReadApu
  \/ StoreVram \/ FrameTop \/ Fetch \/ Render \/ HSync \/ TakeIrq
  \/ CartReset

CartSpec == CartInit /\ [][CartNext]_cartVars

-----------------------------------------------------------------------------
(* Properties. *)

Windows(b) == <<b.cpu, b.ppu, b.sram>>
Patterns(b) == [w \in 0..7 |-> b.ppu[w]]

\* Every window shows a page the cartridge has, whatever bytes the game
\* wrote: the handlers reduce bank numbers by the sizes in the header.
PagesExist == cart.no # 15 =>
  /\ \A w \in 0..3 : board.cpu[w][1] = "ROM" => board.cpu[w][2] \in 0..(RomPages(board) - 1)
  /\ \A w \in 0..11 : board.ppu[w][1] = "VROM" => board.ppu[w][2] \in 0..(ChrPages(board) - 1)

\* A handler that moves a pattern window also decodes its characters again
\* (InfoNES_SetupChr), and the others with it: the next scanline does not
\* draw the old bank.  Map255 never does.
PatternsFresh ==
  [][cartResets' = cartResets /\ Patterns(board') # Patterns(board) /\ cart.no # 255
       => board'.chr = Patterns(board')]_cartVars

\* What a game stores in pattern memory is decoded the next time anything is:
\* a window whose copy misses a store is one of those ChrBufUpdate marks,
\* whatever banks were switched, marks cleared or resets made in between.  A
\* mark is of a window, not of a page: on the boards listed, which can show a
\* page of pattern RAM in two windows, a store through one of them remains
\* undecoded for the other.
Shares == {1, 13, 74, 85}
StoresDecoded == cart.no \notin Shares => board.stale \subseteq board.update

\* After a reset a cartridge shows the same pages as one just switched on,
\* and so it remains while the game does the same to both: what MapN_Init does
\* not set, no handler uses.  The Init of the boards listed does leave
\* registers of the last play in force, and that of 230 counts resets.
Remembers == {5, 41, 69, 76, 82, 88, 90, 134, 189, 230}
ResetForgets == cartResets > 0 /\ cart.no \notin Remembers => Windows(board) = Windows(fresh)

\* The windows of the boards that compute them from their registers, computed
\* once more.
SetBanks(no, b) ==
  CASE no = 1 -> Map1_set_ROM_banks(b)
    [] no = 4 -> Map4_Set_CPU_Banks(Map4_Set_PPU_Banks(b))
    [] no = 44 -> Map44_Set_CPU_Banks(Map44_Set_PPU_Banks(b))
    [] no = 46 -> Map46_Set_ROM_Banks(b)
    [] no = 47 -> Map47_Set_CPU_Banks(Map47_Set_PPU_Banks(b))
    [] no = 51 -> Map51_Set_CPU_Banks(b)
    [] no = 68 -> Map68_SyncMirror(b)
    [] no = 74 -> Map74_Set_CPU_Banks(Map74_Set_PPU_Banks(b))
    [] no = 95 -> Map95_Set_CPU_Banks(Map95_Set_PPU_Banks(b))
    [] no = 96 -> Map96_Set_Banks(b)
    [] no = 109 -> Map109_Set_PPU_Banks(b)
    [] no = 112 -> Map112_Set_CPU_Banks(Map112_Set_PPU_Banks(b))
    [] no = 114 -> Map114_Set_CPU_Banks(Map114_Set_PPU_Banks(b))
    [] no = 115 -> Map115_Set_CPU_Banks(Map115_Set_PPU_Banks(b))
    [] no = 116 -> Map116_Set_CPU_Banks(Map116_Set_PPU_Banks(b))
    [] no = 118 -> Map118_Set_CPU_Banks(Map118_Set_PPU_Banks(b))
    [] no = 119 -> Map119_Set_CPU_Banks(Map119_Set_PPU_Banks(b))
    [] no = 135 -> Map135_Set_PPU_Banks(b)
    [] no = 191 -> Map191_Set_CPU_Banks(Map191_Set_PPU_Banks(b))
    [] OTHER -> b

\* On these boards every write that changes a bank register also moves the
\* windows it governs, and nothing else moves them: the windows are always the
\* ones the registers call for.  Map68_Init clears the registers and leaves the
\* name tables to the header, whose mirroring may be another.
HeaderMirrors(b) ==
  cart.no = 68 /\ b.reg[0] = 0 /\ b.reg[1] = 0 /\ b.ppu = InfoNES_Mirroring(b, b.hmir).ppu
BanksFollowRegisters ==
  LET b == SetBanks(cart.no, board)
  IN  b.cpu = board.cpu /\ (b.ppu = board.ppu \/ HeaderMirrors(board))

\* MMC1 takes a register's five bits one per write (Map1_Write).  A register
\* changes only with the fifth of five writes to its own region, none of which
\* had bit 7 set, and receives their bits in order, lowest first.
SerialPort ==
  [][\A r \in 0..3 : cart.no = 1 /\ cartResets' = cartResets /\ board'.reg[r] # board.reg[r] =>
       /\ Len(serial') = 5
       /\ \A i \in 1..5 : serial'[i][1] = r /\ ~On(serial'[i][2], 7)
       /\ board'.reg[r] = Bit(serial'[1][2], 0) + 2 * Bit(serial'[2][2], 0)
                           + 4 * Bit(serial'[3][2], 0) + 8 * Bit(serial'[4][2], 0)
                           + 16 * Bit(serial'[5][2], 0)]_cartVars
=============================================================================
