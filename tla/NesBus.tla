-------------------------------- MODULE NesBus --------------------------------
(***************************************************************************)
(* What the CPU of the NES reads and writes (K6502_rw.h): work RAM, the    *)
(* PPU's registers, the ports at $4000-$5FFF, cartridge RAM and, behind    *)
(* the board's windows, ROM.                                               *)
(*                                                                         *)
(* A console is a record.  Of the CPU: PC, SP, A, X, Y, F (the set of      *)
(* flags that are on), nmi (NMI_State differs from NMI_Wiring), clk        *)
(* (g_wPassedClocks).  Of the PPU: R0, R1, R2, R3, R7, the addresses addr  *)
(* and temp, latch (PPU_Latch_Flag), nt (PPU_NameTableBank - NAME_TABLE0), *)
(* line (PPU_Scanline), spr (SPRRAM), vwe (byVramWriteEnable).  Of the    *)
(* other ports: step and frameIrq (FrameStep, FrameIRQ_Enable), apuIrq     *)
(* (the frame-IRQ bit of $4015), strobe (APU_Reg[0x16]), pad and padBit    *)
(* (the two joypads, a set of buttons and the bit to be read next).  no is *)
(* the mapper's number, battery ROM_SRAM, board the board.  ram, spr and   *)
(* mem hold the bytes written so far, mem those of the pages behind the    *)
(* windows.                                                                *)
(*                                                                         *)
(* A read returns the console with the byte (or word) read in d and leaves *)
(* its address in ea.  Scroll values, the palette's colours and the sound  *)
(* registers are left out: nothing here depends on them.                   *)
(***************************************************************************)
EXTENDS NesMapper, TLC

CONSTANT Image(_, _)   \* the byte of a page at an offset before any write

-----------------------------------------------------------------------------
(* Memories. *)

Get(f, k) == IF k \in DOMAIN f THEN f[k] ELSE 0
Put(f, k, v) == (k :> v) @@ f
Xor(x, y) == x + y - 2 * And(x, y)
\* A word with v in the n bits from bit k up.
SetField(w, k, n, v) == w - 2^k * Field(w, k, n) + 2^k * v

Byte(s, page, off) ==
  IF <<page, off>> \in DOMAIN s.mem THEN s.mem[<<page, off>>] ELSE Image(page, off)
Store(s, page, off, v) == [s EXCEPT !.mem = Put(@, <<page, off>>, v)]
StorePpu(s, page, off, v) == [Store(s, page, off, v) EXCEPT !.board = Overwrite(@, page)]
SramPage(s) == IF s.battery THEN Sram ELSE s.board.sram
\* PPUBANK[12] to PPUBANK[15] never move.
PpuPage(s, w) == IF w < 12 THEN s.board.ppu[w] ELSE Ram(w)

Increment(s) == [s EXCEPT !.addr = (@ + (IF On(s.R0, 2) THEN 32 ELSE 1)) % 65536]

-----------------------------------------------------------------------------
(* K6502_Read. *)

\* Mutant: $2002 leaves the latch alone.
ReadPpu_Latched(s, r) ==
  IF r = 7 THEN [Increment(s) EXCEPT !.d = s.R7] ELSE [s EXCEPT !.d = s.R2]
ReadPpu(s, r) ==
  LET a == s.addr % \h4000
  IN  CASE r = 7 -> [Increment(s) EXCEPT !.d = s.R7, !.R7 = Byte(s, PpuPage(s, a \div 1024), a % 1024)]
        [] r = 4 -> [s EXCEPT !.d = Get(s.spr, s.R3), !.R3 = (@ + 1) % 256]
        [] r = 2 -> LET q == [s EXCEPT !.d = s.R2, !.latch = 0]
                    IN  IF s.line >= 243 /\ ~On(s.R0, 7)
                          THEN [q EXCEPT !.R0 = Hi(@, 4), !.nt = 0] ELSE q
        [] OTHER -> [s EXCEPT !.d = s.R7]

\* $4016 and $4017: the next button of joypad i.
ReadPad(s, i) ==
  [s EXCEPT !.d = 64 + (IF s.padBit[i] \in s.pad[i] THEN 1 ELSE 0),
            !.padBit[i] = IF @ = 23 THEN 0 ELSE @ + 1]

\* The channels of $4015 are silent here.  Boards answer with the high byte
\* of the address, as Map0_ReadApu does.
ReadSound(s, a) ==
  CASE a = \h4014 -> [s EXCEPT !.d = \h14]
    [] a = \h4015 -> [s EXCEPT !.d = IF s.apuIrq THEN 64 ELSE 0, !.apuIrq = FALSE]
    [] a = \h4016 -> ReadPad(s, 1)
    [] a = \h4017 -> ReadPad(s, 2)
    [] OTHER -> [s EXCEPT !.d = a \div 256, !.board = MapperReadApu(s.no, @, a)]

K6502_Read(s, a) ==
  CASE a < \h2000 -> [s EXCEPT !.d = Get(s.ram, a % \h800)]
    [] a \in \h2000..\h3FFF -> ReadPpu(s, a % 8)
    [] a \in \h4000..\h5FFF -> ReadSound(s, a)
    [] a \in \h6000..\h7FFF -> [s EXCEPT !.d = Byte(s, SramPage(s), a % \h2000)]
    [] OTHER -> [s EXCEPT !.d = Byte(s, s.board.cpu[(a - \h8000) \div \h2000], a % \h2000)]

K6502_ReadZp(s, a) == [s EXCEPT !.d = Get(s.ram, a)]

\* Two reads, low byte first, as a word.
Word(l, h) == [h EXCEPT !.d = l.d + 256 * h.d]
ReadPair(s, low, high) == LET l == K6502_Read(s, low) IN Word(l, K6502_Read(l, high))
K6502_ReadW(s, a) == ReadPair(s, a, (a + 1) % 65536)
K6502_ReadZpW(s, a) == LET l == K6502_ReadZp(s, a) IN Word(l, K6502_ReadZp(l, (a + 1) % 256))
\* The indirect jump does not leave the page.
K6502_ReadW2(s, a) == ReadPair(s, a, IF a % 256 = 255 THEN a - 255 ELSE (a + 1) % 65536)

-----------------------------------------------------------------------------
(* K6502_Write. *)

\* $2007.  A page of pattern data is written where the cartridge's are
\* writable, and marked to be decoded again; other addresses below $3F00 are
\* written with their mirror and not marked.
WriteVram(s, d) ==
  LET a == s.addr % \h4000
      w == a \div 1024
      q == Increment(s)
      palette == IF a % 16 = 0 THEN {\h300 + 4 * k : k \in 0..7} ELSE IF a % 4 # 0 THEN {a % 1024} ELSE {}
  IN  IF a < \h2000 /\ s.vwe
        THEN [Store(q, PpuPage(s, w), a % 1024, d) EXCEPT !.board = StorePattern(@, w)]
      ELSE IF a < \h3F00
        THEN StorePpu(StorePpu(q, PpuPage(s, w), a % 1024, d), PpuPage(s, Xor(w, 4)), a % 1024, d)
      ELSE [q EXCEPT !.mem = [k \in {<<Ram(15), o>> : o \in palette} |-> d] @@ @]

WritePpu(s, r, d) ==
  LET flip == [s EXCEPT !.latch = 1 - @]
      temp(k, n, v) == [flip EXCEPT !.temp = SetField(@, k, n, v)]
  IN  CASE r = 0 -> [s EXCEPT !.R0 = d, !.nt = d % 4, !.temp = SetField(@, 10, 2, d % 4)]
        [] r = 1 -> [s EXCEPT !.R1 = d]
        [] r = 3 -> [s EXCEPT !.R3 = d]
        [] r = 4 -> [s EXCEPT !.spr = Put(@, s.R3, d), !.R3 = (@ + 1) % 256]
        [] r = 5 /\ s.latch = 0 -> temp(0, 5, d \div 8)
        [] r = 5 /\ s.latch = 1 ->
             [temp(5, 5, d \div 8) EXCEPT !.temp = SetField(@, 12, 3, d % 8),
                                          !.nt = IF d > 239 THEN Xor(@, 2) ELSE @]
        [] r = 6 /\ s.latch = 0 -> [flip EXCEPT !.temp = (@ % 256) + 256 * (d % 64)]
        [] r = 6 /\ s.latch = 1 ->
             LET t == Hi(s.temp, 256) + d
             IN  [flip EXCEPT !.temp = t, !.addr = t, !.nt = IF On(s.R2, 7) THEN @ ELSE Field(t, 10, 2)]
        [] r = 7 -> WriteVram(s, d)
        [] OTHER -> s

\* Sprite DMA copies 256 bytes of RAM, SRAM or a ROM window; the PPU's
\* and the sound area leave sprite RAM alone.
SpriteDma(s, d) ==
  LET off == (256 * d) % \h2000
      page(m) == [i \in 0..255 |-> Byte(s, m, off + i)]
      ram == [i \in 0..255 |-> Get(s.ram, ((256 * d) % \h800) + i)]
  IN  CASE d < 32 -> [s EXCEPT !.spr = ram]
        [] d \in 96..127 -> [s EXCEPT !.spr = page(Sram)]
        [] d >= 128 -> [s EXCEPT !.spr = page(s.board.cpu[(d - 128) \div 32])]
        [] OTHER -> s

ToBoard(s, a, d) == [s EXCEPT !.board = MapperApu(s.no, @, a, d)]

\* $4000-$5FFF: the port is taken from the low five bits of the address.
\* The strobe rewinds both joypads; it is itself set only at $4016.
Strobe(s, d) == IF ~On(s.strobe, 0) /\ On(d, 0) THEN [s EXCEPT !.padBit = <<0, 0>>] ELSE s
WritePort(s, r, d) ==
  CASE r = \h14 -> SpriteDma(s, d)
    [] r = \h16 -> Strobe(s, d)
    [] r = \h17 -> [s EXCEPT !.step = 0, !.frameIrq = d < 64]
    [] OTHER -> s
AfterPort(s, a, d) ==
  CASE a > \h4017 -> ToBoard(s, a, d)
    [] a = \h4016 -> [s EXCEPT !.strobe = d]
    [] OTHER -> s
WriteSound(s, a, d) ==
  LET r == a % 32
  IN  AfterPort(WritePort(IF r = \h16 THEN ToBoard(s, a, d) ELSE s, r, d), a, d)

WriteRam(s, a, d) == [s EXCEPT !.ram = Put(@, a % \h800, d)]

K6502_Write(s, a, d) ==
  CASE a < \h2000 -> WriteRam(s, a, d)
    [] a \in \h2000..\h3FFF -> WritePpu(s, a % 8, d)
    [] a \in \h4000..\h5FFF -> WriteSound(s, a, d)
    [] a \in \h6000..\h7FFF ->
         LET q == Store(s, Sram, a % \h2000, d)
         IN  IF s.battery THEN q ELSE [q EXCEPT !.board = MapperSram(s.no, @, a, d)]
    [] OTHER -> [s EXCEPT !.board = MapperWrite(s.no, @, a, d, s.line)]
=============================================================================
