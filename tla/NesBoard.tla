------------------------------ MODULE NesBoard ------------------------------
(***************************************************************************)
(* The cartridge board of the NES emulator: the state every mapper of      *)
(* nes/mapper/mapper shares, and the primitives its handlers are built     *)
(* from.  The CPU sees ROM through four windows of 8 KB (ROMBANK0-3) and   *)
(* one of cartridge RAM (SRAMBANK); the PPU sees eight windows of pattern  *)
(* data of 1 KB and four name tables (PPUBANK[0..11]).  A window holds the *)
(* page it points at: a memory and a page number.  ChrBuf is the decoded   *)
(* copy of the eight pattern windows that the renderer draws from;         *)
(* InfoNES_SetupChr brings it up to date, window by window: those that     *)
(* moved, and those ChrBufUpdate marks as written.                         *)
(*                                                                         *)
(* A board is a record: the sizes and wiring read from the header (rom in  *)
(* 16 KB, vrom in 8 KB units, hmir and four), the windows (cpu, sram,      *)
(* ppu), the pages decoded (chr, pbyPrevBank), the windows marked (update, *)
(* ChrBufUpdate), and the statics of the mapper's file: reg (the MapN_Regs *)
(* array and other small registers), bank (the selected banks, MapN_Prg0,  *)
(* MapN_Chr01 ...), and the IRQ unit (enable, cnt, latch, req, present,    *)
(* vbl).  irq is the request the handler raised at the CPU (IRQ_REQ).      *)
(* Contents of the memories are not modelled; instead stale, which only    *)
(* observes, holds the windows whose page was written since it was         *)
(* decoded for them.                                                       *)
(***************************************************************************)
EXTENDS Integers, Sequences

-----------------------------------------------------------------------------
(* Bit fields of bytes and addresses. *)

\* n bits of d from bit k up: (d >> k) & ((1 << n) - 1).
Field(d, k, n) == (d \div 2^k) % 2^n
Bit(d, k) == Field(d, k, 1)
On(d, k) == Bit(d, k) = 1

\* x & ~(n - 1): the address or bank number without its low bits.
Hi(x, n) == x - (x % n)

\* x & y and x | y for numbers of nine bits.
And(x, y) == LET p(k) == Bit(x, k) * Bit(y, k) * 2^k
             IN  p(0) + p(1) + p(2) + p(3) + p(4) + p(5) + p(6) + p(7) + p(8)
Or(x, y) == x + y - And(x, y)

\* A byte whose low or high nibble is replaced, a word whose low or high
\* byte is replaced.
LowNibble(r, d) == Hi(r, 16) + (d % 16)
HighNibble(r, d) == (r % 16) + 16 * (d % 16)
LowByte(w, d) == (Hi(w, 256) % 65536) + d
HighByte(w, d) == (w % 256) + 256 * d

-----------------------------------------------------------------------------
(* Pages and windows. *)

Rom(n) == <<"ROM", n>>
VRom(n) == <<"VROM", n>>
Ram(n) == <<"PPURAM", n>>
CRam(n) == Ram(n % 32)
VRam(n) == Ram(8 + n)
ChrRam(n) == <<"CHRRAM", n>>
Wram(n) == <<"WRAM", n % 8>>
Sram == <<"SRAM", 0>>

RomPages(b) == 2 * b.rom
ChrPages(b) == 8 * b.vrom
Last(b, k) == RomPages(b) - 1 - k

\* From window i on the windows show pages[0], pages[1], ...
CpuWin(b, i, pages) ==
  [b EXCEPT !.cpu = [w \in 0..3 |-> IF w - i \in DOMAIN pages THEN pages[w - i] ELSE @[w]]]
PpuWin(b, i, pages) ==
  [b EXCEPT !.ppu = [w \in 0..11 |-> IF w - i \in DOMAIN pages THEN pages[w - i] ELSE @[w]]]

\* ROM pages p, p + 1, ... from window i on, as given and modulo the ROM.
Prg(b, i, n, p) == CpuWin(b, i, [k \in 0..(n - 1) |-> Rom(p + k)])
PrgMod(b, i, n, p) == CpuWin(b, i, [k \in 0..(n - 1) |-> Rom((p + k) % RomPages(b))])

Moved(b) == {w \in 0..7 : b.chr[w] # b.ppu[w]}
\* Mutant: the marks are cleared, but only windows that moved are decoded.
InfoNES_SetupChr_Moved(b) ==
  [b EXCEPT !.chr = [w \in 0..7 |-> b.ppu[w]], !.update = {}, !.stale = @ \ Moved(b)]
InfoNES_SetupChr(b) ==
  [b EXCEPT !.chr = [w \in 0..7 |-> b.ppu[w]], !.update = {}, !.stale = @ \ (Moved(b) \cup b.update)]

\* A byte of a page is written; through a pattern window, which is marked.
Overwrite(b, page) == [b EXCEPT !.stale = @ \cup {w \in 0..7 : b.chr[w] = page}]
StorePattern(b, w) == [Overwrite(b, b.ppu[w]) EXCEPT !.update = @ \cup {w}]

\* The same for pattern windows, followed by InfoNES_SetupChr.
Chr(b, i, n, p) == InfoNES_SetupChr(PpuWin(b, i, [k \in 0..(n - 1) |-> VRom(p + k)]))
ChrMod(b, i, n, p) ==
  InfoNES_SetupChr(PpuWin(b, i, [k \in 0..(n - 1) |-> VRom((p + k) % ChrPages(b))]))
ChrCRam(b, i, n, p) == InfoNES_SetupChr(PpuWin(b, i, [k \in 0..(n - 1) |-> CRam(p + k)]))

PPU_MirrorTable == << <<0, 0, 1, 1>>, <<0, 1, 0, 1>>, <<1, 1, 1, 1>>,
                      <<0, 0, 0, 0>>, <<0, 1, 2, 3>>, <<0, 0, 0, 1>> >>
InfoNES_Mirroring(b, type) ==
  PpuWin(b, 8, [k \in 0..3 |-> VRam(PPU_MirrorTable[type + 1][k + 1])])
\* Mirroring types named by the two low bits of d, in the order given.
MirrorBy(b, d, types) == InfoNES_Mirroring(b, types[(d % 4) + 1])
MirrorIf(b, c, yes, no) == InfoNES_Mirroring(b, IF c THEN yes ELSE no)

IRQ_REQ(b) == [b EXCEPT !.irq = TRUE]

-----------------------------------------------------------------------------
(* Blocks that open most MapN_Init functions. *)

\* "Set SRAM Banks", "Set ROM Banks".
Banks(b, p) == [b EXCEPT !.sram = Sram, !.cpu = [w \in 0..3 |-> Rom(p[w + 1])]]
FirstFour(b) == Banks(b, <<0, 1, 2, 3>>)
FirstAndLast(b) == Banks(b, <<0, 1, Last(b, 1), Last(b, 0)>>)
\* "Set PPU Banks": the first 8 KB of VROM where there is one.
FirstVRom(b) == IF b.vrom > 0 THEN Chr(b, 0, 8, 0) ELSE b
\* "Initialize IRQ Registers".
ClearIrq(b) == [b EXCEPT !.enable = 0, !.cnt = 0, !.latch = 0]

\* A board whose statics still hold the zeros of the program's image.
Blank(header, registers) ==
  [rom |-> header.rom, vrom |-> header.vrom, hmir |-> header.hmir, four |-> header.four,
   cpu |-> [w \in 0..3 |-> Rom(0)], sram |-> Sram, ppu |-> [w \in 0..11 |-> Ram(w)],
   chr |-> [w \in 0..7 |-> Ram(w)], update |-> {}, stale |-> {}, reg |-> [k \in registers |-> 0],
   bank |-> [k \in 0..11 |-> 0], enable |-> 0, cnt |-> 0, latch |-> 0, req |-> 0,
   present |-> 0, vbl |-> 0, irq |-> FALSE]

-----------------------------------------------------------------------------
(* Idioms that several boards' files repeat. *)

\* MMC3 and its clones: bank[0], bank[1] hold Chr01 and Chr23, bank[2..5]
\* hold Chr4 to Chr7, bank[6] and bank[7] Prg0 and Prg1; reg[0] selects.
Mmc3Defaults(b) ==
  [b EXCEPT !.bank = [k \in 0..11 |->
     CASE k = 7 -> 1 [] k < 6 /\ b.vrom > 0 -> <<0, 2, 4, 5, 6, 7>>[k + 1]
       [] k < 7 -> 0 [] OTHER -> b.bank[k]]]
Mmc3Data(b, d) ==
  LET k == b.reg[0] % 8
  IN  IF k < 6 /\ b.vrom = 0 THEN b
      ELSE [b EXCEPT !.bank[k] = IF k < 2 THEN Hi(d, 2) ELSE d]
Mmc3ChrPage(b, w) ==
  LET v == IF On(b.reg[0], 7) THEN (w + 4) % 8 ELSE w
  IN  IF v < 4 THEN b.bank[v \div 2] + (v % 2) ELSE b.bank[v - 2]
Mmc3PrgPage(b, w, fixed) ==
  CASE w = 3 -> fixed + 1
    [] w = 1 -> b.bank[7]
    [] w = (IF On(b.reg[0], 6) THEN 2 ELSE 0) -> b.bank[6]
    [] OTHER -> fixed

Mmc3Prg(b) == CpuWin(b, 0, [w \in 0..3 |-> Rom(Mmc3PrgPage(b, w, Last(b, 1)) % RomPages(b))])
Mmc3Chr(b) ==
  IF b.vrom = 0 THEN b
  ELSE InfoNES_SetupChr(PpuWin(b, 0, [w \in 0..7 |-> VRom(Mmc3ChrPage(b, w) % ChrPages(b))]))
Mmc3Init(b) == ClearIrq(Mmc3Chr(Mmc3Prg(Mmc3Defaults([b EXCEPT !.sram = Sram, !.reg[0] = 0]))))

\* The register a write selects, and what the bank registers do.
Mmc3Port(a) == Hi(a, \h2000) + (a % 2)
Mmc3Select(b, d) == Mmc3Prg(Mmc3Chr([b EXCEPT !.reg[0] = d]))
Mmc3Bank(b, d) == IF b.reg[0] % 8 > 5 THEN Mmc3Prg(Mmc3Data(b, d)) ELSE Mmc3Chr(Mmc3Data(b, d))
Mmc3Mirror(b, d) == IF b.four THEN b ELSE MirrorIf(b, On(d, 0), 0, 1)

\* The clones' counter: $C000 loads it, $C001 its latch, $E000 and $E001
\* disable and enable it.
CloneIrq(b, port, d) ==
  CASE port = \hC000 -> [b EXCEPT !.cnt = d]
    [] port = \hC001 -> [b EXCEPT !.latch = d]
    [] port = \hE000 -> [b EXCEPT !.enable = 0]
    [] port = \hE001 -> [b EXCEPT !.enable = 1]
    [] OTHER -> b

\* if ( !( IRQ_Cnt-- ) ) { IRQ_Cnt = IRQ_Latch; IRQ_REQ; } on every shown line.
CountToZero(b, line, show) ==
  IF b.enable = 0 \/ line > 239 \/ ~show THEN b
  ELSE IF b.cnt = 0 THEN IRQ_REQ([b EXCEPT !.cnt = b.latch])
  ELSE [b EXCEPT !.cnt = @ - 1]

\* The VRC interrupt control: acknowledge moves the enable bit to bit 1,
\* control loads it and, when it starts the counter, the latch.
VrcAck(b) == [b EXCEPT !.enable = IF On(@, 0) THEN Or(@, 2) ELSE And(@, 1)]
VrcControl(b, d) ==
  [b EXCEPT !.enable = d % 4, !.cnt = IF On(d, 1) THEN b.latch ELSE @]
=============================================================================
