----------------------------- MODULE NesMapper000 -----------------------------
(***************************************************************************)
(* The boards of mapper numbers 0 to 18: Nintendo's NROM, MMC1 to MMC5,    *)
(* UxROM, CNROM, AxROM, Color Dreams, the Front Far East copiers, Bandai   *)
(* and Jaleco.  MapN_Init installs the board, MapN_Write is a CPU write to *)
(* the ROM area, MapN_Apu one to $4020-$5FFF, MapN_PPU a pattern fetch,    *)
(* MapN_HSync the callback of a scanline, as in the source.                *)
(***************************************************************************)
EXTENDS NesBoard

-----------------------------------------------------------------------------
Map0_Init(b) ==
  LET p == IF b.rom > 1 THEN <<0, 1, 2, 3>> ELSE IF b.rom > 0 THEN <<0, 1, 0, 1>> ELSE <<0, 0, 0, 0>>
  IN  FirstVRom(Banks(b, p))

-----------------------------------------------------------------------------
(* MMC1: a shift register of five bits.  reg[0..3] are Map1_Regs, reg[4]   *)
(* bits 13 and 14 of Map1_Last_Write_Addr, reg[5] Map1_256K_base, reg[6]   *)
(* Map1_swap; cnt and latch the shift register; bank[1..4] Map1_bank1-4.   *)

Map1_Size(b) == CASE RomPages(b) = 128 -> "1024K" [] RomPages(b) = 64 -> "512K" [] OTHER -> "SMALL"
Map1_HI1(b) == IF Map1_Size(b) = "SMALL" THEN RomPages(b) - 2 ELSE 30

Map1_set_ROM_banks(b) ==
  CpuWin(b, 0, [k \in 0..3 |-> Rom((32 * b.reg[5] + (b.bank[k + 1] % 32)) % RomPages(b))])

\* Mutant: the shift register keeps its bits.
Map1_Init_Shift(b) ==
  Map1_set_ROM_banks(
    [b EXCEPT !.sram = Sram, !.reg[0] = 12, !.reg[1] = 0, !.reg[2] = 0, !.reg[3] = 0, !.reg[5] = 0, !.reg[6] = 0,
              !.bank[1] = 0, !.bank[2] = 1, !.bank[3] = Map1_HI1(b), !.bank[4] = Map1_HI1(b) + 1])
Map1_Init(b) ==
  Map1_set_ROM_banks(
    [b EXCEPT !.sram = Sram, !.cnt = 0, !.latch = 0,
              !.reg[0] = 12, !.reg[1] = 0, !.reg[2] = 0, !.reg[3] = 0, !.reg[5] = 0, !.reg[6] = 0,
              !.bank[1] = 0, !.bank[2] = 1, !.bank[3] = Map1_HI1(b), !.bank[4] = Map1_HI1(b) + 1])

\* The 256 KB half of a 512 KB or 1 MB cartridge is switched by registers 1
\* and 2; with both in use it takes two writes (Map1_swap).
Map1_Base(b, base) ==
  IF b.reg[6] = 0 THEN [b EXCEPT !.reg[6] = 1]
  ELSE Map1_set_ROM_banks([b EXCEPT !.reg[5] = base, !.reg[6] = 0])

Map1_Chr0(b) ==
  LET half == Bit(b.reg[1], 4)
      high == Bit(b.reg[2], 4)
  IN  CASE Map1_Size(b) = "1024K" ->
             IF On(b.reg[0], 4)
               THEN Map1_Base(b, half + (IF On(b.reg[0], 3) THEN 2 * high ELSE 0))
               ELSE Map1_set_ROM_banks([b EXCEPT !.reg[5] = 3 * half])
        [] Map1_Size(b) = "512K" /\ b.vrom = 0 -> Map1_set_ROM_banks([b EXCEPT !.reg[5] = half])
        [] OTHER -> IF b.vrom = 0 THEN b
                    ELSE ChrMod(b, 0, IF On(b.reg[0], 4) THEN 4 ELSE 8, 4 * b.reg[1])

Map1_Chr1(b) ==
  LET s == IF Map1_Size(b) = "1024K" /\ On(b.reg[0], 3)
             THEN Map1_Base(b, Bit(b.reg[1], 4) + 2 * Bit(b.reg[2], 4)) ELSE b
  IN  CASE ~On(b.reg[0], 4) -> s
        [] b.vrom = 0 -> ChrCRam(s, 4, 4, 4 * b.reg[2])
        [] OTHER -> ChrMod(s, 4, 4, 4 * b.reg[2])

Map1_Prg(b) ==
  LET p == 2 * b.reg[3]
      low == [b EXCEPT !.bank[1] = p, !.bank[2] = p + 1]
      small == Map1_Size(b) = "SMALL"
  IN  Map1_set_ROM_banks(
        CASE On(b.reg[0], 3) /\ On(b.reg[0], 2) ->
               [low EXCEPT !.bank[3] = Map1_HI1(b), !.bank[4] = Map1_HI1(b) + 1]
          [] On(b.reg[0], 3) /\ ~On(b.reg[0], 2) ->
               IF small THEN [b EXCEPT !.bank[1] = 0, !.bank[2] = 1, !.bank[3] = p, !.bank[4] = p + 1]
               ELSE b
          [] OTHER -> IF small THEN [low EXCEPT !.bank[3] = p + 2, !.bank[4] = p + 3] ELSE low)

Map1_Empty(b) == [b EXCEPT !.cnt = 0, !.latch = 0]

\* A write to another region starts a new register.  Mutant: it goes on.
Map1_Enter_Any(b, region) == [b EXCEPT !.reg[4] = region]
Map1_Enter(b, region) == [(IF region # b.reg[4] THEN Map1_Empty(b) ELSE b) EXCEPT !.reg[4] = region]

Map1_Write(b, a, d) ==
  LET region == (a \div 8192) % 4
      moved == Map1_Enter(b, region)
      shifted == [moved EXCEPT !.latch = @ + Bit(d, 0) * 2^moved.cnt, !.cnt = @ + 1]
      full == Map1_Empty([shifted EXCEPT !.reg[region] = shifted.latch])
  IN  CASE On(d, 7) -> Map1_Empty(moved)
        [] ~On(d, 7) /\ shifted.cnt < 5 -> shifted
        [] OTHER -> CASE region = 0 -> MirrorBy(full, full.reg[0], <<3, 2, 1, 0>>)
                      [] region = 1 -> Map1_Chr0(full)
                      [] region = 2 -> Map1_Chr1(full)
                      [] region = 3 -> Map1_Prg(full)
                      [] OTHER -> full

-----------------------------------------------------------------------------
(* UxROM and CNROM: one latch. *)
Map2_Init(b) == FirstAndLast(b)
Map2_Write(b, a, d) == Prg(b, 0, 2, 2 * (d % b.rom) % 256)

Map3_Init(b) == FirstVRom(Banks(b, IF RomPages(b) > 2 THEN <<0, 1, 2, 3>> ELSE <<0, 1, 0, 1>>))
\* Mutants: the bank number as written; the characters not decoded again.
Map3_Write_Whole(b, a, d) == Chr(b, 0, 8, 8 * d)
Map3_Write_Stale(b, a, d) == PpuWin(b, 0, [k \in 0..7 |-> VRom(8 * (d % b.vrom) + k)])
Map3_Write(b, a, d) == Chr(b, 0, 8, 8 * (d % b.vrom))

-----------------------------------------------------------------------------
(* MMC3: reg[0] is Map4_Regs[0]. *)
Map4_Set_CPU_Banks(b) == Mmc3Prg(b)
Map4_Set_PPU_Banks(b) == IF b.vrom > 0 THEN Mmc3Chr(b) ELSE ChrCRam(b, 0, 8, 0)

Map4_Init(b) == [Mmc3Init(b) EXCEPT !.req = 0, !.present = 0, !.vbl = 0]

Map4_Write(b, a, d, line) ==
  LET port == Mmc3Port(a)
  IN  CASE port = \h8000 -> Map4_Set_CPU_Banks(Map4_Set_PPU_Banks([b EXCEPT !.reg[0] = d]))
        [] port = \h8001 -> Mmc3Bank(b, d)
        [] port = \hA000 -> Mmc3Mirror(b, d)
        [] port = \hA001 -> b
        [] port = \hC000 -> [b EXCEPT !.latch = d]
        [] port = \hC001 -> IF line < 240
                              THEN [b EXCEPT !.cnt = Or(@, 128), !.present = 1]
                              ELSE [b EXCEPT !.cnt = Or(@, 128), !.vbl = 1, !.present = 0]
        [] port = \hE000 -> [b EXCEPT !.enable = 0, !.req = 0]
        [] port = \hE001 -> [b EXCEPT !.enable = 1, !.req = 0]
        [] OTHER -> b

Map4_HSync(b, line, show) ==
  LET v == IF b.vbl # 0 THEN [b EXCEPT !.cnt = b.latch, !.vbl = 0] ELSE b
      c == IF v.present # 0 THEN [v EXCEPT !.cnt = v.latch, !.present = 0]
           ELSE IF v.cnt > 0 THEN [v EXCEPT !.cnt = @ - 1] ELSE v
      z == IF c.cnt = 0
             THEN [c EXCEPT !.req = IF c.enable # 0 THEN 1 ELSE @, !.present = 1] ELSE c
      s == IF line <= 239 /\ show THEN z ELSE b
  IN  IF s.req # 0 THEN IRQ_REQ(s) ELSE s

-----------------------------------------------------------------------------
(* MMC5: reg[0..2] hold Map5_Prg_Size, Chr_Size and Gfx_Mode, reg[4..7]    *)
(* Map5_Prg_Reg, reg[8..15] and reg[16..23] the two sets of Map5_Chr_Reg,  *)
(* reg[27..31] Map5_Wram_Reg[3..7]; latch is Map5_IRQ_Line, req            *)
(* Map5_IRQ_Status.                                                        *)
NoWram == 255

Map5_Init(b) ==
  [ClearIrq(Chr(Banks(b, [k \in 1..4 |-> Last(b, 0)]), 0, 8, 0)) EXCEPT
     !.req = 0,
     !.reg = [k \in 0..31 |->
        CASE k \in {0, 1} -> 3 [] k = 2 -> 0
          [] k \in 4..7 -> (RomPages(b) - 1) % 256
          [] k \in 12..15 -> k - 8
          [] k \in 20..23 -> (k % 4) + 4
          [] k \in 27..31 -> NoWram
          [] OTHER -> b.reg[k]]]

\* Window w of the CPU shows ROM page p or, when the register's top bit is
\* clear, page q of the work RAM; Map5_Wram_Reg remembers which.
Map5_Window(b, w, isRom, p, q) ==
  [b EXCEPT !.cpu[w] = IF isRom THEN Rom(p % RomPages(b)) ELSE Wram(q),
            !.reg[28 + w] = IF isRom THEN NoWram ELSE q]

Map5_Sync_Prg_Banks(b) ==
  LET r(k) == b.reg[k]
      pair(s, w, k) == Map5_Window(Map5_Window(s, w, On(r(k), 7), Hi(r(k) % 128, 2), 2 * Field(r(k), 1, 2)),
                                   w + 1, On(r(k), 7), Hi(r(k) % 128, 2) + 1, 2 * Field(r(k), 1, 2) + 1)
      one(s, w, k) == Map5_Window(s, w, On(r(k), 7), r(k) % 128, r(k) % 8)
      last(s, n, p) == PrgMod(s, 4 - n, n, p)
      rom(s, w) == [s EXCEPT !.reg[28 + w] = NoWram]
  IN  CASE r(0) = 0 -> last(rom(rom(rom(b, 0), 1), 2), 4, Hi(r(7) % 128, 4))
        [] r(0) = 1 -> last(rom(IF On(r(5), 7)
                                  THEN PrgMod(rom(rom(b, 0), 1), 0, 2, Hi(r(7) % 128, 2))
                                  ELSE pair(b, 0, 5), 2), 2, Hi(r(7) % 128, 2))
        [] r(0) = 2 -> last(one(pair(b, 0, 5), 2, 6), 1, r(7) % 128)
        [] OTHER -> last(one(one(one(b, 0, 4), 1, 5), 2, 6), 1, r(7) % 128)

Map5_Apu(b, a, d) ==
  CASE a = \h5100 -> [b EXCEPT !.reg[0] = d % 4]
    [] a = \h5101 -> [b EXCEPT !.reg[1] = d % 4]
    [] a = \h5104 -> [b EXCEPT !.reg[2] = d % 4]
    [] a = \h5105 -> PpuWin(b, 8, [k \in 0..3 |-> <<VRam(0), VRam(1), <<"EX", 0>>, <<"EX", 1>> >>
                                                  [Field(d, 2 * k, 2) + 1]])
    [] a = \h5113 -> [b EXCEPT !.reg[27] = d % 8, !.sram = Wram(d % 8)]
    [] a \in \h5114..\h5117 -> Map5_Sync_Prg_Banks([b EXCEPT !.reg[a % 8] = d])
    [] a \in \h5120..\h5127 -> Map5_Sync_Prg_Banks([b EXCEPT !.reg[8 + (a % 8)] = d])
    [] a \in \h5128..\h512B -> [b EXCEPT !.reg[16 + (a % 4)] = d, !.reg[20 + (a % 4)] = d]
    [] a = \h5203 -> [b EXCEPT !.latch = IF @ >= 64 THEN d ELSE (@ + d) % 256]
    [] a = \h5204 -> [b EXCEPT !.enable = d]
    [] OTHER -> b

Map5_ReadApu(b, a) == IF a = \h5204 THEN [b EXCEPT !.req = 0] ELSE b

Map5_HSync(b, line) ==
  IF line > 240 THEN [b EXCEPT !.req = Or(@, 64)]
  ELSE IF line # b.latch THEN b
  ELSE LET s == [b EXCEPT !.req = Or(@, 128), !.enable = IF b.latch >= 64 THEN 0 ELSE @]
       IN  IF b.enable # 0 /\ b.latch < 240 THEN IRQ_REQ(s) ELSE s

\* The background (mode 1) and the sprites (mode 0) have pattern banks of
\* their own, switched in before each is drawn: 2^(3 - Chr_Size) windows
\* per register.
Map5_RenderScreen(b, mode) ==
  LET n == 2^(3 - b.reg[1])
      page(w) == (n * b.reg[8 + 8 * mode + Hi(w, n) + n - 1]) % ChrPages(b)
  IN  InfoNES_SetupChr(PpuWin(b, 0, [w \in 0..7 |-> VRom(page(w) + (w % n))]))

-----------------------------------------------------------------------------
(* Front Far East copiers (6, 8, 17). *)
Map6_Init(b) ==
  LET s == Banks(b, <<0, 1, 14, 15>>)
  IN  IF b.vrom > 0 THEN Chr(s, 0, 8, 0)
      ELSE InfoNES_SetupChr(PpuWin(s, 0, [k \in 0..7 |-> ChrRam(k)]))

Map6_Apu(b, a, d) ==
  CASE a = \h42FE -> MirrorIf(b, On(d, 4), 2, 3)
    [] a = \h42FF -> MirrorIf(b, On(d, 4), 0, 1)
    [] a = \h4501 -> [b EXCEPT !.enable = 0]
    [] a = \h4502 -> [b EXCEPT !.cnt = LowByte(@, d)]
    [] a = \h4503 -> [b EXCEPT !.cnt = HighByte(@, d), !.enable = 1]
    [] OTHER -> b

Map6_Write(b, a, d) ==
  InfoNES_SetupChr(PpuWin(Prg(b, 0, 2, 2 * Field(d, 2, 4) % RomPages(b)),
                          0, [k \in 0..7 |-> ChrRam(8 * (d % 4) + k)]))

Map6_HSync(b) ==
  IF b.enable = 0 THEN b
  ELSE IF b.cnt + 133 >= 65535 THEN IRQ_REQ([b EXCEPT !.cnt = 0])
  ELSE [b EXCEPT !.cnt = @ + 133]

Map8_Init(b) == FirstVRom(FirstFour(b))
Map8_Write(b, a, d) ==
  Chr(Prg(b, 0, 2, 2 * Field(d, 3, 5) % RomPages(b)), 0, 8, 8 * (d % 8) % ChrPages(b))

Map17_Init(b) == ClearIrq(FirstVRom(FirstAndLast(b)))

Map17_Apu(b, a, d) ==
  CASE a = \h42FE -> MirrorIf(b, On(d, 4), 2, 3)
    [] a = \h42FF -> MirrorIf(b, On(d, 4), 0, 1)
    [] a = \h4501 -> [b EXCEPT !.enable = 0]
    [] a = \h4502 -> [b EXCEPT !.latch = LowByte(@, d)]
    [] a = \h4503 -> [b EXCEPT !.latch = HighByte(@, d), !.cnt = HighByte(b.latch, d), !.enable = 1]
    [] a \in \h4504..\h4507 -> Prg(b, a - \h4504, 1, d % RomPages(b))
    [] a \in \h4510..\h4517 -> Chr(b, a - \h4510, 1, d % ChrPages(b))
    [] OTHER -> b

Map17_HSync(b) ==
  IF b.enable = 0 THEN b
  ELSE IF b.cnt >= 65535 - 113 THEN IRQ_REQ([b EXCEPT !.cnt = 0, !.enable = 0])
  ELSE [b EXCEPT !.cnt = @ + 113]

-----------------------------------------------------------------------------
(* AxROM, Color Dreams, CPROM, 100-in-1. *)
Map7_Init(b) == FirstFour(b)
Map7_Write(b, a, d) ==
  MirrorIf(Prg(b, 0, 4, 4 * (d % 8) % RomPages(b)), On(d, 4), 2, 3)

Map11_Init(b) == InfoNES_Mirroring(FirstVRom(FirstFour(b)), 1)
Map11_Write(b, a, d) == ChrMod(PrgMod(b, 0, 4, 4 * (d % 2)), 0, 8, 8 * Field(d, 4, 3))

Map13_Init(b) == ChrCRam(ChrCRam(FirstFour(b), 0, 4, 0), 4, 4, 0)
Map13_Write(b, a, d) == ChrCRam(PrgMod(b, 0, 4, 4 * Field(d, 4, 2)), 4, 4, 4 * (d % 4))

Map15_Init(b) == FirstFour(b)
Map15_Write(b, a, d) ==
  LET m == MirrorIf(b, On(d, 5), 0, 1)
      p == 2 * ((d % 64) % RomPages(b))
      q == 2 * ((d % 32) % RomPages(b))
  IN  CASE a = \h8000 -> Prg(m, 0, 4, q)
        [] a = \h8001 -> Prg(b, 2, 2, p)
        [] a = \h8002 -> CpuWin(b, 0, [k \in 0..3 |-> Rom(p + Bit(d, 7))])
        [] a = \h8003 -> Prg(m, 2, 2, q)
        [] OTHER -> b

-----------------------------------------------------------------------------
(* MMC2 and MMC4: each half of the pattern table has two banks, and the    *)
(* fetch of tile $FD or $FE selects one.  reg[0] and reg[1] are the states *)
(* of the two latches, bank[2h] and bank[2h + 1] the banks of half h.      *)
LatchInit(b) ==
  [FirstVRom(b) EXCEPT !.reg[0] = \hFE, !.reg[1] = \hFE,
                       !.bank[0] = 0, !.bank[1] = 0, !.bank[2] = 0, !.bank[3] = 0]

\* Half h's bank for state s ($FD: 0, $FE: 1) becomes d; shown at once when
\* the latch is in that state.
LatchBank(b, h, s, d) ==
  LET p == 4 * (d % (2 * b.vrom)) % 256
      set == [b EXCEPT !.bank[2 * h + s] = p]
  IN  IF b.reg[h] = \hFD + s THEN Chr(set, 4 * h, 4, p) ELSE set
LatchFetch(b, a) ==
  LET tile == Hi(a % \h4000, 16)
      flip(h, s) == Chr([b EXCEPT !.reg[h] = \hFD + s], 4 * h, 4, b.bank[2 * h + s])
  IN  CASE tile = \h0FD0 -> flip(0, 0) [] tile = \h0FE0 -> flip(0, 1)
        [] tile = \h1FD0 -> flip(1, 0) [] tile = \h1FE0 -> flip(1, 1)
        [] OTHER -> b

Map9_Init(b) == LatchInit(Banks(b, <<0, Last(b, 2), Last(b, 1), Last(b, 0)>>))
Map9_Write(b, a, d) ==
  LET port == a \div 4096
  IN  CASE port = 10 -> Prg(b, 0, 1, d % RomPages(b))
        [] port \in 11..14 -> LatchBank(b, (port - 11) \div 2, (port - 11) % 2, d)
        [] port = 15 -> MirrorIf(b, On(d, 0), 0, 1)
        [] OTHER -> b
Map9_PPU(b, a) == LatchFetch(b, a)

Map10_Init(b) == LatchInit(FirstAndLast(b))
Map10_Write(b, a, d) ==
  LET port == a \div 4096
  IN  CASE port = 10 -> Prg(b, 0, 2, 2 * (d % b.rom) % 256)
        [] port \in 11..14 -> LatchBank(b, (port - 11) \div 2, (port - 11) % 2, d)
        [] port = 15 -> MirrorIf(b, On(d, 0), 0, 1)
        [] OTHER -> b
Map10_PPU(b, a) == LatchFetch(b, a)

-----------------------------------------------------------------------------
(* Bandai (16) and Jaleco SS8806 (18).  MapperSram is Map16_Write too. *)
Map16_Init(b) ==
  [ClearIrq(FirstAndLast(b)) EXCEPT !.reg[0] = 0, !.reg[1] = 0, !.reg[2] = 0]

Map16_Write(b, a, d) ==
  LET port == a % 16
  IN  CASE port < 8 -> Chr(b, port, 1, d % ChrPages(b))
        [] port = 8 -> Prg(b, 0, 2, ((2 * d) % 256) % RomPages(b))
        [] port = 9 -> MirrorBy(b, d, <<1, 0, 3, 2>>)
        [] port = 10 -> [b EXCEPT !.enable = d % 2, !.cnt = b.latch]
        [] port = 11 -> [b EXCEPT !.latch = LowByte(@, d)]
        [] port = 12 -> [b EXCEPT !.latch = HighByte(@, d)]
        [] OTHER -> b

Map16_HSync(b) ==
  IF b.enable = 0 THEN b
  ELSE IF b.cnt <= 114 THEN IRQ_REQ([b EXCEPT !.cnt = 0, !.enable = 0])
  ELSE [b EXCEPT !.cnt = @ - 114]

Map18_Init(b) ==
  ClearIrq([FirstAndLast(b) EXCEPT !.reg = [k \in DOMAIN @ |-> IF k < 11 THEN 0 ELSE @[k]]])

\* Registers 0 to 2 select CPU windows, 3 to 10 pattern windows, a nibble
\* at a time.
Map18_Write(b, a, d) ==
  LET port == 4 * ((a \div 4096) - 8) + (a % 16)
      k == port \div 2
      s == [b EXCEPT !.reg[k] = IF port % 2 = 0 THEN LowNibble(@, d) ELSE HighNibble(@, d)]
      shift == 16^(a % 4)
  IN  CASE a % 4096 > 3 -> b
        [] a % 4096 < 4 /\ port < 6 -> Prg(s, k, 1, s.reg[k] % RomPages(b))
        [] port \in 8..23 -> LET r == k - 1
                                 t == [b EXCEPT !.reg[r] = IF port % 2 = 0 THEN LowNibble(@, d) ELSE HighNibble(@, d)]
                             IN  Chr(t, r - 3, 1, t.reg[r] % ChrPages(b))
        [] port \in 24..27 -> [b EXCEPT !.latch = @ - Field(@, 4 * (a % 4), 4) * shift + (d % 16) * shift]
        [] port = 28 -> [b EXCEPT !.cnt = IF On(d, 0) THEN b.latch ELSE 0]
        [] port = 29 -> [b EXCEPT !.enable = d % 2]
        [] port = 30 -> IF d % 4 = 3 THEN b ELSE MirrorBy(b, d, <<0, 1, 3, 3>>)
        [] OTHER -> b

Map18_HSync(b) ==
  IF b.enable = 0 THEN b
  ELSE IF b.cnt <= 113 THEN IRQ_REQ([b EXCEPT !.cnt = 0, !.enable = 0])
  ELSE [b EXCEPT !.cnt = @ - 113]
=============================================================================
