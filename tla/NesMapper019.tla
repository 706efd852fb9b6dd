----------------------------- MODULE NesMapper019 -----------------------------
(***************************************************************************)
(* The boards of mapper numbers 19 to 49: Namco 106, Konami's VRC2, VRC4   *)
(* and VRC6, Irem, Taito, and the multi-game clones of MMC3.  A register   *)
(* that a board stores and never reads is left out.                        *)
(***************************************************************************)
EXTENDS NesMapper000

\* One nibble (0 low, 1 high) of the bank register of pattern window k.
VrcChr(b, k, half, d) ==
  LET s == [b EXCEPT !.reg[k] = IF half = 0 THEN LowNibble(@, d) ELSE HighNibble(@, d)]
  IN  Chr(s, k, 1, s.reg[k] % ChrPages(b))

\* The counter of the VRC boards: counts up from the latch to $FF.
VrcCount(b) ==
  IF ~On(b.enable, 1) THEN b
  ELSE IF b.cnt = 255 THEN IRQ_REQ(VrcAck([b EXCEPT !.cnt = b.latch]))
  ELSE [b EXCEPT !.cnt = @ + 1]

Identity(b, n) == [b EXCEPT !.reg = [k \in DOMAIN @ |-> IF k < n THEN k ELSE @[k]]]
ZeroRegs(b, n) == [b EXCEPT !.reg = [k \in DOMAIN @ |-> IF k < n THEN 0 ELSE @[k]]]

-----------------------------------------------------------------------------
(* Namco 106 (19).  Map19_Regs has two elements and Map19_Init stores 0 in *)
(* a third: overrun says what Map19_IRQ_Enable holds after that store.     *)
Map19_Init(b, overrun) ==
  LET s == FirstAndLast(b)
      t == IF b.vrom > 0 THEN Chr(s, 0, 8, ChrPages(b) - 8) ELSE s
  IN  [t EXCEPT !.reg[0] = 0, !.reg[1] = 0, !.enable = overrun]

Map19_Write(b, a, d) ==
  LET port == (a \div 2048) - 16
      rom == d < 224 \/ b.reg[0] = 1
      page == d % ChrPages(b)
      prg(s, w) == Prg(s, w, 1, (d % 64) % RomPages(b))
  IN  CASE port \in 0..7 /\ rom -> Chr(b, port, 1, page)
        [] port \in 0..7 /\ ~rom -> InfoNES_SetupChr([b EXCEPT !.ppu[port] = ChrRam(port)])
        [] port \in 8..11 -> [b EXCEPT !.ppu[port] = IF rom THEN VRom(page) ELSE VRam(d % 2)]
        [] port = 12 -> prg(b, 0)
        [] port = 13 -> prg([b EXCEPT !.reg[0] = Bit(d, 6), !.reg[1] = Bit(d, 7)], 1)
        [] port = 14 -> prg(b, 2)
        [] OTHER -> b

Map19_Apu(b, a, d) ==
  CASE a \div 2048 = 10 -> [b EXCEPT !.cnt = LowByte(@, d)]
    [] a \div 2048 = 11 -> [b EXCEPT !.cnt = HighByte(@, d % 128), !.enable = Bit(d, 7)]
    [] OTHER -> b

Map19_HSync(b) ==
  IF b.enable = 0 THEN b
  ELSE IF b.cnt >= 32767 - 113 THEN IRQ_REQ([b EXCEPT !.cnt = 32767])
  ELSE [b EXCEPT !.cnt = @ + 113]

-----------------------------------------------------------------------------
(* Konami VRC4 (21, 25), VRC2 (22, 23), VRC6 (24, 26). *)
Map21_Init(b) == ClearIrq([Identity(FirstAndLast(b), 8) EXCEPT !.reg[8] = 0])

Map21_Write(b, a, d) ==
  LET page == a \div 4096
      k == 2 * (page - 11)
      o == a % 16
  IN  CASE page = 8 /\ o = 0 -> Prg(b, IF On(b.reg[8], 1) THEN 2 ELSE 0, 1, d % RomPages(b))
        [] page = 10 /\ o = 0 -> Prg(b, 1, 1, d % RomPages(b))
        [] page = 9 /\ o = 0 -> MirrorBy(b, d, <<1, 0, 3, 2>>)
        [] page = 9 /\ o = 2 -> [b EXCEPT !.reg[8] = d]
        [] page \in 11..14 /\ o \in {0, 2} -> VrcChr(b, k, o \div 2, d)
        [] page \in 11..14 /\ o \in {1, 4, 3, 6} -> VrcChr(b, k + 1, IF o \in {3, 6} THEN 1 ELSE 0, d)
        [] page = 15 /\ o = 0 -> [b EXCEPT !.latch = LowNibble(@, d)]
        [] page = 15 /\ o = 2 -> [b EXCEPT !.latch = HighNibble(@, d)]
        [] page = 15 /\ o = 3 -> VrcAck(b)
        [] page = 15 /\ o = 4 -> VrcControl(b, d)
        [] OTHER -> b

Map21_HSync(b) == VrcCount(b)

Map22_Init(b) == FirstVRom(FirstAndLast(b))
Map22_Write(b, a, d) ==
  LET page == a \div 4096
      o == a % 4096
  IN  CASE page = 8 /\ o = 0 -> Prg(b, 0, 1, d % RomPages(b))
        [] page = 9 /\ o = 0 -> MirrorBy(b, d, <<1, 0, 2, 3>>)
        [] page = 10 /\ o = 0 -> Prg(b, 1, 1, d % RomPages(b))
        [] page \in 11..14 /\ o < 2 -> Chr(b, 2 * (page - 11) + o, 1, (d \div 2) % ChrPages(b))
        [] OTHER -> b

\* Map23_Init installs Map0_HSync: the counter never runs.
Map23_Init(b) == ClearIrq([Identity(FirstVRom(FirstAndLast(b)), 8) EXCEPT !.reg[8] = 0])

Map23_Write(b, a, d) ==
  LET page == a \div 4096
      k == 2 * (page - 11)
      o == a % 4096
  IN  CASE page = 8 /\ o \in {0, 4, 8, 12} ->
             Prg(b, IF b.reg[8] # 0 THEN 2 ELSE 0, 1, d % RomPages(b))
        [] page = 10 /\ o \in {0, 4, 8, 12} -> Prg(b, 1, 1, d % RomPages(b))
        [] page = 9 /\ o = 0 -> MirrorBy(b, d, <<1, 0, 3, 2>>)
        [] page = 9 /\ o = 8 -> [b EXCEPT !.reg[8] = And(d, 2)]
        [] page \in 11..14 /\ o \in {0, 1, 4} -> VrcChr(b, k, IF o = 0 THEN 0 ELSE 1, d)
        [] page \in 11..14 /\ o \in {2, 8, 3, 12} -> VrcChr(b, k + 1, IF o \in {3, 12} THEN 1 ELSE 0, d)
        [] page = 15 /\ o = 0 -> [b EXCEPT !.latch = LowNibble(@, d)]
        [] page = 15 /\ o = 4 -> [b EXCEPT !.latch = Or(Hi(@, 16), 16 * (d % 16))]
        [] page = 15 /\ o = 8 -> VrcControl(b, d)
        [] page = 15 /\ o = 12 -> VrcAck(b)
        [] OTHER -> b

\* Map24_IRQ_State is enable, Map24_IRQ_Count cnt.
Map24_Init(b) == FirstAndLast(b)
Map24_Write(b, a, d) ==
  CASE a = \h8000 -> PrgMod(b, 0, 2, d)
    [] a = \hB003 -> MirrorBy(b, Field(d, 2, 2), <<1, 0, 3, 2>>)
    [] a = \hC000 -> PrgMod(b, 2, 1, d)
    [] a \in \hD000..\hD003 -> ChrMod(b, a - \hD000, 1, d)
    [] a \in \hE000..\hE003 -> ChrMod(b, 4 + (a - \hE000), 1, d)
    [] a = \hF000 -> [b EXCEPT !.latch = d]
    [] a = \hF001 -> VrcControl(b, d)
    [] a = \hF002 -> VrcAck(b)
    [] OTHER -> b
Map24_HSync(b) ==
  IF ~On(b.enable, 1) THEN b
  ELSE IF b.cnt = 255 THEN IRQ_REQ([b EXCEPT !.cnt = b.latch])
  ELSE [b EXCEPT !.cnt = @ + 1]

\* reg[0..15] is Map25_VBank, a nibble each; reg[16] Map25_Bank_Selector.
Map25_Init(b) == ZeroRegs(FirstAndLast(b), 16)
Map25_Sync_Vrom(b, n) ==
  LET k == 2 * n - (n % 2)
  IN  ChrMod(b, n, 1, b.reg[k] + 16 * b.reg[k + 2])
Map25_Write(b, a, d) ==
  LET page == a \div 4096
      k == 4 * (page - 11) + (a % 4)
  IN  CASE a = \h8000 -> Prg(b, IF b.reg[16] # 0 THEN 2 ELSE 0, 1, d % RomPages(b))
        [] a = \h9000 -> MirrorBy(b, d, <<1, 0, 2, 3>>)
        [] a = \h9002 -> [b EXCEPT !.reg[16] = And(d, 2)]
        [] a = \hA000 -> Prg(b, 1, 1, d % RomPages(b))
        [] page \in 11..14 /\ a % 4096 < 4 ->
             Map25_Sync_Vrom([b EXCEPT !.reg[k] = d % 16], 2 * (page - 11) + (a % 2))
        [] a \in {\hF000, \hF001} -> [b EXCEPT !.latch = d]
        [] a = \hF002 -> [b EXCEPT !.enable = IF On(d, 1) THEN 1 ELSE IF On(d, 0) THEN @ ELSE 0,
                                   !.cnt = b.latch]
        [] a = \hF003 -> [b EXCEPT !.enable = (2 * @ + (@ % 2)) % 256]
        [] OTHER -> b
Map25_HSync(b) ==
  IF ~On(b.enable, 1) THEN b
  ELSE IF b.cnt = 255 THEN IRQ_REQ([b EXCEPT !.cnt = b.latch])
  ELSE [b EXCEPT !.cnt = @ + 1]

Map26_Init(b) == [FirstVRom(FirstAndLast(b)) EXCEPT !.enable = 0, !.cnt = 0]
Map26_Write(b, a, d) ==
  LET window == <<0, 2, 1, 3>>[(a % 4) + 1]
      m == d % 128
  IN  CASE a = \h8000 -> Prg(b, 0, 2, ((2 * d) % 256) % RomPages(b))
        [] a = \hB003 -> (CASE m \in {\h08, \h2C} -> InfoNES_Mirroring(b, 2)
                            [] m = \h20 -> InfoNES_Mirroring(b, 1)
                            [] m = \h24 -> InfoNES_Mirroring(b, 0)
                            [] m = \h28 -> InfoNES_Mirroring(b, 3)
                            [] OTHER -> b)
        [] a = \hC000 -> InfoNES_SetupChr(Prg(b, 2, 1, d % RomPages(b)))
        [] a \in \hD000..\hD003 -> Chr(b, window, 1, d % ChrPages(b))
        [] a \in \hE000..\hE003 -> Chr(b, 4 + window, 1, d % ChrPages(b))
        [] a = \hF000 -> [b EXCEPT !.latch = d]
        [] a = \hF001 -> [b EXCEPT !.enable = d % 2]
        [] a = \hF002 -> VrcControl(b, d)
        [] OTHER -> b
Map26_HSync(b) ==
  IF b.enable % 4 = 0 THEN b
  ELSE IF b.cnt >= 254 THEN IRQ_REQ([b EXCEPT !.cnt = b.latch, !.enable = 0])
  ELSE [b EXCEPT !.cnt = @ + 1]

-----------------------------------------------------------------------------
(* Irem G-101 (32), Taito TC0190 (33), Nina-1 (34). *)
Map32_Init(b) == [FirstVRom(FirstAndLast(b)) EXCEPT !.reg[0] = 0]
Map32_Write(b, a, d) ==
  LET page == a \div 4096
  IN  CASE page = 8 -> Prg(b, IF On(b.reg[0], 1) THEN 2 ELSE 0, 1, d % RomPages(b))
        [] page = 9 -> InfoNES_Mirroring([b EXCEPT !.reg[0] = d], d % 2)
        [] page = 10 -> Prg(b, 1, 1, d % RomPages(b))
        [] page = 11 -> Chr(b, a % 8, 1, d % ChrPages(b))
        [] OTHER -> b

\* Map33_Init installs Map0_HSync: the counter never runs.
Map33_Init(b) ==
  LET s == FirstVRom(FirstAndLast(b))
  IN  [(IF b.vrom > 0 THEN Identity(s, 8) ELSE ZeroRegs(s, 8)) EXCEPT !.enable = 0, !.cnt = 0]
Map33_Write(b, a, d) ==
  LET pair(w) == LET p == (2 * d) % 256
                 IN  ChrMod([b EXCEPT !.reg[w] = p, !.reg[w + 1] = p + 1], w, 2, p)
      one(w) == ChrMod([b EXCEPT !.reg[w] = d], w, 1, d)
  IN  CASE a \in {\h8000, \h8001} -> Prg(b, a - \h8000, 1, d % RomPages(b))
        [] a \in {\h8002, \h8003} -> pair(2 * (a - \h8002))
        [] a \in \hA000..\hA003 -> one(4 + (a - \hA000))
        [] a = \hC000 -> [b EXCEPT !.cnt = d]
        [] a \in {\hC001, \hC002, \hE001, \hE002} -> [b EXCEPT !.enable = IF b.cnt = d THEN 255 ELSE d]
        [] a = \hE000 -> MirrorIf(b, On(d, 6), 0, 1)
        [] OTHER -> b

Map34_Init(b) == FirstVRom(FirstAndLast(b))
Map34_Write(b, a, d) == Prg(b, 0, 4, ((4 * d) % 256) % RomPages(b))
Map34_Sram(b, a, d) ==
  CASE a = \h7FFD -> Map34_Write(b, a, d)
    [] a \in {\h7FFE, \h7FFF} -> Chr(b, 4 * (a - \h7FFE), 4, ((4 * d) % 256) % ChrPages(b))
    [] OTHER -> b

-----------------------------------------------------------------------------
(* Pirate boards of single games (40, 42, 43) and of several (41, 46).     *)
(* Map40_Line_To_IRQ is unsigned: past zero it wraps to 2^32 - 1, here -1, *)
(* and does not come back to zero in the life of a console.                *)
Map40_Init(b) ==
  FirstVRom([Banks(b, <<4, 5, 0, 7>>) EXCEPT !.sram = Rom(6), !.enable = 0, !.cnt = 0])
Map40_Write(b, a, d) ==
  CASE a \div 8192 = 4 -> [b EXCEPT !.enable = 0]
    [] a \div 8192 = 5 -> [b EXCEPT !.enable = 1, !.cnt = 37]
    [] a \div 8192 = 7 -> PrgMod(b, 2, 1, d % 8)
    [] OTHER -> b
Map40_HSync(b) ==
  LET s == [b EXCEPT !.cnt = IF @ > 0 THEN @ - 1 ELSE -1]
  IN  IF b.enable = 0 THEN b ELSE IF s.cnt = 0 THEN IRQ_REQ(s) ELSE s

Map41_Init(b) == FirstVRom(FirstFour(b))
Map41_Write(b, a, d) ==
  IF b.reg[0] = 0 THEN b ELSE Chr(b, 0, 8, 8 * (b.reg[1] + (d % 4)) % ChrPages(b))
Map41_Sram(b, a, d) ==
  LET v == a % 256
      s == [b EXCEPT !.reg[0] = And(v, 4), !.reg[1] = 4 * Field(v, 3, 2)]
  IN  IF a >= \h6800 THEN b
      ELSE MirrorIf(Prg(s, 0, 4, 4 * (v % 8) % RomPages(b)), On(v, 5), 0, 1)

Map42_Init(b) ==
  FirstVRom([Banks(b, <<Last(b, 3), Last(b, 2), Last(b, 1), Last(b, 0)>>) EXCEPT !.sram = Rom(0)])
Map42_Write(b, a, d) ==
  LET port == Hi(a, \h2000) + (a % 4)
  IN  CASE port = \hE000 -> [b EXCEPT !.sram = Rom((d % 16) % RomPages(b))]
        [] port = \hE001 -> MirrorIf(b, On(d, 3), 0, 1)
        [] port = \hE002 -> IF On(d, 1) THEN [b EXCEPT !.enable = 1]
                            ELSE [b EXCEPT !.enable = 0, !.cnt = 0]
        [] OTHER -> b
Map42_HSync(b) ==
  LET s == [b EXCEPT !.cnt = IF @ < 215 THEN @ + 1 ELSE @]
  IN  IF b.enable = 0 THEN b
      ELSE IF s.cnt = 215 THEN IRQ_REQ([s EXCEPT !.enable = 0]) ELSE s

Map43_Init(b) ==
  FirstVRom([Banks(b, <<1, 0, 4, 9>>) EXCEPT !.sram = Rom(2), !.enable = 1, !.cnt = 0])
Map43_Apu(b, a, d) ==
  IF a \div 4096 = 4 /\ a % 256 = \h22
    THEN Prg(b, 2, 1, <<4, 3, 4, 4, 4, 7, 5, 6>>[(d % 8) + 1]) ELSE b
Map43_Write(b, a, d) ==
  IF a # \h8122 THEN b
  ELSE IF d % 4 # 0 THEN [b EXCEPT !.enable = 1] ELSE [b EXCEPT !.enable = 0, !.cnt = 0]
Map43_HSync(b) ==
  IF b.enable = 0 THEN b
  ELSE IF b.cnt + 114 >= 4096 THEN IRQ_REQ([b EXCEPT !.cnt = @ + 114 - 4096])
  ELSE [b EXCEPT !.cnt = @ + 114]

Map46_Set_ROM_Banks(b) ==
  ChrMod(PrgMod(b, 0, 4, 8 * b.reg[0] + 4 * b.reg[2]), 0, 8, 64 * b.reg[1] + 8 * b.reg[3])
Map46_Init(b) == InfoNES_Mirroring(Map46_Set_ROM_Banks(ZeroRegs([b EXCEPT !.sram = Sram], 4)), 1)
Map46_Sram(b, a, d) ==
  Map46_Set_ROM_Banks([b EXCEPT !.reg[0] = d % 16, !.reg[1] = Field(d, 4, 4)])
Map46_Write(b, a, d) ==
  Map46_Set_ROM_Banks([b EXCEPT !.reg[2] = d % 2, !.reg[3] = Field(d, 4, 3)])

-----------------------------------------------------------------------------
(* MMC3 behind an outer bank (44, 47, 49).  reg[0] is MapN_Regs[0], bank   *)
(* as in the idioms of NesBoard, bank[8] the outer bank MapN_Rom_Bank.     *)
Map44_Set_CPU_Banks(b) ==
  CpuWin(b, 0, [w \in 0..3 |-> Rom((16 * b.bank[8] + Mmc3PrgPage(b, w, 14)) % RomPages(b))])
Map44_Set_PPU_Banks(b) ==
  IF b.vrom = 0 THEN b
  ELSE InfoNES_SetupChr(PpuWin(b, 0, [w \in 0..7 |-> VRom((128 * b.bank[8] + Mmc3ChrPage(b, w)) % ChrPages(b))]))
Map44_Init(b) ==
  ClearIrq(Map44_Set_PPU_Banks(Map44_Set_CPU_Banks(
    Mmc3Defaults([b EXCEPT !.sram = Sram, !.reg[0] = 0, !.bank[8] = 0]))))
\* The bank data register ($8001).
\* Mutant: every data write moves the pattern windows.
Map44_Data_Chr(b, d) == Map44_Set_PPU_Banks(Mmc3Data(b, d))
Map44_Data(b, d) ==
  IF b.reg[0] % 8 > 5 THEN Map44_Set_CPU_Banks(Mmc3Data(b, d)) ELSE Map44_Set_PPU_Banks(Mmc3Data(b, d))
Map44_Write(b, a, d) ==
  LET port == Mmc3Port(a)
  IN  CASE port = \h8000 -> Map44_Set_CPU_Banks(Map44_Set_PPU_Banks([b EXCEPT !.reg[0] = d]))
        [] port = \h8001 -> Map44_Data(b, d)
        [] port = \hA000 -> Mmc3Mirror(b, d)
        [] port = \hA001 -> Map44_Set_PPU_Banks(Map44_Set_CPU_Banks(
                              [b EXCEPT !.bank[8] = IF d % 8 = 7 THEN 6 ELSE d % 8]))
        [] OTHER -> CloneIrq(b, port, d)
Map44_HSync(b, line, show) == CountToZero(b, line, show)

\* Map47 repeats Map44's bank functions word for word; its outer bank is
\* written through the RAM area and it has no mirroring register.
Map47_Set_CPU_Banks(b) == Map44_Set_CPU_Banks(b)
Map47_Set_PPU_Banks(b) == Map44_Set_PPU_Banks(b)
Map47_Init(b) == Map44_Init(b)
Map47_Sram(b, a, d) ==
  IF a = \h6000 THEN Map47_Set_PPU_Banks(Map47_Set_CPU_Banks([b EXCEPT !.bank[8] = d % 2])) ELSE b
Map47_Write(b, a, d) ==
  IF (a \div 8192) = 5 THEN b ELSE Map44_Write(b, a, d)
Map47_HSync(b, line, show) ==
  LET s == [b EXCEPT !.cnt = (@ - 1) % 256]
  IN  IF b.enable = 0 \/ line > 239 \/ ~show THEN b
      ELSE IF s.cnt = 0 THEN IRQ_REQ([s EXCEPT !.cnt = b.latch]) ELSE s

\* 49: reg[1] is the outer bank, writable once bit 7 of reg[2] is set.
Map49_Init(b) ==
  ClearIrq(ZeroRegs(Chr(Mmc3Defaults(FirstFour(b)), 0, 8, 0), 3))
Map49_Set_CPU_Banks(b) ==
  LET fixed == Hi((RomPages(b) - 1) % 16, 2)
      page(w) == IF On(b.reg[1], 0) THEN 16 * Field(b.reg[1], 6, 2) + (Mmc3PrgPage(b, w, fixed) % 16)
                 ELSE 4 * Field(b.reg[1], 4, 3) + w
  IN  CpuWin(b, 0, [w \in 0..3 |-> Rom(page(w) % RomPages(b))])
Map49_Set_PPU_Banks(b) ==
  LET s == [b EXCEPT !.bank = [k \in DOMAIN @ |->
                IF k < 6 THEN (@[k] % 128) + 128 * Field(b.reg[1], 6, 2) ELSE @[k]]]
  IN  InfoNES_SetupChr(PpuWin(s, 0, [w \in 0..7 |-> VRom(Mmc3ChrPage(s, w) % ChrPages(b))]))
Map49_Sram(b, a, d) ==
  IF On(b.reg[2], 7) THEN Map49_Set_PPU_Banks(Map49_Set_CPU_Banks([b EXCEPT !.reg[1] = d])) ELSE b
\* The program windows are set before the new value is in Map49_Regs[0].
Map49_Select(b, d) ==
  LET s == IF Bit(d, 6) # Bit(b.reg[0], 6) THEN Map49_Set_CPU_Banks(b) ELSE b
      t == [s EXCEPT !.reg[0] = d]
  IN  IF Bit(d, 7) # Bit(b.reg[0], 7) THEN Map49_Set_PPU_Banks(t) ELSE t
Map49_Write(b, a, d) ==
  LET port == Mmc3Port(a)
      k == b.reg[0] % 8
      s == [b EXCEPT !.bank[k] = IF k < 2 THEN Hi(d, 2) ELSE d]
  IN  CASE port = \h8000 -> Map49_Select(b, d)
        [] port = \h8001 -> IF k < 6 THEN Map49_Set_PPU_Banks(s) ELSE Map49_Set_CPU_Banks(s)
        [] port = \hA000 -> Mmc3Mirror(b, d)
        [] port = \hA001 -> [b EXCEPT !.reg[2] = d]
        [] OTHER -> CloneIrq(b, port, d)
Map49_HSync(b, line, show) == CountToZero(b, line, show)

-----------------------------------------------------------------------------
(* Irem's 48: counts up to $FF. *)
Map48_Init(b) == [FirstVRom(FirstAndLast(b)) EXCEPT !.reg[0] = 0, !.enable = 0, !.cnt = 0]
Map48_Write(b, a, d) ==
  CASE a = \h8000 -> PrgMod(IF b.reg[0] = 0 THEN MirrorIf(b, On(d, 6), 0, 1) ELSE b, 0, 1, d)
    [] a = \h8001 -> PrgMod(b, 1, 1, d)
    [] a \in {\h8002, \h8003} -> ChrMod(b, 2 * (a - \h8002), 2, 2 * d)
    [] a \in \hA000..\hA003 -> ChrMod(b, 4 + (a - \hA000), 1, 2 * d)
    [] a = \hC000 -> [b EXCEPT !.cnt = d]
    [] a = \hC001 -> [b EXCEPT !.enable = d % 2]
    [] a = \hE000 -> MirrorIf([b EXCEPT !.reg[0] = 1], On(d, 6), 0, 1)
    [] OTHER -> b
Map48_HSync(b, line, show) ==
  IF b.enable = 0 \/ line > 239 \/ ~show THEN b
  ELSE IF b.cnt = 255 THEN IRQ_REQ([b EXCEPT !.enable = 0])
  ELSE [b EXCEPT !.cnt = @ + 1]
=============================================================================
