----------------------------- MODULE NesMapper100 -----------------------------
(***************************************************************************)
(* The boards of mapper numbers 100 to 191: MMC3 clones (100, 112 to 119,  *)
(* 187, 189), the multi-game and pirate boards, Sachen's and the test      *)
(* boards.                                                                 *)
(***************************************************************************)
EXTENDS NesMapper050

Dummy == <<"DUMMY", 0>>

-----------------------------------------------------------------------------
(* 100: bank[0..7] are Map100_Chr0 to Chr7, bank[8..11] Map100_Prg0 to     *)
(* Prg3, which Map100_Init leaves alone.                                   *)
Map100_Set_CPU_Banks(b) == CpuWin(b, 0, [k \in 0..3 |-> Rom(b.bank[8 + k] % RomPages(b))])
Map100_Set_PPU_Banks(b) ==
  IF b.vrom = 0 THEN b
  ELSE InfoNES_SetupChr(PpuWin(b, 0, [k \in 0..7 |-> VRom(b.bank[k] % ChrPages(b))]))
Map100_Init(b) ==
  LET s == [FirstAndLast(b) EXCEPT !.bank = [k \in DOMAIN @ |-> IF k < 8 THEN k ELSE @[k]]]
  IN  ClearIrq([Map100_Set_PPU_Banks(IF b.vrom > 0 THEN s ELSE FirstAndLast(b)) EXCEPT !.reg[0] = 0])
Map100_Data(b, d) ==
  LET mode == And(b.reg[0], 199)
      chr(s) == IF b.vrom = 0 THEN b ELSE Map100_Set_PPU_Banks(s)
      pair(k) == chr([b EXCEPT !.bank[k] = Hi(d, 2), !.bank[k + 1] = Hi(d, 2) + 1])
      one(k) == chr([b EXCEPT !.bank[k] = d])
      prg(k) == Map100_Set_CPU_Banks([b EXCEPT !.bank[8 + k] = d])
  IN  CASE mode < 2 -> pair(2 * mode)
        [] mode \in 2..5 -> one(mode + 2)
        [] mode \in {6, 7} -> prg(mode - 6)
        [] mode \in {\h46, \h47} -> prg(mode - 68)
        [] mode \in {\h80, \h81} -> pair(4 + 2 * (mode % 2))
        [] mode \in \h82..\h85 -> one(mode - \h82)
        [] OTHER -> b
Map100_Write(b, a, d) ==
  LET port == Mmc3Port(a)
  IN  CASE port = \h8000 -> [b EXCEPT !.reg[0] = d]
        [] port = \h8001 -> Map100_Data(b, d)
        [] port = \hA000 -> Mmc3Mirror(b, d)
        [] OTHER -> CloneIrq(b, port, d)
Map100_HSync(b, line, show) == CountToZero(b, line, show)

-----------------------------------------------------------------------------
\* MapperSram is Map101_Write too.
Map101_Init(b) == FirstVRom(FirstFour(b))
Map101_Write(b, a, d) == Chr(b, 0, 8, (8 * (d % 4)) % ChrPages(b))

(* Nintendo's tournament board (105): MMC1's serial port; reg[0..3] are    *)
(* Map105_Reg, bank[0] Map105_Init_State, bank[1] and bank[2] the shift    *)
(* register and its count, cnt the IRQ counter of a frame's steps.         *)
Map105_Init(b) ==
  [FirstFour(b) EXCEPT !.reg[0] = 12, !.reg[1] = 0, !.reg[2] = 0, !.reg[3] = 16,
                       !.bank[0] = 0, !.bank[1] = 0, !.bank[2] = 0, !.cnt = 0, !.enable = 0]
Map105_Shift(b, r, d) ==
  LET bits == Or(b.bank[1], (d % 2) * 2^b.bank[2])
      empty(s) == [s EXCEPT !.bank[1] = 0, !.bank[2] = 0]
  IN  CASE On(d, 7) -> empty(IF r = 0 THEN [b EXCEPT !.reg[0] = Or(@, 12)] ELSE b)
        [] ~On(d, 7) /\ b.bank[2] = 4 -> empty([b EXCEPT !.reg[r] = bits % 32])
        [] OTHER -> [b EXCEPT !.bank[1] = bits, !.bank[2] = @ + 1]
Map105_Prg(b) ==
  LET p == 2 * (b.reg[3] % 8) + 16
      pairs(x, y) == PrgMod(PrgMod(b, 0, 2, x), 2, 2, y)
  IN  CASE ~On(b.reg[1], 3) -> PrgMod(b, 0, 4, 4 * Field(b.reg[1], 1, 2))
        [] On(b.reg[1], 3) /\ ~On(b.reg[0], 3) -> PrgMod(b, 0, 4, 4 * Field(b.reg[3], 1, 2) + 16)
        [] OTHER -> IF On(b.reg[0], 2) THEN pairs(p, 30) ELSE pairs(16, p)
Map105_Mirror(b) == MirrorBy(b, b.reg[0], <<2, 3, 1, 0>>)
Map105_Irq(b) == IF On(b.reg[1], 4) THEN [b EXCEPT !.cnt = 0, !.enable = 0] ELSE [b EXCEPT !.enable = 1]
Map105_Banks(b) == IF b.bank[0] < 2 THEN [b EXCEPT !.bank[0] = @ + 1] ELSE Map105_Irq(Map105_Prg(b))
Map105_Write(b, a, d) == Map105_Banks(Map105_Mirror(Map105_Shift(b, (a \div 8192) % 4, d)))
Map105_HSync(b, line) ==
  LET s == IF b.enable # 0 THEN [b EXCEPT !.cnt = @ + 29781] ELSE b
  IN  IF line # 0 THEN b ELSE IF Field(s.cnt, 25, 4) = 15 THEN IRQ_REQ(s) ELSE s

Map107_Init(b) == FirstVRom(FirstAndLast(b))
Map107_Write(b, a, d) ==
  LET s == PrgMod(b, 0, 4, 4 * Field(d, 1, 2))
  IN  IF b.vrom > 0 THEN ChrMod(s, 0, 8, 8 * (d % 8)) ELSE s

Map108_Init(b) == [PrgMod(b, 0, 4, 12) EXCEPT !.sram = Rom(0)]
Map108_Write(b, a, d) == [b EXCEPT !.sram = Rom(d % RomPages(b))]

-----------------------------------------------------------------------------
(* Sachen (109, 110): a register chosen at $4100, its value at $4101.      *)
Map109_Set_PPU_Banks(b) ==
  LET page(k) == CASE k = 0 -> b.bank[0] % ChrPages(b)
                   [] k \in {1, 2} -> Or(b.bank[k], 8 * Bit(b.reg[2], k - 1)) % ChrPages(b)
                   [] k = 3 -> Or(b.bank[3], Or(8 * Bit(b.reg[2], 2), 16 * b.reg[1])) % ChrPages(b)
                   [] OTHER -> ChrPages(b) - 8 + k
  IN  IF b.vrom = 0 THEN b ELSE InfoNES_SetupChr(PpuWin(b, 0, [k \in 0..7 |-> VRom(page(k))]))
Map109_Init(b) ==
  Map109_Set_PPU_Banks([ZeroRegs(FirstFour(b), 3) EXCEPT
                          !.bank = [k \in DOMAIN @ |-> IF k < 4 THEN 0 ELSE @[k]]])
Map109_Apu(b, a, d) ==
  LET r == b.reg[0]
      set == CASE r < 4 -> Map109_Set_PPU_Banks([b EXCEPT !.bank[r] = d])
               [] r = 4 -> Map109_Set_PPU_Banks([b EXCEPT !.reg[1] = d % 2])
               [] r = 5 -> PrgMod(b, 0, 4, d % 8)
               [] r = 6 -> Map109_Set_PPU_Banks([b EXCEPT !.reg[2] = d % 8])
               [] r = 7 -> MirrorIf(b, On(d, 0), 0, 1)
               [] OTHER -> b
  IN  CASE a = \h4100 -> [b EXCEPT !.reg[0] = d] [] a = \h4101 -> set [] OTHER -> b

\* reg[0] is Map110_Reg0, reg[1] Map110_Reg1.
Map110_Init(b) == [FirstVRom(FirstFour(b)) EXCEPT !.reg[0] = 0, !.reg[1] = 0]
Map110_Apu(b, a, d) ==
  LET r == b.reg[1]
      chr(v) == ChrMod([b EXCEPT !.reg[0] = v], 0, 8, 8 * v)
      set == CASE r = 5 -> PrgMod(b, 0, 4, 4 * d)
               [] r = 0 -> chr(d % 2)
               [] r = 2 -> chr(d)
               [] r \in {4, 6} -> chr(Or(b.reg[0], (2^((r \div 2) - 1) * d) % 256))
               [] OTHER -> b
  IN  CASE a = \h4100 -> [b EXCEPT !.reg[1] = d % 8] [] a = \h4101 -> set [] OTHER -> b

-----------------------------------------------------------------------------
(* MMC3 clones. *)

\* 112: the ports moved and the bank numbers rotated by two.
Map112_Set_CPU_Banks(b) == Mmc3Prg(b)
Map112_Set_PPU_Banks(b) == Mmc3Chr(b)
Map112_Init(b) == Mmc3Init(b)
Map112_Data(b, d) ==
  LET k == (b.reg[0] + 6) % 8
  IN  CASE k > 5 -> Map112_Set_CPU_Banks([b EXCEPT !.bank[k] = d])
        [] k < 6 /\ b.vrom = 0 -> b
        [] OTHER -> Map112_Set_PPU_Banks([b EXCEPT !.bank[k] = IF k < 2 THEN Hi(d, 2) ELSE d])
Map112_Write(b, a, d) ==
  LET port == Mmc3Port(a)
  IN  CASE port = \h8000 -> Mmc3Select(b, d)
        [] port = \hA000 -> Map112_Data(b, d)
        [] port = \h8001 -> IF b.four THEN b ELSE MirrorIf(b, On(d, 0), 1, 0)
        [] port = \hE000 -> MirrorIf(CloneIrq(b, port, d), d # 0, 0, 1)
        [] OTHER -> CloneIrq(b, port, d)
Map112_HSync(b, line, show) == CountToZero(b, line, show)

Map113_Init(b) == FirstVRom(FirstFour(b))
Map113_Set(b, d) ==
  LET c == IF RomPages(b) <= 8 /\ ChrPages(b) = 128 THEN 8 * Bit(d, 6) + (d % 8) ELSE d % 8
  IN  Chr(Prg(b, 0, 4, (4 * (d \div 8)) % RomPages(b)), 0, 8, (8 * c) % ChrPages(b))
Map113_Apu(b, a, d) == IF a \in {\h4100, \h4111, \h4120, \h4900} THEN Map113_Set(b, d) ELSE b
Map113_Write(b, a, d) == IF a \in {\h8008, \h8009} THEN Map113_Set(b, d) ELSE b

\* 114: a write of 0 to $6000 resets the board.
Map114_Set_CPU_Banks(b) == Mmc3Prg(b)
Map114_Set_PPU_Banks(b) == Mmc3Chr(b)
Map114_Init(b) == Mmc3Init(b)
Map114_Sram(b, a, d) == IF a = \h6000 /\ d = 0 THEN Mmc3Init(b) ELSE b
Map114_Write(b, a, d) ==
  LET port == Mmc3Port(a)
  IN  CASE port = \h8000 -> Mmc3Select(b, d)
        [] port = \h8001 -> Mmc3Bank(b, d)
        [] port = \hA000 -> Mmc3Mirror(b, d)
        [] OTHER -> CloneIrq(b, port, d)
Map114_HSync(b, line, show) == CountToZero(b, line, show)

\* 115: bank[8] is Map115_ExPrgSwitch, which overrides the program banks,
\* bank[9] Map115_ExChrSwitch.  Loading the counter enables it.
Map115_Set_CPU_Banks(b) ==
  IF On(b.bank[8], 7) THEN PrgMod(b, 0, 4, 2 * (b.bank[8] % 16)) ELSE Mmc3Prg(b)
Map115_Set_PPU_Banks(b) ==
  IF b.vrom = 0 THEN b
  ELSE InfoNES_SetupChr(PpuWin(b, 0, [w \in 0..7 |-> VRom((256 * b.bank[9] + Mmc3ChrPage(b, w)) % ChrPages(b))]))
Map115_Init(b) ==
  ClearIrq(Map115_Set_PPU_Banks(Map115_Set_CPU_Banks(
    Mmc3Defaults([b EXCEPT !.sram = Sram, !.reg[0] = 0, !.bank[8] = 0, !.bank[9] = 0]))))
Map115_Irq(b, port, d) ==
  IF port = \hC000 THEN [b EXCEPT !.cnt = d, !.enable = 1] ELSE CloneIrq(b, port, d)
Map115_Write(b, a, d) ==
  LET port == Mmc3Port(a)
      s == Mmc3Data(b, d)
  IN  CASE port = \h8000 -> Map115_Set_PPU_Banks(Map115_Set_CPU_Banks([b EXCEPT !.reg[0] = d]))
        [] port = \h8001 -> IF b.reg[0] % 8 > 5 THEN Map115_Set_CPU_Banks(s) ELSE Map115_Set_PPU_Banks(s)
        [] port = \hA000 -> Mmc3Mirror(b, d)
        [] OTHER -> Map115_Irq(b, port, d)
Map115_Sram(b, a, d) ==
  CASE a = \h6000 -> Map115_Set_CPU_Banks([b EXCEPT !.bank[8] = d])
    [] a = \h6001 -> Map115_Set_PPU_Banks([b EXCEPT !.bank[9] = d % 2])
    [] OTHER -> b
Map115_HSync(b, line, show) == CountToZero(b, line, show)

\* 116 repeats 115 without the switches (Map116_ExChrSwitch stays 0).
Map116_Set_CPU_Banks(b) == Mmc3Prg(b)
Map116_Set_PPU_Banks(b) == Mmc3Chr(b)
Map116_Init(b) == Mmc3Init(b)
Map116_Write(b, a, d) ==
  LET port == Mmc3Port(a)
  IN  CASE port = \h8000 -> Mmc3Select(b, d)
        [] port = \h8001 -> Mmc3Bank(b, d)
        [] port = \hA000 -> Mmc3Mirror(b, d)
        [] OTHER -> Map115_Irq(b, port, d)
Map116_HSync(b, line, show) == CountToZero(b, line, show)

\* 117: latch is Map117_IRQ_Line, enable Map117_IRQ_Enable1, req
\* Map117_IRQ_Enable2.
Map117_Init(b) == [FirstVRom(FirstAndLast(b)) EXCEPT !.latch = 0, !.enable = 0, !.req = 1]
Map117_Write(b, a, d) ==
  CASE a \in \h8000..\h8002 -> Prg(b, a - \h8000, 1, d % RomPages(b))
    [] a \in \hA000..\hA007 -> Chr(b, a - \hA000, 1, d % ChrPages(b))
    [] a \in \hC001..\hC003 -> [b EXCEPT !.latch = d, !.enable = d]
    [] a = \hE000 -> [b EXCEPT !.req = d % 2]
    [] OTHER -> b
Map117_HSync(b, line) ==
  IF b.enable # 0 /\ b.req # 0 /\ b.latch = line THEN IRQ_REQ([b EXCEPT !.enable = 0]) ELSE b

\* 118: the pattern bank's top bit selects the name table page.
Map118_Set_CPU_Banks(b) == Mmc3Prg(b)
Map118_Set_PPU_Banks(b) == Mmc3Chr(b)
Map118_Init(b) == Mmc3Init(b)
Map118_Write(b, a, d) ==
  LET port == Mmc3Port(a)
  IN  CASE port = \h8000 -> Mmc3Select(b, d)
        [] port = \h8001 -> Mmc3Bank(IF b.reg[0] % 8 < 6 THEN MirrorIf(b, On(d, 7), 3, 2) ELSE b, d)
        [] OTHER -> CloneIrq(b, port, d)
Map118_HSync(b, line, show) == CountToZero(b, line, show)

\* 119: pattern banks with bit 6 set are RAM.  With the halves swapped, the
\* first four are taken modulo the program ROM's pages.
Map119_Set_CPU_Banks(b) == Mmc3Prg(b)
Map119_Set_PPU_Banks(b) ==
  LET size(w) == IF On(b.reg[0], 7) /\ w < 4 THEN RomPages(b) ELSE ChrPages(b)
      page(w) == LET p == Mmc3ChrPage(b, w) IN IF On(p, 6) THEN CRam(p % 8) ELSE VRom(p % size(w))
  IN  InfoNES_SetupChr(PpuWin(b, 0, [w \in 0..7 |-> page(w)]))
Map119_Init(b) ==
  ClearIrq(Map119_Set_PPU_Banks(Map119_Set_CPU_Banks(Mmc3Defaults([b EXCEPT !.sram = Sram, !.reg[0] = 0]))))
Map119_Write(b, a, d) ==
  LET port == Mmc3Port(a)
      s == Mmc3Data(b, d)
  IN  CASE port = \h8000 -> Map119_Set_PPU_Banks(Map119_Set_CPU_Banks([b EXCEPT !.reg[0] = d]))
        [] port = \h8001 -> IF b.reg[0] % 8 > 5 THEN Map119_Set_CPU_Banks(s) ELSE Map119_Set_PPU_Banks(s)
        [] port = \hA000 -> Mmc3Mirror(b, d)
        [] port = \hE000 -> [CloneIrq(b, port, d) EXCEPT !.cnt = b.latch]
        [] OTHER -> CloneIrq(b, port, d)
Map119_HSync(b, line, show) == CountToZero(b, line, show)

-----------------------------------------------------------------------------
(* Boards with one or two latches. *)
Map122_Init(b) == FirstFour(b)
Map122_Sram(b, a, d) ==
  IF a # \h6000 THEN b
  ELSE Chr(Chr(b, 0, 4, (4 * (d % 8)) % ChrPages(b)), 4, 4, (4 * Field(d, 4, 3)) % ChrPages(b))

Map133_Init(b) == FirstVRom(FirstFour(b))
Map133_Apu(b, a, d) == IF a = \h4120 THEN Both(b, Bit(d, 2), d % 4) ELSE b

\* reg[0..2] are Map134_Cmd, Map134_Prg and Map134_Chr.
Map134_Init(b) == FirstVRom(FirstFour(b))
Map134_Apu(b, a, d) ==
  LET select == On(a, 14) /\ On(a, 8) /\ ~On(a, 0)
      data == On(a, 14) /\ On(a, 8) /\ On(a, 0)
      s == CASE select -> [b EXCEPT !.reg[0] = d % 8]
             [] data /\ b.reg[0] = 0 -> [b EXCEPT !.reg[1] = 0, !.reg[2] = 3]
             [] data /\ b.reg[0] = 4 -> [b EXCEPT !.reg[2] = (@ % 4) + 4 * (d % 8)]
             [] data /\ b.reg[0] = 5 -> [b EXCEPT !.reg[1] = d % 8]
             [] data /\ b.reg[0] = 6 -> [b EXCEPT !.reg[2] = And(@, 28) + (d % 4)]
             [] data /\ b.reg[0] = 7 -> MirrorIf(b, On(d, 0), 0, 1)
             [] OTHER -> b
  IN  Both(s, s.reg[1], s.reg[2])

\* bank[0..4] are Map135_Chr0l, Chr0h, Chr1l, Chr1h and Chrch.
Map135_Set_PPU_Banks(b) ==
  LET page(w) == 2 * (((w \div 2) % 2) + 2 * b.bank[w \div 2] + 16 * b.bank[4]) + (w % 2)
  IN  InfoNES_SetupChr(PpuWin(b, 0, [w \in 0..7 |-> VRom(page(w) % ChrPages(b))]))
Map135_Init(b) ==
  Map135_Set_PPU_Banks([FirstFour(b) EXCEPT !.reg[0] = 0,
                          !.bank = [k \in DOMAIN @ |-> IF k < 5 THEN 0 ELSE @[k]]])
Map135_Apu(b, a, d) ==
  LET r == b.reg[0]
      set == CASE r < 5 -> Map135_Set_PPU_Banks([b EXCEPT !.bank[r] = d % 8])
               [] r = 5 -> PrgMod(b, 0, 4, 4 * (d % 7))
               [] r = 7 -> MirrorBy(b, d \div 2, <<2, 0, 1, 2>>)
               [] OTHER -> b
  IN  CASE On(a, 14) /\ On(a, 8) /\ ~On(a, 0) -> [b EXCEPT !.reg[0] = d % 8]
        [] On(a, 14) /\ On(a, 8) /\ On(a, 0) -> set
        [] OTHER -> b

\* The first window masks the latch with $F0, the others take it modulo $F0.
Map140_Init(b) == FirstVRom(FirstFour(b))
Map140_Apu(b, a, d) ==
  ChrMod(CpuWin(b, 0, [k \in 0..3 |->
           Rom((IF k = 0 THEN 4 * Field(d, 4, 4) ELSE ((d % 240) \div 4) + k) % RomPages(b))]),
         0, 8, 8 * (d % 16))
Map140_Sram(b, a, d) == Map140_Apu(b, a, d)

Map151_Init(b) == FirstVRom(FirstAndLast(b))
Map151_Write(b, a, d) ==
  LET page == a \div 4096
  IN  CASE page \in {8, 10, 12} -> PrgMod(b, (page - 8) \div 2, 1, d)
        [] page \in {14, 15} -> ChrMod(b, 4 * (page - 14), 4, 4 * d)
        [] OTHER -> b

-----------------------------------------------------------------------------
(* 160: the patterns are switched on fixed lines; reg[0] is                *)
(* Map160_Refresh_Type, chosen by the last value of pattern register 0.    *)
Map160_Init(b) == ClearIrq([FirstAndLast(b) EXCEPT !.reg[0] = 0])
Map160_Type(d) ==
  CASE d = \h2B -> 1 [] d = \hA8 -> 2 [] d = \h1F -> 3 [] d = \h7C -> 4 [] d = \h18 -> 5
    [] d = \h60 -> 6 [] OTHER -> 0
Map160_Write(b, a, d) ==
  CASE a \in \h8000..\h8002 -> PrgMod(b, a - \h8000, 1, d)
    [] a = \h9000 -> ChrMod([b EXCEPT !.reg[0] = Map160_Type(d)], 0, 1, d)
    [] a = \h9002 -> ChrMod([b EXCEPT !.reg[0] = IF @ = 2 /\ d # \hE8 THEN 0 ELSE @], 2, 1, d)
    [] a \in \h9001..\h9007 \ {\h9002} -> ChrMod(b, a % 8, 1, d)
    [] a = \hC000 -> [b EXCEPT !.cnt = b.latch, !.enable = b.latch]
    [] a = \hC001 -> [b EXCEPT !.latch = d]
    [] a = \hC002 -> [b EXCEPT !.enable = 0]
    [] a = \hC003 -> [b EXCEPT !.cnt = d]
    [] OTHER -> b
\* The first page of each half that line switches in, if it does.
Map160_Refresh(b, line) ==
  LET t == b.reg[0]
      halves(x, y) == ChrMod(ChrMod(b, 0, 4, x), 4, 4, y)
  IN  CASE line \in {0, 239} /\ t = 1 -> halves(\h58, \h58)
        [] line \in {0, 239} /\ t = 2 -> halves(\h78, \h78)
        [] line \in {0, 239} /\ t = 3 -> halves(\h7C, \h7C)
        [] line \in {0, 239} /\ t = 5 -> halves(\h70, \h74)
        [] line \in {0, 239} /\ t = 6 -> halves(\h5C, \h7C)
        [] line = 64 /\ t = 4 -> ChrMod(b, 0, 4, \h6C)
        [] line = 128 /\ t = 4 -> ChrMod(b, 0, 4, \h68)
        [] line = 128 /\ t = 5 -> halves(\h74, \h74)
        [] line = 160 /\ t = 6 -> ChrMod(ChrMod(halves(\h5C, \h7C), 0, 2, \h60), 2, 2, \h5E)
        [] OTHER -> b
Map160_HSync(b, line) ==
  LET s == Map160_Refresh(b, line)
  IN  CASE s.enable = 0 -> s
        [] s.enable # 0 /\ s.cnt = 255 -> IRQ_REQ([s EXCEPT !.cnt = 0, !.enable = 0])
        [] OTHER -> [s EXCEPT !.cnt = @ + 1]

-----------------------------------------------------------------------------
Map180_Init(b) == FirstVRom(FirstFour(b))
Map180_Write(b, a, d) == Prg(b, 2, 2, (2 * (d % 8)) % RomPages(b))

Map181_Init(b) == FirstVRom(FirstFour(b))
Map181_Apu(b, a, d) == IF a = \h4120 THEN Both(b, Bit(d, 3), d % 8) ELSE b

Map182_Init(b) == [FirstVRom(FirstAndLast(b)) EXCEPT !.reg[0] = 0, !.enable = 0, !.cnt = 0]
Map182_Write(b, a, d) ==
  LET port == Hi(a, 4096) + (a % 4)
      r == b.reg[0]
  IN  CASE port = \h8001 -> MirrorIf(b, On(d, 0), 0, 1)
        [] port = \hA000 -> [b EXCEPT !.reg[0] = d % 8]
        [] port = \hC000 -> (CASE r \in {0, 2} -> ChrMod(b, r, 2, Hi(d, 2))
                               [] r \in {1, 3} -> ChrMod(b, r + 4, 1, d)
                               [] r \in {4, 5} -> PrgMod(b, r - 4, 1, d)
                               [] r \in {6, 7} -> ChrMod(b, 2 * r - 8, 1, d)
                               [] OTHER -> b)
        [] port = \hE003 -> [b EXCEPT !.cnt = d, !.enable = d]
        [] OTHER -> b
Map182_HSync(b, line, show) ==
  LET s == [b EXCEPT !.cnt = (@ - 1) % 256]
  IN  IF b.enable = 0 \/ line > 240 \/ ~show THEN b
      ELSE IF s.cnt = 0 THEN IRQ_REQ([s EXCEPT !.enable = 0]) ELSE s

\* The nibbles of pattern register 7 are merged into register 3's value.
Map183_Init(b) == [Identity(FirstVRom(FirstAndLast(b)), 8) EXCEPT !.enable = 0, !.cnt = 0]
Map183_Chr(b, k, half, d) ==
  LET v == b.reg[IF k = 7 THEN 3 ELSE k]
  IN  VrcChr([b EXCEPT !.reg[k] = v], k, half, d)
Map183_Write(b, a, d) ==
  LET page == a \div 4096
      o == a % 4096
  IN  CASE a = \h8800 -> PrgMod(b, 0, 1, d)
        [] a = \hA800 -> PrgMod(b, 1, 1, d)
        [] a = \hA000 -> PrgMod(b, 2, 1, d)
        [] page \in 11..14 /\ o \in {0, 4, 8, 12} ->
             Map183_Chr(b, 2 * (page - 11) + (o \div 8), (o \div 4) % 2, d)
        [] a = \h9008 -> IF d = 1 THEN FirstVRom([Identity(FirstAndLast(b), 8) EXCEPT !.sram = b.sram]) ELSE b
        [] a = \h9800 -> IF d < 4 THEN MirrorBy(b, d, <<1, 0, 2, 3>>) ELSE b
        [] a = \hF000 -> [b EXCEPT !.cnt = LowByte(@, d)]
        [] a = \hF004 -> [b EXCEPT !.cnt = HighByte(@, d)]
        [] a = \hF008 -> [b EXCEPT !.enable = d]
        [] OTHER -> b
Map183_HSync(b) ==
  IF ~On(b.enable, 1) THEN b
  ELSE IF b.cnt <= 113 THEN IRQ_REQ([b EXCEPT !.cnt = 0])
  ELSE [b EXCEPT !.cnt = @ - 113]

\* Copy protection (185): without the right value the patterns are blank.
Map185_Init(b) == FirstFour(b)
Map185_Write(b, a, d) ==
  IF d % 4 # 0 THEN Chr(b, 0, 8, 0) ELSE InfoNES_SetupChr(PpuWin(b, 0, [k \in 0..7 |-> Dummy]))

-----------------------------------------------------------------------------
(* 187: reg[0..7] are Map187_Chr, bank[0..7] Map187_Bank, bank[8..11]      *)
(* Map187_Prg; reg[8], reg[9] and reg[10] Map187_ExtMode, ChrMode and      *)
(* ExtEnable; req Map187_IRQ_Occur, which Map187_Init leaves alone.        *)
Map187_Set_CPU_Banks(b) == CpuWin(b, 0, [k \in 0..3 |-> Rom((4 * b.bank[8 + k] + k) % RomPages(b))])
Map187_Set_PPU_Banks(b) ==
  InfoNES_SetupChr(PpuWin(b, 0, [k \in 0..7 |-> VRom((8 * b.reg[k] + k) % ChrPages(b))]))
Map187_Init(b) ==
  ClearIrq(Map187_Set_CPU_Banks([ZeroRegs([b EXCEPT !.sram = Sram], 11) EXCEPT
    !.bank = [k \in DOMAIN @ |-> IF k < 8 THEN 0 ELSE (RomPages(b) - 12 + k) % 256]]))
Map187_Data(b, d) ==
  LET k == b.reg[9] % 8
      v == IF b.reg[10] = 0 /\ k < 2 THEN Hi(d, 2) ELSE d
      ext == CASE b.reg[9] = \h2A -> [b EXCEPT !.bank[9] = 15]
               [] b.reg[9] = \h28 -> [b EXCEPT !.bank[10] = 23]
               [] OTHER -> b
      s == CASE b.reg[10] # 0 -> Map187_Set_CPU_Banks(ext)
             [] b.reg[10] = 0 /\ k < 2 ->
                  Map187_Set_PPU_Banks([b EXCEPT !.reg[4 + 2 * k] = v + 256, !.reg[5 + 2 * k] = v + 257])
             [] b.reg[10] = 0 /\ k \in 2..5 -> Map187_Set_PPU_Banks([b EXCEPT !.reg[k - 2] = d])
             [] OTHER -> IF On(b.reg[8], 7) /\ On(b.reg[8], 5) THEN b
                         ELSE Map187_Set_CPU_Banks([b EXCEPT !.bank[2 + k] = d])
  IN  [s EXCEPT !.bank[k] = v]
Map187_Write(b, a, d) ==
  LET mode == [b EXCEPT !.reg[10] = 255, !.reg[9] = d]
  IN  CASE a = \h8003 -> IF d < 16 THEN Map187_Set_CPU_Banks([mode EXCEPT !.bank[10] = (RomPages(b) - 2) % 256])
                         ELSE mode
        [] a = \h8000 -> [b EXCEPT !.reg[10] = 0, !.reg[9] = d]
        [] a = \h8001 -> Map187_Data(b, d)
        [] a = \hA000 -> MirrorIf(b, On(d, 0), 0, 1)
        [] a = \hC000 -> [b EXCEPT !.cnt = d, !.req = 0]
        [] a = \hC001 -> [b EXCEPT !.latch = d, !.req = 0]
        [] a \in {\hE000, \hE002} -> [b EXCEPT !.enable = 0, !.req = 0]
        [] a \in {\hE001, \hE003} -> [b EXCEPT !.enable = 1, !.req = 0]
        [] OTHER -> b
Map187_Apu(b, a, d) ==
  LET prg(s, k, v) == [s EXCEPT !.bank[8 + k] = v % 256]
      s == [b EXCEPT !.reg[8] = d]
      four == [s EXCEPT !.bank = [k \in DOMAIN @ |-> IF k < 8 THEN @[k] ELSE 4 * Field(d, 1, 4) + k - 8]]
      two == prg(prg(s, 2, 2 * (d % 32)), 3, 2 * (d % 32) + 1)
      off == prg(prg(prg(prg(s, 0, b.bank[6]), 1, b.bank[7]), 2, RomPages(b) - 2), 3, RomPages(b) - 1)
  IN  IF a # \h5000 THEN b
      ELSE Map187_Set_CPU_Banks(IF ~On(d, 7) THEN off ELSE IF On(d, 5) THEN four ELSE two)
Map187_HSync(b, line, show) ==
  LET s == IF line > 239 \/ ~show \/ b.enable = 0 THEN b
           ELSE [b EXCEPT !.cnt = (@ - 1) % 256,
                          !.enable = IF b.cnt = 0 THEN 0 ELSE @, !.req = IF b.cnt = 0 THEN 1 ELSE @]
  IN  IF s.req # 0 THEN IRQ_REQ(s) ELSE s

-----------------------------------------------------------------------------
Map188_Init(b) ==
  [(IF RomPages(b) > 16 THEN Banks(b, <<0, 1, 14, 15>>) ELSE FirstAndLast(b)) EXCEPT !.sram = Dummy]
Map188_Write(b, a, d) ==
  CASE d = 0 -> Prg(b, 0, 2, IF RomPages(b) = 16 THEN 14 ELSE 16)
    [] d # 0 /\ On(d, 4) -> PrgMod(b, 0, 2, 2 * (d % 8))
    [] OTHER -> PrgMod(b, 0, 2, ((2 * d) % 256) + 16)

Map189_Init(b) == ClearIrq(FirstVRom(FirstAndLast(b)))
Map189_Apu(b, a, d) == IF a \in \h4100..\h41FF THEN PrgMod(b, 0, 4, 4 * Field(d, 4, 2)) ELSE b
Map189_Write(b, a, d) ==
  LET r == b.reg[0] - 64
      data == CASE r \in {0, 1} -> ChrMod(b, 2 * r, 2, d)
                [] r \in 2..5 -> ChrMod(b, r + 2, 1, d)
                [] r = 6 -> PrgMod(b, 2, 1, d)
                [] r = 7 -> PrgMod(b, 1, 1, d)
                [] OTHER -> b
  IN  CASE a = \h8000 -> [b EXCEPT !.reg[0] = d]
        [] a = \h8001 -> data
        [] OTHER -> CloneIrq(b, a, d)
Map189_HSync(b, line, show) == Map47_HSync(b, line, show)

\* bank[0..3] are Map191_Chr0 to Chr3, bank[4] Map191_Highbank, bank[5]
\* Map191_Prg0.
Map191_Set_CPU_Banks(b) == PrgMod(b, 0, 4, 4 * b.bank[5])
Map191_Set_PPU_Banks(b) ==
  IF b.vrom = 0 THEN b
  ELSE InfoNES_SetupChr(PpuWin(b, 0, [w \in 0..7 |->
         VRom((4 * (8 * b.bank[4] + b.bank[w \div 2]) + (w % 4)) % ChrPages(b))]))
Map191_Init(b) ==
  Map191_Set_PPU_Banks(Map191_Set_CPU_Banks(
    [b EXCEPT !.sram = Sram, !.reg[0] = 0, !.bank = [k \in DOMAIN @ |-> IF k < 6 THEN 0 ELSE @[k]]]))
Map191_Apu(b, a, d) ==
  LET r == b.reg[0]
      set == CASE r < 5 -> Map191_Set_PPU_Banks([b EXCEPT !.bank[r] = d % 8])
               [] r = 5 -> Map191_Set_CPU_Banks([b EXCEPT !.bank[5] = d % 8])
               [] r = 7 -> MirrorIf(b, On(d, 1), 0, 1)
               [] OTHER -> b
  IN  CASE a = \h4100 -> [b EXCEPT !.reg[0] = d] [] a = \h4101 -> set [] OTHER -> b
=============================================================================
