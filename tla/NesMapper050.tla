----------------------------- MODULE NesMapper050 -----------------------------
(***************************************************************************)
(* The boards of mapper numbers 50 to 99: multi-game boards, Tengen's      *)
(* RAMBO-1, Irem's, Sunsoft's, Konami's VRC1, VRC3 and VRC7, Namco's       *)
(* later chips, Taito's X1, J.Y. Company's and Nintendo's Vs. boards.      *)
(***************************************************************************)
EXTENDS NesMapper019

\* 32 KB program bank p and 8 KB pattern bank c.
Both(b, p, c) == ChrMod(PrgMod(b, 0, 4, 4 * p), 0, 8, 8 * c)
\* 16 KB of ROM from page p, seen twice.
Twice(b, p) == CpuWin(b, 0, [k \in 0..3 |-> Rom((p + (k % 2)) % RomPages(b))])

-----------------------------------------------------------------------------
Map50_Init(b) ==
  LET s == CpuWin(b, 0, [k \in 0..3 |-> Rom(<<8, 9, 0, 11>>[k + 1] % RomPages(b))])
  IN  [FirstVRom([s EXCEPT !.sram = Rom(15 % RomPages(b))]) EXCEPT !.enable = 0]
Map50_Apu(b, a, d) ==
  CASE Field(a, 13, 3) # 2 \/ Field(a, 5, 2) # 1 -> b
    [] Field(a, 13, 3) = 2 /\ Field(a, 5, 2) = 1 /\ On(a, 8) -> [b EXCEPT !.enable = d % 2]
    [] OTHER -> PrgMod(b, 2, 1, And(d, 8) + 4 * (d % 2) + Field(d, 1, 2))
Map50_HSync(b, line) == IF b.enable # 0 /\ line = 21 THEN IRQ_REQ(b) ELSE b

\* reg[0] is Map51_Mode, reg[1] Map51_Bank.
Map51_Set_CPU_Banks(b) ==
  LET mode == b.reg[0]
      page(x) == Rom(Or(b.reg[1], x) % RomPages(b))
      high == CASE mode = 0 -> 12 [] mode = 2 -> 14 [] OTHER -> 0
      s == CpuWin(b, 0, [k \in 0..3 |->
             page(Or(IF k < 2 THEN (IF mode = 2 THEN 2 ELSE 0) ELSE high, k))])
  IN  [InfoNES_Mirroring(s, IF mode = 3 THEN 0 ELSE 1)
         EXCEPT !.sram = page(CASE mode = 0 -> 47 [] mode = 2 -> 47 [] OTHER -> 35)]
Map51_Init(b) == ChrCRam(Map51_Set_CPU_Banks([b EXCEPT !.reg[0] = 1, !.reg[1] = 0]), 0, 8, 0)
Map51_Write(b, a, d) ==
  Map51_Set_CPU_Banks(
    [b EXCEPT !.reg[1] = 4 * (d % 16),
              !.reg[0] = IF a \in \hC000..\hDFFF THEN (@ % 2) + 2 * Bit(d, 4) ELSE @])
Map51_Sram(b, a, d) ==
  IF a >= \h6000 THEN Map51_Set_CPU_Banks([b EXCEPT !.reg[0] = 2 * Bit(d, 4) + Bit(d, 1)]) ELSE b

Map57_Init(b) == [FirstVRom(Banks(b, <<0, 1, 0, 1>>)) EXCEPT !.reg[0] = 0]
Map57_Write(b, a, d) ==
  LET prg == IF On(d, 7) THEN PrgMod(b, 0, 4, 4 * Bit(d, 6) + 8) ELSE Twice(b, 2 * Field(d, 5, 2))
  IN  CASE a \in \h8000..\h8003 /\ On(d, 6) ->
             ChrMod(b, 0, 8, 8 * ((d % 4) + 8 * Bit(b.reg[0], 4) + (b.reg[0] % 8)))
        [] a = \h8800 -> MirrorIf(ChrMod([prg EXCEPT !.reg[0] = d], 0, 8, 8 * ((d % 8) + 8 * Bit(d, 4))),
                                  On(d, 3), 0, 1)
        [] OTHER -> b

Map58_Init(b) == FirstVRom(Banks(b, <<0, 1, 0, 1>>))
Map58_Write(b, a, d) ==
  LET s == IF On(a, 6) THEN Twice(b, 2 * (a % 8)) ELSE PrgMod(b, 0, 4, 4 * Field(a, 1, 2))
      t == IF b.vrom > 0 THEN ChrMod(s, 0, 8, 8 * Field(a, 3, 3)) ELSE s
  IN  MirrorIf(t, On(d, 1), 1, 0)

Map60_Init(b) == FirstVRom(FirstFour(b))
Map60_Write(b, a, d) ==
  LET p == 2 * Field(a, 4, 3)
  IN  MirrorIf(ChrMod(IF On(a, 7) THEN Twice(b, p) ELSE PrgMod(b, 0, 4, p), 0, 8, 8 * (a % 8)),
               On(d, 3), 0, 1)

Map61_Init(b) == FirstAndLast(b)
Map61_Write(b, a, d) ==
  MirrorIf(IF Field(a, 4, 2) \in {0, 3} THEN PrgMod(b, 0, 4, 4 * (a % 16))
           ELSE Twice(b, 4 * Or(a % 16, Bit(a, 5))),
           On(a, 7), 0, 1)

Map62_Init(b) == FirstVRom(FirstFour(b))
Map62_Write(b, a, d) ==
  LET port == a \div 256
  IN  CASE port = \h81 -> PrgMod(b, 0, 2, d)
        [] port = \h85 -> PrgMod(b, 0, 1, d)
        [] port = \h87 -> PrgMod(b, 1, 1, d)
        [] OTHER -> ChrMod(b, 0, 8, d)

-----------------------------------------------------------------------------
(* Tengen (64): reg[0] is Map64_Cmd, reg[1] Map64_Prg, reg[2] Map64_Chr.   *)
Map64_Init(b) ==
  [FirstVRom(Banks(b, [k \in 1..4 |-> Last(b, 0)])) EXCEPT !.reg[0] = 0, !.reg[1] = 0, !.reg[2] = 0]
Map64_Write(b, a, d) ==
  LET cmd == b.reg[0]
      swap(w) == IF b.reg[2] # 0 THEN (w + 4) % 8 ELSE w
      chr(w, n) == Chr(b, w, n, d % ChrPages(b))
      prg(w) == Prg(b, w, 1, d % RomPages(b))
      by(yes, no) == IF b.reg[1] # 0 THEN yes ELSE no
  IN  CASE a = \h8000 -> [b EXCEPT !.reg[0] = d % 16, !.reg[1] = Bit(d, 6), !.reg[2] = Bit(d, 7)]
        [] a = \h8001 -> (CASE cmd < 2 -> chr(swap(2 * cmd), 2)
                            [] cmd \in 2..5 -> chr(swap(cmd + 2), 1)
                            [] cmd = 6 -> prg(by(1, 0))
                            [] cmd = 7 -> prg(by(2, 1))
                            [] cmd \in {8, 9} -> chr(2 * cmd - 15, 1)
                            [] cmd = 15 -> prg(by(0, 2))
                            [] OTHER -> b)
        [] a \div 4096 = 10 -> InfoNES_Mirroring(b, d % 2)
        [] OTHER -> b

-----------------------------------------------------------------------------
(* Irem H3001 (65), GNROM (66), Sunsoft 3, 4 and FME-7 (67, 68, 69).       *)
Map65_Init(b) == FirstVRom(FirstAndLast(b))
Map65_Write(b, a, d) ==
  CASE a \in {\h8000, \hA000, \hC000} -> PrgMod(b, (a \div 8192) - 4, 1, d)
    [] a = \h9000 -> MirrorIf(b, On(d, 6), 1, 0)
    [] a = \h9003 -> [b EXCEPT !.enable = And(d, 128)]
    [] a = \h9004 -> [b EXCEPT !.cnt = b.latch]
    [] a = \h9005 -> [b EXCEPT !.latch = HighByte(@, d)]
    [] a = \h9006 -> [b EXCEPT !.latch = LowByte(@, d)]
    [] a \in \hB000..\hB007 -> ChrMod(b, a % 8, 1, d)
    [] OTHER -> b
Map65_HSync(b) ==
  IF b.enable = 0 THEN b
  ELSE IF b.cnt <= 113 THEN IRQ_REQ([b EXCEPT !.enable = 0, !.cnt = 65535])
  ELSE [b EXCEPT !.cnt = @ - 113]

\* MapperSram is Map66_Write too.
Map66_Init(b) == FirstVRom(FirstFour(b))
Map66_Write(b, a, d) ==
  Chr(Prg(b, 0, 4, 2 * ((2 * Field(d, 4, 4)) % b.rom)), 0, 8, (8 * (d % 16)) % ChrPages(b))

Map67_Init(b) ==
  LET s == PpuWin(FirstAndLast(b), 0, [k \in 0..7 |-> VRom(IF k < 4 THEN k ELSE ChrPages(b) - 8 + k)])
  IN  ClearIrq(InfoNES_SetupChr(s))
Map67_Write(b, a, d) ==
  LET port == (a \div 2048) - 16
      v == (2 * d) % 256
  IN  CASE port \in {1, 3, 5, 7} -> Chr(b, port - 1, 2, v % ChrPages(b))
        [] port = 9 -> [b EXCEPT !.cnt = b.latch, !.latch = d]
        [] port = 11 -> [b EXCEPT !.enable = And(d, 16)]
        [] port = 13 -> MirrorBy(b, d, <<1, 0, 3, 2>>)
        [] port = 15 -> Prg(b, 0, 2, v % RomPages(b))
        [] OTHER -> b
Map67_HSync(b, line, show) ==
  LET s == [b EXCEPT !.cnt = (@ - 1) % 256]
  IN  IF b.enable = 0 \/ line > 239 \/ ~show THEN b
      ELSE IF s.cnt = 246 THEN IRQ_REQ([s EXCEPT !.cnt = b.latch]) ELSE s

\* Name tables in VROM: reg[0] says so, reg[1] is the mirroring, reg[2] and
\* reg[3] the two pages.
Map68_SyncMirror(b) ==
  LET r == << <<2, 3, 2, 3>>, <<2, 2, 3, 3>>, <<2, 2, 2, 2>>, <<3, 3, 3, 3>> >>[b.reg[1] + 1]
  IN  IF b.reg[0] # 0
        THEN InfoNES_SetupChr(PpuWin(b, 8, [k \in 0..3 |-> VRom(b.reg[r[k + 1]] + 128)]))
        ELSE InfoNES_Mirroring(b, b.reg[1])
Map68_Init(b) == ZeroRegs(FirstAndLast(b), 4)
Map68_Write(b, a, d) ==
  CASE a \in {\h8000, \h9000, \hA000, \hB000} ->
         Chr(b, 2 * ((a \div 4096) - 8), 2, (2 * (d % (4 * b.vrom))) % 256)
    [] a \in {\hC000, \hD000} -> Map68_SyncMirror([b EXCEPT !.reg[(a \div 4096) - 10] = d])
    [] a = \hE000 -> Map68_SyncMirror([b EXCEPT !.reg[0] = Bit(d, 4), !.reg[1] = d % 4])
    [] a = \hF000 -> Prg(b, 0, 2, (2 * (d % b.rom)) % 256)
    [] OTHER -> b

Map69_Init(b) == [FirstVRom(FirstAndLast(b)) EXCEPT !.enable = 0, !.cnt = 0]
Map69_Write(b, a, d) ==
  LET r == b.reg[0]
  IN  CASE a = \h8000 -> [b EXCEPT !.reg[0] = d % 16]
        [] a = \hA000 -> (CASE r < 8 -> Chr(b, r, 1, d % ChrPages(b))
                            [] r \in 9..11 -> Prg(b, r - 9, 1, d % RomPages(b))
                            [] r = 12 -> MirrorBy(b, d, <<1, 0, 3, 2>>)
                            [] r = 13 -> [b EXCEPT !.enable = d]
                            [] r = 14 -> [b EXCEPT !.cnt = LowByte(@, d)]
                            [] r = 15 -> [b EXCEPT !.cnt = HighByte(@, d)]
                            [] OTHER -> b)
        [] OTHER -> b
Map69_HSync(b) ==
  IF b.enable = 0 THEN b
  ELSE IF b.cnt <= 113 THEN IRQ_REQ([b EXCEPT !.cnt = 0])
  ELSE [b EXCEPT !.cnt = @ - 113]

-----------------------------------------------------------------------------
(* One-latch boards of Bandai, Camerica, Jaleco and Irem; VRC3 (73).       *)
Map70_Init(b) == FirstAndLast(b)
Map70_Write(b, a, d) ==
  MirrorIf(Chr(Prg(b, 0, 2, (2 * Field(d, 4, 3)) % RomPages(b)), 0, 8, (8 * (d % 16)) % ChrPages(b)),
           On(d, 7), 2, 3)

Map71_Init(b) == FirstAndLast(b)
Map71_Write(b, a, d) ==
  CASE a \div 4096 = 9 -> MirrorIf(b, On(d, 4), 2, 3)
    [] a \div 4096 \in 12..15 -> PrgMod(b, 0, 2, 2 * d)
    [] OTHER -> b

Map72_Init(b) == FirstVRom(FirstAndLast(b))
Map72_Write(b, a, d) ==
  IF On(d, 7) THEN Prg(b, 0, 2, (2 * (d % 16)) % RomPages(b))
  ELSE IF On(d, 6) THEN Chr(b, 0, 8, (8 * (d % 16)) % ChrPages(b)) ELSE b

Map73_Init(b) == [FirstAndLast(b) EXCEPT !.enable = 0, !.cnt = 0]
Map73_Write(b, a, d) ==
  LET k == (a \div 4096) - 8
  IN  CASE a \in {\h8000, \h9000, \hA000, \hB000} ->
             [b EXCEPT !.cnt = @ + ((d % 16) - Field(@, 4 * k, 4)) * 16^k]
        [] a = \hC000 -> [b EXCEPT !.enable = d]
        [] a = \hF000 -> Prg(b, 0, 2, ((2 * d) % 256) % RomPages(b))
        [] OTHER -> b
Map73_HSync(b) ==
  IF ~On(b.enable, 1) THEN b
  ELSE IF b.cnt + 113 > 65535 THEN IRQ_REQ([b EXCEPT !.cnt = (@ + 113) % 65536, !.enable = 0])
  ELSE [b EXCEPT !.cnt = @ + 113]

-----------------------------------------------------------------------------
(* 74 repeats mapper 4 word for word (with writable VROM). *)
Map74_Set_CPU_Banks(b) == Map4_Set_CPU_Banks(b)
Map74_Set_PPU_Banks(b) == Map4_Set_PPU_Banks(b)
Map74_Init(b) == Map4_Init(b)
Map74_Write(b, a, d, line) == Map4_Write(b, a, d, line)
Map74_HSync(b, line, show) == Map4_HSync(b, line, show)

Map75_Init(b) == [FirstVRom(FirstAndLast(b)) EXCEPT !.reg[0] = 0, !.reg[1] = 1]
Map75_Write(b, a, d) ==
  LET page == a \div 4096
      show(s, h) == Chr(s, 4 * h, 4, 4 * s.reg[h])
      high(s) == [s EXCEPT !.reg[0] = (@ % 16) + 16 * Bit(d, 1), !.reg[1] = (@ % 16) + 16 * Bit(d, 2)]
  IN  CASE page \in {8, 10, 12} -> Prg(b, (page - 8) \div 2, 1, d % RomPages(b))
        [] page = 9 -> show(show(high(MirrorIf(b, On(d, 0), 0, 1)), 0), 1)
        [] page \in {14, 15} -> show([b EXCEPT !.reg[page - 14] = And(@, 16) + (d % 16)], page - 14)
        [] OTHER -> b

Map76_Init(b) == FirstVRom(FirstAndLast(b))
Map76_Write(b, a, d) ==
  LET r == b.reg[0] % 8
  IN  CASE a = \h8000 -> [b EXCEPT !.reg[0] = d]
        [] a = \h8001 /\ r \in 2..5 -> Chr(b, 2 * (r - 2), 2, ((2 * d) % 256) % ChrPages(b))
        [] a = \h8001 /\ r \in 6..7 -> Prg(b, r - 6, 1, d % RomPages(b))
        [] OTHER -> b

Map77_Init(b) == FirstFour(b)
Map77_Write(b, a, d) ==
  Chr(Prg(b, 0, 4, (4 * (d % 8)) % RomPages(b)), 0, 2, (2 * Field(d, 4, 4)) % ChrPages(b))

Map78_Init(b) == FirstVRom(FirstAndLast(b))
Map78_Write(b, a, d) ==
  LET s == Chr(Prg(b, 0, 2, (2 * (d % 16)) % RomPages(b)), 0, 8, (8 * Field(d, 4, 4)) % ChrPages(b))
  IN  IF a >= \hFE00 THEN s ELSE MirrorIf(s, On(d, 3), 2, 3)

Map79_Init(b) == FirstVRom(FirstFour(b))
Map79_Apu(b, a, d) ==
  Chr(Prg(b, 0, 4, (4 * Bit(d, 3)) % RomPages(b)), 0, 8, (8 * (d % 8)) % ChrPages(b))

-----------------------------------------------------------------------------
(* Taito X1-005 (80) and X1-017 (82): registers in the RAM area.  The      *)
(* mirroring register falls through into the first program bank's.         *)
Map80_Init(b) == FirstVRom(FirstAndLast(b))
Map80_Sram(b, a, d) ==
  LET r == a - \h7EF0
      prg(s, w) == Prg(s, w, 1, d % RomPages(b))
  IN  CASE r \in {0, 1} -> Chr(b, 2 * r, 2, (d % 128) % ChrPages(b))
        [] r \in 2..5 -> Chr(b, r + 2, 1, d % ChrPages(b))
        [] r = 6 -> prg(MirrorIf(b, On(d, 0), 1, 0), 0)
        [] r \in 10..15 -> prg(b, (r - 10) \div 2)
        [] OTHER -> b

Map82_Init(b) == InfoNES_Mirroring(FirstVRom(FirstAndLast(b)), 1)
Map82_Sram(b, a, d) ==
  LET r == a - \h7EF0
      swap(w) == IF b.reg[0] # 0 THEN (w + 4) % 8 ELSE w
      prg(s, w) == Prg(s, w, 1, (d \div 4) % RomPages(b))
  IN  CASE r \in {0, 1} -> Chr(b, swap(2 * r), 2, Hi(d, 2) % ChrPages(b))
        [] r \in 2..5 -> Chr(b, swap(r + 2), 1, d % ChrPages(b))
        [] r = 6 -> prg(MirrorIf([b EXCEPT !.reg[0] = And(d, 2)], On(d, 0), 1, 0), 0)
        [] r \in 10..12 -> prg(b, r - 10)
        [] OTHER -> b

-----------------------------------------------------------------------------
(* 83: reg[0..2] are Map83_Regs, bank[0] Map83_Chr_Bank.                   *)
Map83_Init(b) ==
  LET big == RomPages(b) >= 32
      s == FirstVRom(IF big THEN Banks(b, <<0, 1, 30, 31>>) ELSE FirstAndLast(b))
  IN  [s EXCEPT !.reg[0] = 0, !.reg[1] = IF big THEN 48 ELSE 0, !.reg[2] = 0,
                !.enable = 0, !.cnt = 0, !.bank[0] = 0]
Map83_Apu(b, a, d) == IF a \in \h5101..\h5103 THEN [b EXCEPT !.reg[2] = d] ELSE b
\* Pattern register k: one window or, in the 2 KB modes, a pair.
Map83_Chr(b, k, d) ==
  LET page == b.bank[0] + d
      mode == Field(b.reg[1], 4, 2)
  IN  CASE mode = 3 -> ChrMod(b, k, 1, page)
        [] mode \in {1, 2} -> ChrMod(b, <<0, 2, 4, 6, 4, 6, 4, 6>>[k + 1], 2, 2 * page)
        [] OTHER -> b
Map83_Write(b, a, d) ==
  CASE a \in {\h8000, \hB000, \hB0FF, \hB1FF} ->
         PrgMod(PrgMod([b EXCEPT !.reg[0] = d, !.bank[0] = 256 * Field(d, 4, 2)], 0, 2, 2 * d),
                2, 2, 2 * (16 * Field(d, 4, 2) + 15))
    [] a = \h8100 -> MirrorBy([b EXCEPT !.reg[1] = IF b.vrom <= 32 THEN d ELSE @], d, <<1, 0, 3, 2>>)
    [] a = \h8200 -> [b EXCEPT !.cnt = LowByte(@, d)]
    [] a = \h8201 -> [b EXCEPT !.cnt = HighByte(@, d), !.enable = d]
    [] a \in \h8300..\h8302 -> PrgMod(b, a - \h8300, 1, d)
    [] a \in \h8310..\h8317 -> Map83_Chr(b, a % 8, d)
    [] a = \h8318 -> PrgMod(b, 0, 2, 2 * Or(And(b.reg[0], 48), d))
    [] OTHER -> b
Map83_HSync(b) ==
  IF b.enable = 0 THEN b
  ELSE IF b.cnt <= 114 THEN IRQ_REQ([b EXCEPT !.enable = 0])
  ELSE [b EXCEPT !.cnt = @ - 114]

-----------------------------------------------------------------------------
(* VRC7 (85): the pattern pages are RAM on the board. *)
Map85_Init(b) ==
  ClearIrq([InfoNES_SetupChr(PpuWin(FirstAndLast(b), 0, [k \in 0..7 |-> ChrRam(0)])) EXCEPT !.reg[0] = 0])
Map85_Write(b, a, d) ==
  LET port == Hi(a, 4096) + And(a % 256, 48)
      page == a \div 4096
      chr(w) == InfoNES_SetupChr([b EXCEPT !.ppu[w] = ChrRam(d)])
      prg(w) == Prg(b, w, 1, d % RomPages(b))
  IN  CASE port = \h8000 -> prg(0)
        [] port = \h8010 -> prg(1)
        [] port = \h9000 -> prg(2)
        [] port \in {\h9010, \h9030} -> chr(0)
        [] page \in 10..13 /\ port % 4096 \in {0, 16} -> chr(2 * (page - 10) + (port % 4096) \div 16)
        [] port = \hE000 -> MirrorBy(b, d, <<1, 0, 3, 2>>)
        [] port = \hE010 -> [b EXCEPT !.latch = 255 - d]
        [] port = \hF000 -> [b EXCEPT !.reg[0] = d % 2, !.enable = Bit(d, 1), !.cnt = b.latch]
        [] port = \hF010 -> [b EXCEPT !.enable = b.reg[0], !.cnt = b.latch]
        [] OTHER -> b
Map85_HSync(b) ==
  IF b.enable = 0 THEN b
  ELSE IF b.cnt = 0 THEN IRQ_REQ([b EXCEPT !.enable = 0])
  ELSE [b EXCEPT !.cnt = @ - 1]

-----------------------------------------------------------------------------
(* Jaleco (86, 87, 92), Namco (88), Sunsoft (89, 93), Capcom (94).         *)
Map86_Init(b) == FirstVRom(FirstFour(b))
Map86_Sram(b, a, d) ==
  IF a # \h6000 THEN b
  ELSE Chr(Prg(b, 0, 4, (4 * Field(d, 4, 2)) % RomPages(b)), 0, 8,
           (8 * ((d % 4) + 4 * Bit(d, 6))) % ChrPages(b))

Map87_Init(b) == FirstVRom(FirstFour(b))
Map87_Sram(b, a, d) == IF a = \h6000 THEN Chr(b, 0, 8, (8 * Bit(d, 1)) % ChrPages(b)) ELSE b

Map88_Init(b) == FirstVRom(FirstAndLast(b))
Map88_Write(b, a, d) ==
  LET r == b.reg[0] % 8
  IN  CASE a = \h8000 -> [b EXCEPT !.reg[0] = d]
        [] a = \h8001 -> (CASE r < 2 -> ChrMod(b, 2 * r, 2, Hi(d, 2))
                            [] r \in 2..5 -> ChrMod(b, r + 2, 1, d + 64)
                            [] OTHER -> PrgMod(b, r - 6, 1, d))
        [] a = \hC000 -> MirrorIf(b, d # 0, 2, 3)
        [] OTHER -> b

Map89_Init(b) == FirstVRom(FirstAndLast(b))
Map89_Write(b, a, d) ==
  IF a \div 256 # \hC0 THEN b
  ELSE MirrorIf(ChrMod(PrgMod(b, 0, 2, 2 * Field(d, 4, 3)), 0, 8, 8 * (8 * Bit(d, 7) + (d % 8))),
                On(d, 3), 2, 3)

Map92_Init(b) == FirstVRom(FirstAndLast(b))
Map92_Write(b, a, d) ==
  LET v == a % 256
      cmd == v \div 16
      high == a >= \h9000
  IN  CASE cmd = (IF high THEN 13 ELSE 11) -> Prg(b, 2, 2, (2 * (v % 16)) % RomPages(b))
        [] cmd = (IF high THEN 14 ELSE 7) -> Chr(b, 0, 8, (8 * (v % 16)) % ChrPages(b))
        [] OTHER -> b

Map93_Init(b) == FirstVRom(FirstAndLast(b))
Map93_Sram(b, a, d) == IF a = \h6000 THEN Prg(b, 0, 2, ((2 * d) % 256) % RomPages(b)) ELSE b

Map94_Init(b) == FirstAndLast(b)
Map94_Write(b, a, d) ==
  IF a \in \hFF00..\hFF0F THEN Prg(b, 0, 2, (2 * Field(d, 2, 3)) % RomPages(b)) ELSE b

-----------------------------------------------------------------------------
(* J.Y. Company (90): reg[0..3] are Map90_Prg_Reg, reg[4..11] and          *)
(* reg[12..19] Map90_Chr_Low_Reg and _High_Reg, reg[20..23] and            *)
(* reg[24..27] Map90_Nam_Low_Reg and _High_Reg, reg[28] and reg[29] the    *)
(* sizes of the program and pattern banks; bank[0..3] are                  *)
(* Map90_Prg_Bank_6000, Map90_Prg_Bank_E000, Map90_Mirror_Mode and         *)
(* Map90_Mirror_Type.  The multiplier is left out.                         *)
Map90_Sync_Mirror(b) ==
  LET name(k) == 256 * b.reg[24 + k] + b.reg[20 + k]
      mode == b.bank[2] # 0 /\ \A k \in 0..3 : name(k) # k
  IN  CASE b.bank[2] = 0 -> InfoNES_Mirroring(b, <<1, 0, 3, 3>>[b.bank[3] + 1])
        [] b.bank[2] # 0 /\ ~mode -> [b EXCEPT !.bank[2] = 0]
        [] OTHER -> PpuWin(b, 8, [k \in 0..3 |-> VRom(name(k) % ChrPages(b))])
Map90_Sync_Chr_Banks(b) ==
  LET n == 2^(3 - b.reg[29])
      bank(w) == 256 * b.reg[12 + Hi(w, n)] + b.reg[4 + Hi(w, n)]
  IN  InfoNES_SetupChr(PpuWin(b, 0, [w \in 0..7 |-> VRom((n * bank(w) + (w % n)) % ChrPages(b))]))
Map90_Sync_Prg_Banks(b) ==
  LET regs(s, n) == CpuWin(s, 0, [k \in 0..(n - 1) |-> Rom(b.reg[k] % RomPages(b))])
      last(s, n) == Prg(s, 4 - n, n, Last(b, n - 1))
  IN  CASE b.reg[28] = 0 -> last(b, 4)
        [] b.reg[28] = 1 -> last(PrgMod(b, 0, 2, 2 * b.reg[1]), 2)
        [] b.reg[28] = 2 /\ b.bank[1] # 0 -> regs(b, 4)
        [] b.reg[28] = 2 /\ b.bank[1] = 0 ->
             last(regs(IF b.bank[0] # 0 THEN [b EXCEPT !.sram = Rom(b.reg[3] % RomPages(b))] ELSE b, 3), 1)
        [] OTHER -> CpuWin(b, 0, [k \in 0..3 |-> Rom(b.reg[3 - k] % RomPages(b))])
Map90_Init(b) ==
  ClearIrq([FirstVRom(Banks(b, [k \in 1..4 |-> Last(b, 4 - k)])) EXCEPT
     !.reg = [k \in DOMAIN @ |-> CASE k < 4 -> (RomPages(b) - 4 + k) % 256
                                   [] k \in 4..11 -> k - 4
                                   [] k \in 12..27 -> 0
                                   [] OTHER -> @[k]]])
Map90_Mode(b, d) ==
  Map90_Sync_Mirror(Map90_Sync_Chr_Banks(Map90_Sync_Prg_Banks(
    [b EXCEPT !.bank[0] = And(d, 128), !.bank[1] = And(d, 4), !.bank[2] = And(d, 32),
              !.reg[28] = d % 4, !.reg[29] = Field(d, 3, 2)])))
Map90_Write(b, a, d) ==
  CASE a \in \h8000..\h8003 -> Map90_Sync_Prg_Banks([b EXCEPT !.reg[a % 4] = d])
    [] a \in \h9000..\h9007 -> Map90_Sync_Chr_Banks([b EXCEPT !.reg[4 + (a % 8)] = d])
    [] a \in \hA000..\hA007 -> Map90_Sync_Chr_Banks([b EXCEPT !.reg[12 + (a % 8)] = d])
    [] a \in \hB000..\hB003 -> Map90_Sync_Mirror([b EXCEPT !.reg[20 + (a % 4)] = d])
    [] a \in \hB004..\hB007 -> Map90_Sync_Mirror([b EXCEPT !.reg[24 + (a % 4)] = d])
    [] a = \hC002 -> [b EXCEPT !.enable = 0]
    [] a \in {\hC003, \hC004} -> IF b.enable = 0 THEN [b EXCEPT !.enable = 1, !.cnt = b.latch] ELSE b
    [] a = \hC005 -> [b EXCEPT !.cnt = d, !.latch = d]
    [] a = \hD000 -> Map90_Mode(b, d)
    [] a = \hD001 -> Map90_Sync_Mirror([b EXCEPT !.bank[3] = d % 4])
    [] OTHER -> b
Map90_HSync(b, line, show) ==
  LET s == [b EXCEPT !.latch = 0, !.enable = 0]
  IN  CASE line > 239 \/ ~show -> b
        [] line <= 239 /\ show /\ b.cnt # 0 -> [b EXCEPT !.cnt = @ - 1]
        [] OTHER -> IF b.enable # 0 THEN IRQ_REQ(s) ELSE s

-----------------------------------------------------------------------------
Map91_Init(b) ==
  InfoNES_Mirroring(FirstVRom(Banks(b, [k \in 1..4 |-> Last(b, k % 2)])), 1)
Map91_Sram(b, a, d) ==
  LET port == Hi(a, 4096) + (a % 16)
  IN  CASE port \in \h6000..\h6003 -> ChrMod(b, 2 * (port - \h6000), 2, 2 * d)
        [] port \in {\h7000, \h7001} -> PrgMod(b, port - \h7000, 1, d)
        [] OTHER -> b

\* MMC3's banks without its counter, one name table page for all (95).
Map95_Set_CPU_Banks(b) == Mmc3Prg(b)
Map95_Set_PPU_Banks(b) == Mmc3Chr(b)
Map95_Init(b) ==
  Map95_Set_PPU_Banks(Map95_Set_CPU_Banks(Mmc3Defaults([b EXCEPT !.sram = Sram, !.reg[0] = 0])))
Map95_Write(b, a, d) ==
  CASE Mmc3Port(a) = \h8000 -> Mmc3Select(b, d)
    [] Mmc3Port(a) = \h8001 -> IF b.reg[0] <= 5 THEN Mmc3Bank(MirrorIf(b, On(d, 5), 2, 3), d % 32)
                               ELSE Mmc3Bank(b, d)
    [] OTHER -> b

\* Oeka Kids (96): the fetch of a name table byte selects the background's
\* pattern bank.
Map96_Set_Banks(b) ==
  ChrCRam(ChrCRam(b, 0, 4, 4 * (4 * b.reg[0] + b.reg[1])), 4, 4, 4 * (4 * b.reg[0] + 3))
Map96_Init(b) == InfoNES_Mirroring(Map96_Set_Banks(ZeroRegs(FirstFour(b), 2)), 3)
Map96_Write(b, a, d) ==
  Map96_Set_Banks([PrgMod(b, 0, 4, 4 * (d % 4)) EXCEPT !.reg[0] = Bit(d, 2)])
Map96_PPU(b, a) ==
  IF a \div 4096 = 2 THEN Map96_Set_Banks([b EXCEPT !.reg[1] = Field(a, 8, 2)]) ELSE b

Map97_Init(b) == FirstVRom(Banks(b, <<Last(b, 1), Last(b, 0), 0, 1>>))
Map97_Write(b, a, d) ==
  IF a >= \hC000 THEN b
  ELSE MirrorIf(Prg(b, 2, 2, (2 * (d % 16)) % RomPages(b)), ~On(d, 7), 0, 1)

Map99_Init(b) == [Map0_Init(b) EXCEPT !.reg[0] = 0]
Map99_Apu(b, a, d) ==
  CASE a = \h4016 -> ChrMod(b, 0, 8, IF On(d, 2) THEN 8 ELSE 0)
    [] a = \h4020 -> [b EXCEPT !.reg[0] = d]
    [] OTHER -> b
=============================================================================
