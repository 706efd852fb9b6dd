----------------------------- MODULE NesMapper200 -----------------------------
(***************************************************************************)
(* The boards of mapper numbers 193 to 255: the multi-game cartridges,     *)
(* whose banks come from the address or the data of one write, and the     *)
(* last pirate clones of MMC3 and VRC.                                     *)
(***************************************************************************)
EXTENDS NesMapper100

-----------------------------------------------------------------------------
Map193_Init(b) ==
  FirstVRom(CpuWin([b EXCEPT !.sram = Sram], 0, [k \in 0..3 |-> Rom(RomPages(b) - 4 + k)]))
Map193_Sram(b, a, d) ==
  CASE a = \h6000 -> ChrMod(b, 0, 4, Hi(d, 4))
    [] a \in {\h6001, \h6002} -> ChrMod(b, 2 + 2 * (a % 4), 2, d)
    [] a = \h6003 -> PrgMod(b, 0, 4, 4 * d)
    [] OTHER -> b

Map194_Init(b) == CpuWin([b EXCEPT !.sram = Sram], 0, [k \in 0..3 |-> Rom(RomPages(b) - 4 + k)])
Map194_Write(b, a, d) == [b EXCEPT !.sram = Rom(d % RomPages(b))]

Map200_Init(b) == FirstVRom(Banks(b, <<0, 1, 0, 1>>))
Map200_Write(b, a, d) ==
  MirrorIf(ChrMod(Twice(b, 2 * (a % 8)), 0, 8, 8 * (a % 8)), On(a, 0), 1, 0)

Map201_Init(b) == FirstVRom(Banks(b, <<0, 1, 0, 1>>))
Map201_Write(b, a, d) == LET bank == IF On(a, 3) THEN a % 4 ELSE 0 IN Both(b, bank, bank)

Map202_Init(b) == FirstVRom(Banks(b, <<12, 13, 14, 15>>))
Map202_WriteSub(b, a, d) ==
  LET bank == Field(a, 1, 3)
      high == IF Field(a, 2, 2) = 3 THEN bank + 1 ELSE bank
  IN  MirrorIf(ChrMod(PrgMod(PrgMod(b, 0, 2, 2 * bank), 2, 2, 2 * high), 0, 8, 8 * bank), On(a, 0), 0, 1)
Map202_Apu(b, a, d) == Map202_WriteSub(b, a, d)
Map202_Write(b, a, d) == Map202_WriteSub(b, a, d)

Map222_Init(b) == InfoNES_Mirroring(FirstVRom(FirstAndLast(b)), 1)
Map222_Write(b, a, d) ==
  LET port == Hi(a, 4096) + (a % 4)
  IN  CASE port \in {\h8000, \hA000} -> PrgMod(b, Bit(a, 13), 1, d)
        [] port \in {\hB000, \hB002, \hC000, \hC002, \hD000, \hD002, \hE000, \hE002} ->
             ChrMod(b, 2 * ((a \div 4096) - 11) + Bit(a, 1), 1, d)
        [] OTHER -> b

-----------------------------------------------------------------------------
(* The x-in-1 boards: 32 KB of ROM, or 16 KB of it twice. *)

\* bank counts 32 KB; half, if the mode asks for 16 KB, which half of it.
Game(b, bank, twice, half) == IF twice THEN Twice(b, 4 * bank + 2 * half) ELSE PrgMod(b, 0, 4, 4 * bank)

Map225_Init(b) == FirstVRom(FirstFour(b))
Map225_Write(b, a, d) ==
  Game(MirrorIf(ChrMod(b, 0, 8, 8 * (a % 64)), On(a, 13), 0, 1), Field(a, 7, 5), On(a, 12), Bit(a, 6))

\* reg[0] and reg[1] are Map226_Reg.
Map226_Init(b) == [FirstFour(b) EXCEPT !.reg[0] = 0, !.reg[1] = 0]
Map226_Write(b, a, d) ==
  LET s == [b EXCEPT !.reg[a % 2] = d]
      r == s.reg[0]
  IN  Game(MirrorIf(s, On(r, 6), 1, 0),
           Field(r, 1, 4) + 16 * Bit(r, 7) + 32 * (s.reg[1] % 2), On(r, 5), r % 2)

Map227_Init(b) == Banks(b, <<0, 1, 0, 1>>)
Map227_Write(b, a, d) ==
  LET bank == 16 * Bit(a, 8) + Field(a, 3, 4)
      s == Game(b, bank, ~On(a, 0), Bit(a, 2))
      t == IF On(a, 7) THEN s ELSE PrgMod(s, 2, 2, 4 * And(bank, 28) + 14 * Bit(a, 9))
  IN  MirrorIf(t, On(a, 1), 0, 1)

\* Three ROM chips, selected by bits 11 and 12.
Map228_Init(b) == FirstVRom(FirstFour(b))
Map228_Write(b, a, d) ==
  LET chip == CASE Field(a, 11, 2) = 1 -> 16 [] Field(a, 11, 2) = 3 -> 32 [] OTHER -> 0
      prg == Or(Field(a, 7, 4), chip)
      s == IF On(a, 5) THEN Twice(b, 4 * (2 * prg + Bit(a, 6))) ELSE PrgMod(b, 0, 4, 4 * prg)
  IN  MirrorIf(ChrMod(s, 0, 8, 8 * (4 * (a % 16) + (d % 4))), On(a, 13), 0, 1)

Map229_Init(b) == FirstVRom(FirstFour(b))
Map229_Write(b, a, d) ==
  LET s == IF Field(a, 1, 4) # 0 THEN ChrMod(Twice(b, 2 * (a % 32)), 0, 8, 8 * (a % 256))
           ELSE Chr(Prg(b, 0, 4, 0), 0, 8, 0)
  IN  MirrorIf(s, On(a, 5), 0, 1)

\* 22-in-1: each reset switches between two groups of games (Map230_RomSw,
\* in reg[0]).
Map230_Init(b) ==
  IF b.reg[0] = 0 THEN [Banks(b, <<0, 1, 14, 15>>) EXCEPT !.reg[0] = 1]
  ELSE [Banks(b, <<16, 17, Last(b, 1), Last(b, 0)>>) EXCEPT !.reg[0] = 0]
Map230_Write(b, a, d) ==
  IF b.reg[0] # 0 THEN PrgMod(b, 0, 2, 2 * (d % 8))
  ELSE MirrorIf(IF On(d, 5) THEN Twice(b, 2 * (d % 32) + 16) ELSE PrgMod(b, 0, 4, 2 * Hi(d % 32, 2) + 16),
                On(d, 6), 1, 0)

Map231_Init(b) == FirstVRom(FirstFour(b))
Map231_Write(b, a, d) ==
  LET p == 2 * Hi(a % 32, 2)
  IN  MirrorIf(IF On(a, 5) THEN PrgMod(b, 0, 4, p) ELSE Twice(b, p), On(a, 7), 0, 1)

\* Quattro games: reg[0] is the block of four banks, reg[1] the bank in it.
Map232_Init(b) == [FirstAndLast(b) EXCEPT !.reg[0] = 12, !.reg[1] = 0]
Map232_Write(b, a, d) ==
  LET s == CASE a = \h9000 -> [b EXCEPT !.reg[0] = 4 * Field(d, 3, 2)]
             [] a >= \hA000 -> [b EXCEPT !.reg[1] = d % 4]
             [] OTHER -> b
  IN  PrgMod(PrgMod(s, 0, 2, 2 * Or(s.reg[0], s.reg[1])), 2, 2, 2 * Or(s.reg[0], 3))

Map233_Init(b) == FirstFour(b)
Map233_Write(b, a, d) ==
  MirrorBy(IF On(d, 5) THEN Twice(b, 2 * (d % 32)) ELSE PrgMod(b, 0, 4, 2 * Hi(d % 32, 2)),
           Field(d, 6, 2), <<5, 1, 0, 2>>)

\* Maxi-15: the first value that is not zero stays in reg[0].
Map234_Init(b) == [FirstFour(b) EXCEPT !.reg[0] = 0, !.reg[1] = 0]
Map234_Set_Banks(b) ==
  LET r == b.reg[0]
      m == MirrorIf(b, On(r, 7), 0, 1)
  IN  IF On(r, 6) THEN Both(m, Or(And(r, 14), b.reg[1] % 2), Or(4 * And(r, 14), Field(b.reg[1], 4, 3)))
      ELSE Both(m, r % 16, 4 * (r % 16) + Field(b.reg[1], 4, 2))
Map234_Write(b, a, d) ==
  CASE a \in \hFF80..\hFF9F -> IF b.reg[0] = 0 THEN Map234_Set_Banks([b EXCEPT !.reg[0] = d]) ELSE b
    [] a \in \hFFE8..\hFFF7 -> Map234_Set_Banks([b EXCEPT !.reg[1] = d])
    [] OTHER -> b

\* 150-in-1: chips the cartridge does not have leave the bus open (DRAM,
\* filled with $FF).
Dram == <<"DRAM", 0>>
Map235_Init(b) == FirstFour(b)
Map235_Write(b, a, d) ==
  LET chip == Field(a, 8, 2)
      low == a % 32
      open == \/ RomPages(b) = 128 /\ chip > 0
              \/ RomPages(b) = 256 /\ chip \in {1, 3}
              \/ RomPages(b) = 384 /\ chip = 1
      prg == CASE RomPages(b) \in {256, 384} /\ chip = 2 -> 32 + low
               [] RomPages(b) = 384 /\ chip = 3 -> 64 + low
               [] OTHER -> 32 * chip + low
      s == Game(b, prg, On(a, 11), Bit(a, 12))
      t == IF open THEN CpuWin(s, 0, [k \in 0..3 |-> Dram]) ELSE s
  IN  IF On(a, 10) THEN InfoNES_Mirroring(t, 3) ELSE MirrorIf(t, On(a, 13), 0, 1)

\* 800-in-1: reg[0] is Map236_Bank, reg[1] Map236_Mode.  The mode's bits are
\* or-ed into the bank and stay there.
Map236_Init(b) == [FirstAndLast(b) EXCEPT !.reg[0] = 0, !.reg[1] = 0]
Map236_Write(b, a, d) ==
  LET s == IF a < \hC000 THEN [b EXCEPT !.reg[0] = 16 * (a % 4) + (@ % 8)]
           ELSE [b EXCEPT !.reg[0] = (a % 8) + 16 * Field(@, 4, 2), !.reg[1] = 16 * Field(a, 4, 2)]
      mode == s.reg[1]
      t == [MirrorIf(s, On(a, 5), 0, 1) EXCEPT !.reg[0] = Or(@, IF mode = 16 THEN \h37 ELSE 8)]
      bank == t.reg[0]
  IN  CASE mode < 32 -> PrgMod(PrgMod(t, 0, 2, 2 * bank), 2, 2, 2 * Or(bank, 7))
        [] mode = 32 -> PrgMod(t, 0, 4, 2 * Hi(bank, 2))
        [] mode = 48 -> Twice(t, 2 * bank)
        [] OTHER -> t

-----------------------------------------------------------------------------
Map240_Init(b) == FirstVRom(FirstAndLast(b))
Map240_Apu(b, a, d) == IF a \in \h4020..\h5FFF THEN Both(b, d \div 16, d % 16) ELSE b

Map241_Init(b) == FirstVRom(FirstFour(b))
Map241_Write(b, a, d) == IF a = \h8000 THEN PrgMod(b, 0, 4, 4 * d) ELSE b

Map242_Init(b) == FirstFour(b)
Map242_Write(b, a, d) == IF On(a, 0) THEN PrgMod(b, 0, 4, 4 * Field(a, 3, 5)) ELSE b

\* Sachen 74LS374N: reg[0..3] are Map243_Regs.
Map243_Init(b) == ZeroRegs(FirstVRom(FirstFour(b)), 4)
Map243_Apu(b, a, d) ==
  LET r == b.reg[0] % 8
      s == CASE r = 2 -> [b EXCEPT !.reg[1] = d % 2]
             [] r \in {0, 4, 7} -> [b EXCEPT !.reg[2] = 2 * (d % 2)]
             [] r = 5 -> PrgMod(b, 0, 4, 4 * d)
             [] r = 6 -> [b EXCEPT !.reg[3] = 4 * (d % 4)]
             [] OTHER -> b
      bank == IF ChrPages(b) <= 64 THEN (s.reg[2] + s.reg[3]) \div 2
              ELSE s.reg[1] + s.reg[2] + s.reg[3]
  IN  CASE a = \h4100 -> [b EXCEPT !.reg[0] = d]
        [] a = \h4101 -> ChrMod(s, 0, 8, 8 * bank)
        [] OTHER -> b

Map244_Init(b) == FirstFour(b)
Map244_Write(b, a, d) ==
  CASE a \in \h8065..\h80A4 -> PrgMod(b, 0, 4, 4 * ((a - \h8065) % 4))
    [] a \in \h80A5..\h80E4 -> PrgMod(b, 0, 4, 4 * ((a - \h80A5) % 8))
    [] OTHER -> b

-----------------------------------------------------------------------------
(* Clones of MMC3 whose request stays up until a register is written.      *)

\* On line 0 the counter is first taken down once more.
StickyHSync(b, line, show) ==
  LET c == IF line = 0 /\ b.cnt > 0 THEN b.cnt - 1 ELSE b.cnt
      s == IF line > 239 \/ ~show \/ b.enable = 0 \/ b.req # 0 THEN b
           ELSE IF c = 0 THEN [b EXCEPT !.req = 255, !.cnt = b.latch]
           ELSE [b EXCEPT !.cnt = c - 1]
  IN  IF s.req # 0 THEN IRQ_REQ(s) ELSE s
StickyIrq(b, port, d) == IF port >= \hC000 THEN [CloneIrq(b, port, d) EXCEPT !.req = 0] ELSE b

\* 245: reg[0] and reg[3] are Map245_Reg[0] and [3], bank[6] and bank[7]
\* Map245_Prg0 and Prg1.  Register 0 selects the half of the ROM.
Map245_Init(b) ==
  [ClearIrq(FirstVRom(ZeroRegs(FirstAndLast(b), 8))) EXCEPT !.req = 0, !.bank[6] = 0, !.bank[7] = 1]
Map245_Write(b, a, d) ==
  LET port == IF On(a, 11) THEN a - 2048 ELSE a
      s == CASE b.reg[0] = 0 ->
                  LET half == 64 * Bit(d, 1)
                  IN  CpuWin([b EXCEPT !.reg[3] = half], 2, [k \in 0..1 |-> Rom((Or(62, half) + k) % RomPages(b))])
             [] b.reg[0] \in {6, 7} -> [b EXCEPT !.bank[b.reg[0]] = d]
             [] OTHER -> b
  IN  CASE port = \h8000 -> [b EXCEPT !.reg[0] = d]
        [] port = \h8001 -> CpuWin(s, 0, [k \in 0..1 |-> Rom(Or(s.bank[6 + k], s.reg[3]) % RomPages(b))])
        [] port = \hA000 -> Mmc3Mirror(b, d)
        [] port \in {\hC000, \hC001, \hE000, \hE001} -> StickyIrq(b, port, d)
        [] OTHER -> b
Map245_HSync(b, line, show) == StickyHSync(b, line, show)

Map246_Init(b) == FirstAndLast(b)
Map246_Sram(b, a, d) ==
  CASE a \in \h6000..\h6003 -> PrgMod(b, a % 4, 1, 4 * d + (a % 4))
    [] a \in \h6004..\h6007 -> ChrMod(b, 2 * (a % 4), 2, 2 * d)
    [] OTHER -> b

\* 248: any write below $8000 overrides the first two windows; the counter
\* always starts at $BE.  Map248_Set_PPU_Banks tests the size of the ROM, not
\* of the VROM.
Map248_Set_CPU_Banks(b) == Mmc3Prg(b)
Map248_Set_PPU_Banks(b) == IF b.rom > 0 THEN Mmc3Chr(b) ELSE b
Map248_Init(b) ==
  [ClearIrq(Map248_Set_PPU_Banks(Map248_Set_CPU_Banks(ZeroRegs(
     [b EXCEPT !.sram = Sram, !.bank = [k \in DOMAIN @ |-> IF k < 8 THEN <<0, 2, 4, 5, 6, 7, 0, 1>>[k + 1] ELSE @[k]]],
     8)))) EXCEPT !.req = 0]
Map248_Write(b, a, d) ==
  LET port == Mmc3Port(a)
      k == b.reg[0] % 8
      data == [b EXCEPT !.bank[k] = IF k < 2 THEN Hi(d, 2) ELSE d]
  IN  CASE port = \h8000 -> Map248_Set_PPU_Banks(Map248_Set_CPU_Banks([b EXCEPT !.reg[0] = d]))
        [] port = \h8001 -> IF k > 5 THEN Map248_Set_CPU_Banks(data) ELSE Map248_Set_PPU_Banks(data)
        [] port = \hA000 -> Mmc3Mirror(b, d)
        [] port \in {\hC000, \hC001} -> [b EXCEPT !.enable = a % 2, !.latch = 190, !.cnt = 190]
        [] OTHER -> b
Map248_Sram(b, a, d) ==
  CpuWin(PrgMod(b, 0, 2, 2 * d), 2, [k \in 0..1 |-> Rom(Last(b, 1 - k))])
Map248_Apu(b, a, d) == Map248_Sram(b, a, d)
Map248_HSync(b, line, show) == CountToZero(b, line, show)

\* 249: a write of 2 to $5000 scrambles the bits of the bank numbers
\* (Map249_Spdata, in reg[10]).
Permute(d, p) ==
  LET bit(k) == Bit(d, p[k + 1]) * 2^k
  IN  bit(0) + bit(1) + bit(2) + bit(3) + bit(4) + bit(5) + bit(6) + bit(7)
Map249_Init(b) ==
  [ClearIrq(FirstVRom(ZeroRegs(FirstAndLast(b), 8))) EXCEPT !.req = 0, !.reg[10] = 0]
Map249_Data(b, d) ==
  LET wide(v) == Permute(v, <<0, 1, 3, 7, 6, 2, 4, 5>>)
      short(v) == Permute(v, <<0, 4, 3, 1, 2, 5, 6, 7>>)
      k == b.reg[0] % 8
      v == CASE b.reg[10] # 1 -> d
             [] b.reg[10] = 1 /\ k < 6 -> wide(d)
             [] OTHER -> IF d < 32 THEN short(d) ELSE wide(d - 32)
  IN  CASE k < 2 -> InfoNES_SetupChr(PpuWin(b, 2 * k, [i \in 0..1 |-> VRom((Hi(v, 2) + i) % ChrPages(b))]))
        [] k \in 2..5 -> ChrMod(b, k + 2, 1, v)
        [] OTHER -> PrgMod(b, k - 6, 1, v)
Map249_Write(b, a, d) ==
  LET port == Hi(a, 256) + (a % 2)
      even == IF On(port, 11) THEN port - 2048 ELSE port
  IN  CASE even = \h8000 -> [b EXCEPT !.reg[0] = d]
        [] even = \h8001 -> Map249_Data(b, d)
        [] even = \hA000 -> Mmc3Mirror(b, d)
        [] even \in {\hC000, \hC001, \hE000, \hE001} -> StickyIrq(b, even, d)
        [] OTHER -> b
Map249_Apu(b, a, d) == IF a = \h5000 /\ d \in {0, 2} THEN [b EXCEPT !.reg[10] = d \div 2] ELSE b
Map249_HSync(b, line, show) == StickyHSync(b, line, show)

-----------------------------------------------------------------------------
(* 251: reg[0..10] are Map251_Reg, bank[0..3] Map251_Breg: four bytes      *)
(* written to $6000 in a row, which take effect together.                  *)
Map251_Set_Banks(b) ==
  LET chr(i) == (b.reg[i] % 16) + 16 * And(Or(b.reg[i] \div 16, b.bank[1]), b.bank[2])
      swap == On(b.reg[8], 7)
      page(w) == LET v == IF swap THEN (w + 4) % 8 ELSE w
                 IN  IF v < 4 THEN chr(v \div 2) + (v % 2) ELSE chr(v - 2)
      open == 63 - (b.bank[3] % 64)
      prg(i) == Or(And(b.reg[6 + i], open), b.bank[1])
      fixed == Or(open, b.bank[1])
      low == IF On(b.reg[8], 6) THEN And(fixed, RomPages(b) - 1) ELSE prg(0)
      high == IF On(b.reg[8], 6) THEN prg(0) ELSE And(fixed, RomPages(b) - 1)
  IN  CpuWin(InfoNES_SetupChr(PpuWin(b, 0, [w \in 0..7 |-> VRom(page(w) % ChrPages(b))])),
             0, [w \in 0..3 |-> Rom(<<low, prg(1), high, fixed>>[w + 1] % RomPages(b))])
Map251_Init(b) ==
  [ZeroRegs(InfoNES_Mirroring(FirstAndLast(b), 1), 11) EXCEPT
     !.bank = [k \in DOMAIN @ |-> IF k < 4 THEN 0 ELSE @[k]]]
Map251_Write(b, a, d) ==
  LET port == Mmc3Port(a)
      r == IF port = \h8000 THEN 8 ELSE b.reg[8] % 8
  IN  CASE port \in {\h8000, \h8001} -> Map251_Set_Banks([b EXCEPT !.reg[r] = d])
        [] port = \hA001 -> IF On(d, 7) THEN [b EXCEPT !.reg[9] = 1, !.reg[10] = 0] ELSE [b EXCEPT !.reg[9] = 0]
        [] OTHER -> b
Map251_Sram(b, a, d) ==
  LET s == [b EXCEPT !.bank[b.reg[10]] = d, !.reg[10] = @ + 1]
  IN  CASE Mmc3Port(a) # \h6000 \/ b.reg[9] = 0 -> b
        [] s.reg[10] = 4 -> Map251_Set_Banks([s EXCEPT !.reg[10] = 0])
        [] OTHER -> s

\* 252: a VRC whose request stays up (Map252_IRQ_Occur, in req).
Map252_Init(b) == [FirstVRom(ClearIrq(Identity(FirstAndLast(b), 9))) EXCEPT !.req = 0]
Map252_Write(b, a, d) ==
  LET page == a \div 4096
      port == Field(a, 2, 2)
  IN  CASE page \in {8, 10} -> PrgMod(b, (page - 8) \div 2, 1, d)
        [] page \in 11..14 -> VrcChr(b, 2 * (page - 11) + (port \div 2), port % 2, d)
        [] page = 15 /\ port = 0 -> [b EXCEPT !.latch = LowNibble(@, d), !.req = 0]
        [] page = 15 /\ port = 1 -> [b EXCEPT !.latch = HighNibble(@, d), !.req = 0]
        [] page = 15 /\ port = 2 -> [VrcControl(b, d) EXCEPT !.req = 0]
        [] page = 15 /\ port = 3 -> [b EXCEPT !.enable = 3 * (@ % 2), !.req = 0]
        [] OTHER -> b
Map252_HSync(b) ==
  LET s == CASE ~On(b.enable, 1) -> b
             [] On(b.enable, 1) /\ b.cnt = 255 ->
                  [b EXCEPT !.req = 255, !.cnt = b.latch, !.enable = 3 * (@ % 2)]
             [] OTHER -> [b EXCEPT !.cnt = @ + 1]
  IN  IF s.req # 0 THEN IRQ_REQ(s) ELSE s

\* 110-in-1: 225 with a second chip, and four nibbles of RAM (reg[0..3]).
\* Map255_Write leaves the decoded patterns as they are.
Map255_Init(b) == ZeroRegs(InfoNES_Mirroring(FirstVRom(FirstFour(b)), 1), 4)
Map255_Write(b, a, d) ==
  LET chip == Bit(a, 14)
      prg == \h20 * chip + Field(a, 7, 5)
      s == Game(MirrorIf(b, On(a, 13), 0, 1), prg, On(a, 12), Bit(a, 6))
  IN  PpuWin(s, 0, [k \in 0..7 |-> VRom((\h200 * chip + 8 * (a % 64) + k) % ChrPages(b))])
Map255_Apu(b, a, d) == IF a >= \h5800 THEN [b EXCEPT !.reg[a % 4] = d % 16] ELSE b
=============================================================================
