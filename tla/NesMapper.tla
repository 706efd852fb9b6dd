------------------------------ MODULE NesMapper ------------------------------
(***************************************************************************)
(* The table of mappers: which board's functions a mapper number selects.  *)
(* MapN_Init stores its handlers in the pointers MapperWrite, MapperSram,  *)
(* MapperApu, MapperReadApu, MapperHSync, MapperPPU and                    *)
(* MapperRenderScreen; a board without a handler of its own has the empty  *)
(* one of mapper 0, and every board has the empty MapperVSync.  Mapper 45, *)
(* whose handlers index its register array Map45_C[4] beyond its end, is   *)
(* left out.  overrun is what Map19_Init's store beyond its array leaves   *)
(* in the variable that follows it.                                        *)
(***************************************************************************)
EXTENDS NesMapper200

\* pMapperInit of the entry of MapperTable with the number.
MapperInit(no, b, overrun) ==
  CASE no = 0 -> Map0_Init(b) [] no = 1 -> Map1_Init(b) [] no = 2 -> Map2_Init(b)
    [] no = 3 -> Map3_Init(b) [] no = 4 -> Map4_Init(b) [] no = 5 -> Map5_Init(b)
    [] no = 6 -> Map6_Init(b) [] no = 7 -> Map7_Init(b) [] no = 8 -> Map8_Init(b)
    [] no = 9 -> Map9_Init(b) [] no = 10 -> Map10_Init(b) [] no = 11 -> Map11_Init(b)
    [] no = 13 -> Map13_Init(b) [] no = 15 -> Map15_Init(b) [] no = 16 -> Map16_Init(b)
    [] no = 17 -> Map17_Init(b) [] no = 18 -> Map18_Init(b) [] no = 19 -> Map19_Init(b, overrun)
    [] no = 21 -> Map21_Init(b) [] no = 22 -> Map22_Init(b) [] no = 23 -> Map23_Init(b)
    [] no = 24 -> Map24_Init(b) [] no = 25 -> Map25_Init(b) [] no = 26 -> Map26_Init(b)
    [] no = 32 -> Map32_Init(b) [] no = 33 -> Map33_Init(b) [] no = 34 -> Map34_Init(b)
    [] no = 40 -> Map40_Init(b) [] no = 41 -> Map41_Init(b) [] no = 42 -> Map42_Init(b)
    [] no = 43 -> Map43_Init(b) [] no = 44 -> Map44_Init(b) [] no = 46 -> Map46_Init(b)
    [] no = 47 -> Map47_Init(b) [] no = 48 -> Map48_Init(b) [] no = 49 -> Map49_Init(b)
    [] no = 50 -> Map50_Init(b) [] no = 51 -> Map51_Init(b) [] no = 57 -> Map57_Init(b)
    [] no = 58 -> Map58_Init(b) [] no = 60 -> Map60_Init(b) [] no = 61 -> Map61_Init(b)
    [] no = 62 -> Map62_Init(b) [] no = 64 -> Map64_Init(b) [] no = 65 -> Map65_Init(b)
    [] no = 66 -> Map66_Init(b) [] no = 67 -> Map67_Init(b) [] no = 68 -> Map68_Init(b)
    [] no = 69 -> Map69_Init(b) [] no = 70 -> Map70_Init(b) [] no = 71 -> Map71_Init(b)
    [] no = 72 -> Map72_Init(b) [] no = 73 -> Map73_Init(b) [] no = 74 -> Map74_Init(b)
    [] no = 75 -> Map75_Init(b) [] no = 76 -> Map76_Init(b) [] no = 77 -> Map77_Init(b)
    [] no = 78 -> Map78_Init(b) [] no = 79 -> Map79_Init(b) [] no = 80 -> Map80_Init(b)
    [] no = 82 -> Map82_Init(b) [] no = 83 -> Map83_Init(b) [] no = 85 -> Map85_Init(b)
    [] no = 86 -> Map86_Init(b) [] no = 87 -> Map87_Init(b) [] no = 88 -> Map88_Init(b)
    [] no = 89 -> Map89_Init(b) [] no = 90 -> Map90_Init(b) [] no = 91 -> Map91_Init(b)
    [] no = 92 -> Map92_Init(b) [] no = 93 -> Map93_Init(b) [] no = 94 -> Map94_Init(b)
    [] no = 95 -> Map95_Init(b) [] no = 96 -> Map96_Init(b) [] no = 97 -> Map97_Init(b)
    [] no = 99 -> Map99_Init(b) [] no = 100 -> Map100_Init(b) [] no = 101 -> Map101_Init(b)
    [] no = 105 -> Map105_Init(b) [] no = 107 -> Map107_Init(b) [] no = 108 -> Map108_Init(b)
    [] no = 109 -> Map109_Init(b) [] no = 110 -> Map110_Init(b) [] no = 112 -> Map112_Init(b)
    [] no = 113 -> Map113_Init(b) [] no = 114 -> Map114_Init(b) [] no = 115 -> Map115_Init(b)
    [] no = 116 -> Map116_Init(b) [] no = 117 -> Map117_Init(b) [] no = 118 -> Map118_Init(b)
    [] no = 119 -> Map119_Init(b) [] no = 122 -> Map122_Init(b) [] no = 133 -> Map133_Init(b)
    [] no = 134 -> Map134_Init(b) [] no = 135 -> Map135_Init(b) [] no = 140 -> Map140_Init(b)
    [] no = 151 -> Map151_Init(b) [] no = 160 -> Map160_Init(b) [] no = 180 -> Map180_Init(b)
    [] no = 181 -> Map181_Init(b) [] no = 182 -> Map182_Init(b) [] no = 183 -> Map183_Init(b)
    [] no = 185 -> Map185_Init(b) [] no = 187 -> Map187_Init(b) [] no = 188 -> Map188_Init(b)
    [] no = 189 -> Map189_Init(b) [] no = 191 -> Map191_Init(b) [] no = 193 -> Map193_Init(b)
    [] no = 194 -> Map194_Init(b) [] no = 200 -> Map200_Init(b) [] no = 201 -> Map201_Init(b)
    [] no = 202 -> Map202_Init(b) [] no = 222 -> Map222_Init(b) [] no = 225 -> Map225_Init(b)
    [] no = 226 -> Map226_Init(b) [] no = 227 -> Map227_Init(b) [] no = 228 -> Map228_Init(b)
    [] no = 229 -> Map229_Init(b) [] no = 230 -> Map230_Init(b) [] no = 231 -> Map231_Init(b)
    [] no = 232 -> Map232_Init(b) [] no = 233 -> Map233_Init(b) [] no = 234 -> Map234_Init(b)
    [] no = 235 -> Map235_Init(b) [] no = 236 -> Map236_Init(b) [] no = 240 -> Map240_Init(b)
    [] no = 241 -> Map241_Init(b) [] no = 242 -> Map242_Init(b) [] no = 243 -> Map243_Init(b)
    [] no = 244 -> Map244_Init(b) [] no = 245 -> Map245_Init(b) [] no = 246 -> Map246_Init(b)
    [] no = 248 -> Map248_Init(b) [] no = 249 -> Map249_Init(b) [] no = 251 -> Map251_Init(b)
    [] no = 252 -> Map252_Init(b) [] no = 255 -> Map255_Init(b)
    [] OTHER -> b

\* MapperWrite: a CPU write to $8000-$FFFF on a scanline.
MapperWrite(no, b, a, d, line) ==
  CASE no = 1 -> Map1_Write(b, a, d) [] no = 2 -> Map2_Write(b, a, d)
    [] no = 3 -> Map3_Write(b, a, d) [] no = 4 -> Map4_Write(b, a, d, line)
    [] no = 6 -> Map6_Write(b, a, d) [] no = 7 -> Map7_Write(b, a, d)
    [] no = 8 -> Map8_Write(b, a, d) [] no = 9 -> Map9_Write(b, a, d)
    [] no = 10 -> Map10_Write(b, a, d) [] no = 11 -> Map11_Write(b, a, d)
    [] no = 13 -> Map13_Write(b, a, d) [] no = 15 -> Map15_Write(b, a, d)
    [] no = 16 -> Map16_Write(b, a, d) [] no = 18 -> Map18_Write(b, a, d)
    [] no = 19 -> Map19_Write(b, a, d) [] no = 21 -> Map21_Write(b, a, d)
    [] no = 22 -> Map22_Write(b, a, d) [] no = 23 -> Map23_Write(b, a, d)
    [] no = 24 -> Map24_Write(b, a, d) [] no = 25 -> Map25_Write(b, a, d)
    [] no = 26 -> Map26_Write(b, a, d) [] no = 32 -> Map32_Write(b, a, d)
    [] no = 33 -> Map33_Write(b, a, d) [] no = 34 -> Map34_Write(b, a, d)
    [] no = 40 -> Map40_Write(b, a, d) [] no = 41 -> Map41_Write(b, a, d)
    [] no = 42 -> Map42_Write(b, a, d) [] no = 43 -> Map43_Write(b, a, d)
    [] no = 44 -> Map44_Write(b, a, d) [] no = 46 -> Map46_Write(b, a, d)
    [] no = 47 -> Map47_Write(b, a, d) [] no = 48 -> Map48_Write(b, a, d)
    [] no = 49 -> Map49_Write(b, a, d) [] no = 51 -> Map51_Write(b, a, d)
    [] no = 57 -> Map57_Write(b, a, d) [] no = 58 -> Map58_Write(b, a, d)
    [] no = 60 -> Map60_Write(b, a, d) [] no = 61 -> Map61_Write(b, a, d)
    [] no = 62 -> Map62_Write(b, a, d) [] no = 64 -> Map64_Write(b, a, d)
    [] no = 65 -> Map65_Write(b, a, d) [] no = 66 -> Map66_Write(b, a, d)
    [] no = 67 -> Map67_Write(b, a, d) [] no = 68 -> Map68_Write(b, a, d)
    [] no = 69 -> Map69_Write(b, a, d) [] no = 70 -> Map70_Write(b, a, d)
    [] no = 71 -> Map71_Write(b, a, d) [] no = 72 -> Map72_Write(b, a, d)
    [] no = 73 -> Map73_Write(b, a, d) [] no = 74 -> Map74_Write(b, a, d, line)
    [] no = 75 -> Map75_Write(b, a, d) [] no = 76 -> Map76_Write(b, a, d)
    [] no = 77 -> Map77_Write(b, a, d) [] no = 78 -> Map78_Write(b, a, d)
    [] no = 83 -> Map83_Write(b, a, d) [] no = 85 -> Map85_Write(b, a, d)
    [] no = 88 -> Map88_Write(b, a, d) [] no = 89 -> Map89_Write(b, a, d)
    [] no = 90 -> Map90_Write(b, a, d) [] no = 92 -> Map92_Write(b, a, d)
    [] no = 94 -> Map94_Write(b, a, d) [] no = 95 -> Map95_Write(b, a, d)
    [] no = 96 -> Map96_Write(b, a, d) [] no = 97 -> Map97_Write(b, a, d)
    [] no = 100 -> Map100_Write(b, a, d) [] no = 101 -> Map101_Write(b, a, d)
    [] no = 105 -> Map105_Write(b, a, d) [] no = 107 -> Map107_Write(b, a, d)
    [] no = 108 -> Map108_Write(b, a, d) [] no = 112 -> Map112_Write(b, a, d)
    [] no = 113 -> Map113_Write(b, a, d) [] no = 114 -> Map114_Write(b, a, d)
    [] no = 115 -> Map115_Write(b, a, d) [] no = 116 -> Map116_Write(b, a, d)
    [] no = 117 -> Map117_Write(b, a, d) [] no = 118 -> Map118_Write(b, a, d)
    [] no = 119 -> Map119_Write(b, a, d) [] no = 151 -> Map151_Write(b, a, d)
    [] no = 160 -> Map160_Write(b, a, d) [] no = 180 -> Map180_Write(b, a, d)
    [] no = 182 -> Map182_Write(b, a, d) [] no = 183 -> Map183_Write(b, a, d)
    [] no = 185 -> Map185_Write(b, a, d) [] no = 187 -> Map187_Write(b, a, d)
    [] no = 188 -> Map188_Write(b, a, d) [] no = 189 -> Map189_Write(b, a, d)
    [] no = 194 -> Map194_Write(b, a, d) [] no = 200 -> Map200_Write(b, a, d)
    [] no = 201 -> Map201_Write(b, a, d) [] no = 202 -> Map202_Write(b, a, d)
    [] no = 222 -> Map222_Write(b, a, d) [] no = 225 -> Map225_Write(b, a, d)
    [] no = 226 -> Map226_Write(b, a, d) [] no = 227 -> Map227_Write(b, a, d)
    [] no = 228 -> Map228_Write(b, a, d) [] no = 229 -> Map229_Write(b, a, d)
    [] no = 230 -> Map230_Write(b, a, d) [] no = 231 -> Map231_Write(b, a, d)
    [] no = 232 -> Map232_Write(b, a, d) [] no = 233 -> Map233_Write(b, a, d)
    [] no = 234 -> Map234_Write(b, a, d) [] no = 235 -> Map235_Write(b, a, d)
    [] no = 236 -> Map236_Write(b, a, d) [] no = 241 -> Map241_Write(b, a, d)
    [] no = 242 -> Map242_Write(b, a, d) [] no = 244 -> Map244_Write(b, a, d)
    [] no = 245 -> Map245_Write(b, a, d) [] no = 248 -> Map248_Write(b, a, d)
    [] no = 249 -> Map249_Write(b, a, d) [] no = 251 -> Map251_Write(b, a, d)
    [] no = 252 -> Map252_Write(b, a, d) [] no = 255 -> Map255_Write(b, a, d)
    [] OTHER -> b

\* MapperSram: a CPU write to $6000-$7FFF of a cartridge without SRAM.
MapperSram(no, b, a, d) ==
  CASE no = 16 -> Map16_Write(b, a, d) [] no = 34 -> Map34_Sram(b, a, d)
    [] no = 41 -> Map41_Sram(b, a, d) [] no = 46 -> Map46_Sram(b, a, d)
    [] no = 47 -> Map47_Sram(b, a, d) [] no = 49 -> Map49_Sram(b, a, d)
    [] no = 51 -> Map51_Sram(b, a, d) [] no = 66 -> Map66_Write(b, a, d)
    [] no = 80 -> Map80_Sram(b, a, d) [] no = 82 -> Map82_Sram(b, a, d)
    [] no = 86 -> Map86_Sram(b, a, d) [] no = 87 -> Map87_Sram(b, a, d)
    [] no = 91 -> Map91_Sram(b, a, d) [] no = 93 -> Map93_Sram(b, a, d)
    [] no = 101 -> Map101_Write(b, a, d) [] no = 114 -> Map114_Sram(b, a, d)
    [] no = 115 -> Map115_Sram(b, a, d) [] no = 122 -> Map122_Sram(b, a, d)
    [] no = 140 -> Map140_Sram(b, a, d) [] no = 193 -> Map193_Sram(b, a, d)
    [] no = 246 -> Map246_Sram(b, a, d) [] no = 248 -> Map248_Sram(b, a, d)
    [] no = 251 -> Map251_Sram(b, a, d)
    [] OTHER -> b

\* MapperApu: a CPU write to $4018-$5FFF, and to $4016.
MapperApu(no, b, a, d) ==
  CASE no = 5 -> Map5_Apu(b, a, d) [] no = 6 -> Map6_Apu(b, a, d) [] no = 17 -> Map17_Apu(b, a, d)
    [] no = 19 -> Map19_Apu(b, a, d) [] no = 43 -> Map43_Apu(b, a, d)
    [] no = 50 -> Map50_Apu(b, a, d) [] no = 79 -> Map79_Apu(b, a, d)
    [] no = 83 -> Map83_Apu(b, a, d) [] no = 99 -> Map99_Apu(b, a, d)
    [] no = 109 -> Map109_Apu(b, a, d) [] no = 110 -> Map110_Apu(b, a, d)
    [] no = 113 -> Map113_Apu(b, a, d) [] no = 133 -> Map133_Apu(b, a, d)
    [] no = 134 -> Map134_Apu(b, a, d) [] no = 135 -> Map135_Apu(b, a, d)
    [] no = 140 -> Map140_Apu(b, a, d) [] no = 181 -> Map181_Apu(b, a, d)
    [] no = 187 -> Map187_Apu(b, a, d) [] no = 189 -> Map189_Apu(b, a, d)
    [] no = 191 -> Map191_Apu(b, a, d) [] no = 202 -> Map202_Apu(b, a, d)
    [] no = 240 -> Map240_Apu(b, a, d) [] no = 243 -> Map243_Apu(b, a, d)
    [] no = 248 -> Map248_Apu(b, a, d) [] no = 249 -> Map249_Apu(b, a, d)
    [] no = 255 -> Map255_Apu(b, a, d)
    [] OTHER -> b

\* MapperReadApu: a CPU read of $4018-$5FFF (what it changes).
MapperReadApu(no, b, a) ==
  CASE no = 5 -> Map5_ReadApu(b, a)
    [] OTHER -> b

\* MapperHSync: the callback after the CPU ran for a scanline.
MapperHSync(no, b, line, show) ==
  CASE no = 4 -> Map4_HSync(b, line, show) [] no = 5 -> Map5_HSync(b, line)
    [] no = 6 -> Map6_HSync(b) [] no = 16 -> Map16_HSync(b) [] no = 17 -> Map17_HSync(b)
    [] no = 18 -> Map18_HSync(b) [] no = 19 -> Map19_HSync(b) [] no = 21 -> Map21_HSync(b)
    [] no = 24 -> Map24_HSync(b) [] no = 25 -> Map25_HSync(b) [] no = 26 -> Map26_HSync(b)
    [] no = 40 -> Map40_HSync(b) [] no = 42 -> Map42_HSync(b) [] no = 43 -> Map43_HSync(b)
    [] no = 44 -> Map44_HSync(b, line, show) [] no = 47 -> Map47_HSync(b, line, show)
    [] no = 48 -> Map48_HSync(b, line, show) [] no = 49 -> Map49_HSync(b, line, show)
    [] no = 50 -> Map50_HSync(b, line) [] no = 65 -> Map65_HSync(b)
    [] no = 67 -> Map67_HSync(b, line, show) [] no = 69 -> Map69_HSync(b)
    [] no = 73 -> Map73_HSync(b) [] no = 74 -> Map74_HSync(b, line, show)
    [] no = 83 -> Map83_HSync(b) [] no = 85 -> Map85_HSync(b)
    [] no = 90 -> Map90_HSync(b, line, show) [] no = 100 -> Map100_HSync(b, line, show)
    [] no = 105 -> Map105_HSync(b, line) [] no = 112 -> Map112_HSync(b, line, show)
    [] no = 114 -> Map114_HSync(b, line, show) [] no = 115 -> Map115_HSync(b, line, show)
    [] no = 116 -> Map116_HSync(b, line, show) [] no = 117 -> Map117_HSync(b, line)
    [] no = 118 -> Map118_HSync(b, line, show) [] no = 119 -> Map119_HSync(b, line, show)
    [] no = 160 -> Map160_HSync(b, line) [] no = 182 -> Map182_HSync(b, line, show)
    [] no = 183 -> Map183_HSync(b) [] no = 187 -> Map187_HSync(b, line, show)
    [] no = 189 -> Map189_HSync(b, line, show) [] no = 245 -> Map245_HSync(b, line, show)
    [] no = 248 -> Map248_HSync(b, line, show) [] no = 249 -> Map249_HSync(b, line, show)
    [] no = 252 -> Map252_HSync(b)
    [] OTHER -> b

\* MapperPPU: the renderer fetched the pattern at the address.
MapperPPU(no, b, a) ==
  CASE no = 9 -> Map9_PPU(b, a) [] no = 10 -> Map10_PPU(b, a) [] no = 96 -> Map96_PPU(b, a)
    [] OTHER -> b

\* MapperRenderScreen: the renderer is about to draw background (1) or
\* sprites (0).
MapperRenderScreen(no, b, mode) ==
  CASE no = 5 -> Map5_RenderScreen(b, mode)
    [] OTHER -> b
-----------------------------------------------------------------------------
(* Switching on and resetting. *)

\* What InfoNES_SetupPPU does to the board; it clears the PPU's memory.
InfoNES_SetupPPU(b) ==
  InfoNES_Mirroring(
    [b EXCEPT !.ppu = [w \in 0..11 |-> Ram(w)], !.irq = FALSE,
              !.stale = @ \cup {w \in 0..7 : b.chr[w][1] = "PPURAM"}], b.hmir)

\* byVramWriteEnable: set by InfoNES_SetupPPU, and by the Init of two boards.
VramWriteEnable(no, vrom) == vrom = 0 \/ no \in {74, 77}

\* InfoNES_Reset: all patterns are marked; then the PPU, the mapper, and the
\* CPU (no request pends).
InfoNES_Reset(no, b, overrun) ==
  MapperInit(no, InfoNES_SetupPPU([b EXCEPT !.update = 0..7]), overrun)

PowerOn(c, overrun) == InfoNES_Reset(c.no, Blank(c, 0..31), overrun)
===============================================================================
