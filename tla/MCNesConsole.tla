------------------------------ MODULE MCNesConsole ------------------------------
EXTENDS NesConsole

MCCarts == {[no |-> n, rom |-> 2, vrom |-> 1, hmir |-> 0, four |-> FALSE, battery |-> FALSE] : n \in {0, 4}}
MCButtons == {{}, {0}, {1}}

\* Lines between two interrupts of the board's timer.
Latch == \h34

\* The game.  Its reset enables the frame interrupt, the board's timer (where
\* mapper 4 has it), NMIs, the screen, and places sprite 0 at (128, 20).  Its
\* NMI handler reads the pad: A disables both interrupts, B restarts the
\* frame interrupt and asks for an NMI at the sprite hit as well.  Its IRQ
\* handler acknowledges both.
Program == <<
     \* $E000: LDA #0, STA $4017, ...
     \hA9, \h00, \h8D, \h17, \h40, \h8D, \h03, \h20, \hA9, \h14, \h8D, \h04, \h20, \hA9, \h01, \h8D,
     \h04, \h20, \hA9, \h00, \h8D, \h04, \h20, \hA9, \h80, \h8D, \h04, \h20, \hA9, Latch, \h8D, \h00,
     \hC0, \h8D, \h01, \hC0, \h8D, \h01, \hE0, \hA9, \h80, \h8D, \h00, \h20, \hA9, \h18, \h8D, \h01,
     \h20, \h58,
     \* $E032, the main loop: ROL $300,X six times, JMP $E032
     \h3E, \h00, \h03, \h3E, \h00, \h03, \h3E, \h00, \h03, \h3E, \h00, \h03, \h3E, \h00, \h03, \h3E,
     \h00, \h03, \h4C, \h32, \hE0,
     \* $E047, NMI: PHA, INC $10, a delay of two lines, strobe and read $4016,
     \* BEQ $E068, ...
     \h48, \hE6, \h10, \hA0, \h28, \h88, \hD0, \hFD, \hA9, \h01, \h8D, \h16, \h40, \hA9, \h00, \h8D,
     \h16, \h40, \hAD, \h16, \h40, \h29, \h01, \hF0, \h08, \hA9, \h40, \h8D, \h17, \h40, \h8D, \h00,
     \hE0,
     \hAD, \h16, \h40, \h29, \h01, \hF0, \h0A, \hA9, \h00, \h8D, \h17, \h40, \hA9, \hC0, \h8D, \h00,
     \h20, \h68, \h40,
     \* $E07B, IRQ: PHA, INC $11, a delay of two lines, LDA $4015, STA $E000,
     \* STA $E001, PLA, RTI
     \h48, \hE6, \h11, \hA0, \h28, \h88, \hD0, \hFD, \hAD, \h15, \h40, \h8D, \h00, \hE0, \h8D, \h01,
     \hE0, \h68, \h40>>
Vectors == <<\h47, \hE0, \h00, \hE0, \h7B, \hE0>>
MCMainLoop == \hE032..\hE046

\* Every 8 KB of ROM holds the program and the vectors.
MCImage(page, off) ==
  IF page[1] # "ROM" THEN 0
  ELSE IF off < Len(Program) THEN Program[off + 1]
  ELSE IF off >= \h1FFA THEN Vectors[off - \h1FF9] ELSE 0
\* The third row of the sprite has the first opaque dot.
MCOpaqueRow(n, a) == 2
=============================================================================
