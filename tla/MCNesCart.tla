------------------------------- MODULE MCNesCart -------------------------------
EXTENDS NesCart

Numbers == {0, 1, 2, 3, 4, 5, 6, 7, 8, 9, 10, 11, 13, 15, 16, 17, 18, 19, 21, 22, 23, 24, 25, 26,
  32, 33, 34, 40, 41, 42, 43, 44, 46, 47, 48, 49, 50, 51, 57, 58, 60, 61, 62, 64, 65, 66, 67, 68,
  69, 70, 71, 72, 73, 74, 75, 76, 77, 78, 79, 80, 82, 83, 85, 86, 87, 88, 89, 90, 91, 92, 93, 94,
  95, 96, 97, 99, 100, 101, 105, 107, 108, 109, 110, 112, 113, 114, 115, 116, 117, 118, 119, 122,
  133, 134, 135, 140, 151, 160, 180, 181, 182, 183, 185, 187, 188, 189, 191, 193, 194, 200, 201,
  202, 222, 225, 226, 227, 228, 229, 230, 231, 232, 233, 234, 235, 236, 240, 241, 242, 243, 244,
  245, 246, 248, 249, 251, 252, 255}

\* Boards whose games may come with pattern RAM instead of ROM.
WithRam == {0, 2, 4, 6, 7, 13, 51, 71, 74, 85, 94, 96, 100, 180, 232, 245}

\* 128 KB of program and 64 KB of patterns, but for the boards whose games
\* are larger; 68 with both mirrorings.
MCBoards ==
  {[no |-> n, rom |-> IF n = 230 THEN 40 ELSE 8, vrom |-> IF n = 75 THEN 16 ELSE 8,
    hmir |-> n % 2, four |-> FALSE] : n \in Numbers}
  \cup {[no |-> 68, rom |-> 8, vrom |-> 8, hmir |-> 1, four |-> FALSE]}
  \cup {[no |-> n, rom |-> 8, vrom |-> 0, hmir |-> 0, four |-> FALSE] : n \in WithRam}

\* The ports of most boards, and those of single boards.
Common == {\h8000, \h8001, \h9000, \hA000, \hA001, \hB000, \hC000, \hC001, \hD000, \hE000, \hE001, \hF000}
Special(no) ==
  CASE no \in {1, 105} -> {\h8000, \hC000}
    [] no \in {15, 58, 60, 61, 62, 200, 201, 225, 227, 228, 229, 231, 235, 236, 242, 255} ->
         {\h8000, \h8001, \h8002, \h8025, \h8080, \h80FA, \h8367, \h8500, \h9C5F, \hB8C3}
    [] no \in {21, 22, 23} -> Common \cup {\h9002, \hB001, \hB002, \hF002, \hF003, \hF004, \hF008}
    [] no \in {24, 26} -> Common \cup {\hB003, \hF001, \hF002}
    [] no \in {42, 43, 57} -> Common \cup {\hE002, \h8122, \h8002, \h8003, \h8800}
    [] no \in {65, 48, 33} -> Common \cup {\h9003, \h9005, \h9006, \h8002, \hA002, \hC002}
    [] no = 67 -> {\h8800, \h9800, \hA800, \hB800, \hC800, \hD800, \hE800, \hF800}
    [] no = 83 -> {\h8000, \h8100, \h8200, \h8201, \h8300, \h8310, \h8315, \hB000, \hB0FF}
    [] no = 85 -> Common \cup {\h8010, \h9010, \hB010, \hE010, \hF010}
    [] no = 90 -> Common \cup {\h9004, \hC002, \hC003, \hC005, \hD001, \hD003}
    [] no \in {78, 89, 92, 94} -> {\h8000, \hB0B5, \hFE07, \hFF03, \hFFF1}
    [] no \in {117, 160} -> Common \cup {\h8002, \hA005, \h9003, \hC002, \hC003}
    [] no \in {182, 222, 187} -> Common \cup {\hE003, \hB002, \hC002, \h8003}
    [] no \in {183, 252} -> Common \cup {\h8800, \h9008, \hA800, \hB004, \hF004, \hF008, \hF00C}
    [] no = 234 -> {\hFF80, \hFF9F, \hFFE8, \hFFF7}
    [] no = 244 -> {\h8065, \h8067, \h80A5, \h80AB}
    [] OTHER -> Common
Sram6(no) ==
  CASE no \in {34} -> {\h7FFD, \h7FFE, \h7FFF}
    [] no \in {80, 82} -> {\h7EF0, \h7EF2, \h7EF6, \h7EFA, \h7EFC, \h7EFE}
    [] no = 16 -> {\h6001, \h6008, \h6009, \h600A, \h600B, \h600C}
    [] OTHER -> {\h6000, \h6001, \h6002, \h6024, \h7000}
Apu(no) ==
  CASE no = 5 -> {\h5100, \h5101, \h5105, \h5114, \h5117, \h5120, \h5127, \h512B, \h5203, \h5204}
    [] no \in {6, 17} -> {\h42FE, \h42FF, \h4501, \h4502, \h4503, \h4504, \h4510, \h4517}
    [] no = 19 -> {\h4800, \h5000, \h5800}
    [] OTHER -> {\h4020, \h4100, \h4101, \h4120, \h4900, \h5000, \h5101}

MCWrites(no, area) ==
  CASE area = "rom" -> Special(no) \X (IF no \in {1, 105} THEN {0, 1, 131} ELSE {0, 1, 13, 70, 131})
    [] area = "sram" -> Sram6(no) \X {0, 1, 6, 131}
    [] area = "apu" -> Apu(no) \X {0, 1, 6, 131}
MCMaxOps(no) == CASE no = 1 -> 6 [] no = 105 -> 5 [] no \in {4, 9, 10} -> 3 [] OTHER -> 2
MCFetches == {\h0FD0, \h1FE0}
=============================================================================
