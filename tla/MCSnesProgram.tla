----------------------------- MODULE MCSnesProgram -----------------------------
EXTENDS SnesProgram

\* "any" executes one instruction of any opcode in each of the five modes,
\* "modes" a sequence of instructions that change modes, flags and widths.
MCPrograms == {"any", "modes"}

Processor(a, x, y, p, e, page) ==
  [A |-> a, X |-> x, Y |-> y, S |-> \h1F0, DP |-> page, DB |-> \h7E0000, PC |-> Origin, P |-> p, E |-> e,
   live |-> {}, mod |-> {}, cyc |-> 0, sig |-> {}, mem |-> <<>>, d |-> 0, ea |-> 0]

MCProcessors(p) ==
  IF p = "any"
    THEN {Processor(r[1], r[2], \h0105, w \cup r[3], FALSE, \h0100) :
            w \in SUBSET {"M", "X"},
            r \in {<<\h0299, \h00FF, {"C", "I"}>>, <<\h0299, \h00FF, {"D", "V"}>>,
                   <<\h8001, \h0102, {"V"}>>, <<\h8001, \h0102, {"D", "C", "N", "Z"}>>}}
         \cup {Processor(\h0299, \h00FF, 5, f \cup {"M", "X"}, TRUE, 0) : f \in {{}, {"C", "D"}}}
    ELSE {Processor(\h1234, \h2345, \h3456, {"C"}, FALSE, \h0100),
          Processor(\h1234, 0, 0, {"M", "X", "I"}, TRUE, 0)}

Piece(bytes) == [bytes |-> bytes, n |-> 1]
Changes ==
  {Piece(<<\hC2, \h30>>)} \cup {Piece(<<\hE2, v>>) : v \in {\h10, \h20, \h83}}
  \cup {Piece(<<c>>) : c \in {\hFB, \h28, \hCA, \h5B, \hCB}}
  \cup {Piece(<<\hA2, \h00, \h12>>), Piece(<<\hC9, \h34, \h12>>)}
MCCode(p, n) ==
  IF p = "modes" THEN Changes
  ELSE IF n > 0 THEN {}
  ELSE {Piece(<<c>> \o o \o <<\h7E>>) : c \in 0..255, o \in {<<\h10, \h01>>, <<\h98, \h17>>}}

MCIsRam(a) == a \in 0..\h1FFF \cup \h7E0000..\h7FFFFF
MCSpeed(a) == IF a \in 0..\h1FFF THEN 8 ELSE 6
\* Vectors point at the handler; elsewhere decimals of all kinds.
Handler == \h9000
MCImage(a) ==
  CASE a \in {\hFFEA, \hFFFA, \hFFEE, \hFFFE} -> Handler % 256
    [] a \in {\hFFEB, \hFFFB, \hFFEF, \hFFFF} -> Handler \div 256
    [] a = Handler -> \hC2 [] a = Handler + 1 -> \h30 [] a = Handler + 2 -> \h40
    [] OTHER -> LET k == a % 256 IN ((37 * k + 5 * (a \div 256)) % 10) + 16 * ((7 * k + a \div 256) % 10)
=============================================================================
