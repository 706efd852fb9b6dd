------------------------------ MODULE MCNesProgram ------------------------------
EXTENDS NesProgram

\* "any" executes one instruction of any opcode on sampled registers and
\* operands, "ports" a sequence of accesses to the PPU's ports.
MCGames == {"any", "ports"}

Console(b, a, x, y, f, ram) ==
  [PC |-> Origin, SP |-> CASE x = 0 -> 255 [] x = 3 -> 0 [] OTHER -> 127, A |-> a, X |-> x, Y |-> y, F |-> f, clk |-> 0, nmi |-> FALSE,
   d |-> 0, ea |-> 0, ram |-> ram, spr |-> <<>>, mem |-> <<>>, board |-> b, no |-> 0, battery |-> FALSE,
   R0 |-> 0, R1 |-> 0, R2 |-> 0, R3 |-> 0, R7 |-> 0, addr |-> 0, temp |-> 0, latch |-> 0, nt |-> 0,
   line |-> 0, vwe |-> b.vrom = 0, step |-> 0, frameIrq |-> FALSE, apuIrq |-> FALSE,
   strobe |-> 0, pad |-> <<{}, {}>>, padBit |-> <<0, 0>>]
Cart(vrom) == PowerOn([no |-> 0, rom |-> 2, vrom |-> vrom, hmir |-> 1, four |-> FALSE], 0)

\* Pointers and data a little everywhere in the pages the operands reach.
Data == [a \in 0..\h1FF |-> (37 * a + 11) % 256] @@ [a \in \h2F0..\h4FF |-> (91 * a + 128) % 256]

MCConsoles(g) ==
  IF g = "any"
    THEN {Console(Cart(1), a, x, 255 - x, f, Data) :
            a \in {0, 127, 128, 255}, x \in {0, 3, 255}, 
            f \in {{"R"}, {"R", "C", "N", "Z"}, {"R", "V"}, {"R", "V", "I", "D"}}}
    ELSE {Console(Cart(v), 0, 0, 0, {"R"}, <<>>) : v \in {0, 1}}

Pokes(port, values) == {[bytes |-> <<\hA9, d, \h8D, port % 256, port \div 256>>, n |-> 2] : d \in values}
Peeks(ports) == {[bytes |-> <<\hAD, p % 256, p \div 256>>, n |-> 1] : p \in ports}
MCCode(g, n) ==
  IF g = "any"
    THEN IF n > 0 THEN {} ELSE
           {[bytes |-> <<c, lo, hi>>, n |-> 1] : c \in 0..255, lo \in {16, 128, 254, 255}, hi \in {1, 3}}
    ELSE Pokes(\h2000, {0, 4, 3}) \cup Pokes(\h2005, {0, 250}) \cup Pokes(\h2006, {0, 32, 63})
         \cup Pokes(\h2007, {9}) \cup Peeks({\h2002, \h2007, \h2004})
         \cup Pokes(\h4014, {2}) \cup Pokes(\h5114, {2}) \cup Pokes(\h2004, {7})
\* ROM and pattern ROM hold something, the other memories start empty.
MCImage(page, off) == IF page[1] \in {"ROM", "VROM"} THEN (page[2] + off) % 256 ELSE 0
=============================================================================
