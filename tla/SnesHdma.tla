------------------------------- MODULE SnesHdma -------------------------------
(***************************************************************************)
(* H-blank DMA, one channel.  A table in memory says for how many lines    *)
(* each of its entries holds and whether its data are sent once or on      *)
(* every line; BeginHDMA rewinds the enabled channels at the start of a    *)
(* frame and ProcessHDMACh walks the table, one call a line.  The module   *)
(* checks the walk, done with the registers a2ax, ntlrx and dasx, against  *)
(* the meaning of the table.                                               *)
(*                                                                         *)
(* Source: src/snes/core/sndma.cpp (BeginHDMA, ProcessHDMACh, ProcessHDMA, *)
(* SetHDMAEnable).  The data sent are left out: only the address they come *)
(* from counts.  A pointer of an indirect table is one cell of memory.     *)
(***************************************************************************)
EXTENDS Integers

CONSTANTS
    Half,           \* 0x80: the repeat bit of a count byte
    TableSize,      \* cells of memory a table may use; those behind hold 0
    CountBytes,     \* values found in a table
    UnitSizes,      \* bytes sent a line: 1, 2 or 4
    FrameLines      \* lines of a frame with HDMA

ASSUME HdmaAssumption ==
    /\ Half \in Nat \ {0} /\ TableSize \in Nat /\ FrameLines \in Nat \ {0}
    /\ CountBytes \subseteq 0..(2 * Half - 1)
    /\ UnitSizes \subseteq Nat \ {0}

None == -1

VARIABLES
    table,          \* the memory at a1bx:a1tx
    indirect,       \* dmapx & 0x40
    unit,           \* bytes of one transfer, from dmapx & 7
    enabled,        \* the channel's bit of m_HDMAEnable
    a2ax, ntlrx, dasx,
    line,           \* lines processed in this frame
    out,            \* where the data of the last line came from, or None
    rewound         \* enabled since BeginHDMA: not switched on mid-frame

vars == << table, indirect, unit, enabled, a2ax, ntlrx, dasx, line, out, rewound >>
setting == << table, indirect, unit >>

Peek(a) == IF a < TableSize THEN table[a] ELSE 0

(* Registers hold 16 and 8 bits; no table of the bound reaches the limits. *)
TypeOK ==
    /\ table \in [0..(TableSize - 1) -> CountBytes]
    /\ indirect \in BOOLEAN /\ enabled \in BOOLEAN /\ rewound \in BOOLEAN
    /\ unit \in UnitSizes
    /\ a2ax \in Nat /\ dasx \in Nat
    /\ ntlrx \in 0..(2 * Half - 1)
    /\ line \in 0..FrameLines
    /\ out \in Nat \cup {None}

(* A frame is about to start; a reset leaves ones in the registers.        *)
Init ==
    /\ table \in [0..(TableSize - 1) -> CountBytes]
    /\ indirect \in BOOLEAN /\ unit \in UnitSizes
    /\ enabled = FALSE /\ rewound = FALSE
    /\ a2ax = TableSize /\ ntlrx = 2 * Half - 1 /\ dasx = 0
    /\ line = FrameLines /\ out = None

(* BeginHDMA, from ExecuteFrame.                                           *)
BeginHDMA ==
    /\ line = FrameLines
    /\ line' = 0 /\ out' = None
    /\ rewound' = enabled
    /\ IF enabled THEN a2ax' = 0 /\ ntlrx' = 0 ELSE UNCHANGED << a2ax, ntlrx >>
    /\ UNCHANGED << setting, enabled, dasx >>

(* The game writes $420C, at any time.                                     *)
SetHDMAEnable ==
    /\ enabled' = ~enabled
    /\ rewound' = FALSE
    /\ UNCHANGED << setting, a2ax, ntlrx, dasx, line, out >>

-----------------------------------------------------------------------------
(* One transfer from address d; a direct table goes on behind its data.    *)
Send(d, next) ==
    /\ out' = d
    /\ dasx' = d + unit
    /\ a2ax' = IF indirect THEN next ELSE d + unit

(* An entry is used up when the low bits of ntlrx are 0.                   *)
UsedUp == ntlrx % Half = 0

(* A count byte of 0 ends the table.                                       *)
Ends(b) == b = 0

(* The first line of an entry always sends; its count byte goes down, and  *)
(* so 0x80 becomes 127 lines without the repeat bit.                       *)
NextEntry ==
    LET b == Peek(a2ax) IN
    /\ ~Ends(b)
    /\ ntlrx' = b - 1
    /\ IF indirect THEN Send(Peek(a2ax + 1), a2ax + 3) ELSE Send(a2ax + 1, a2ax + 1)

(* The 0 is fetched again on every line.                                   *)
EndOfTable ==
    /\ Ends(Peek(a2ax))
    /\ ntlrx' = 0
    /\ out' = None
    /\ UNCHANGED << a2ax, dasx >>

(* The line is skipped unless the repeat bit is still there.  The mutant   *)
(* tests it with <= for <.                                                 *)
SkippedMutant(n) == n <= Half
Skipped(n) == n < Half

SameEntry ==
    /\ ntlrx' = ntlrx - 1
    /\ IF Skipped(ntlrx - 1)
       THEN out' = None /\ UNCHANGED << a2ax, dasx >>
       ELSE Send(dasx, a2ax)

ProcessHDMACh ==
    /\ enabled /\ line < FrameLines
    /\ line' = line + 1
    /\ IF UsedUp THEN NextEntry \/ EndOfTable ELSE SameEntry
    /\ UNCHANGED << setting, enabled, rewound >>

(* ProcessHDMA passes over a channel that is not enabled.                  *)
NotEnabled ==
    /\ ~enabled /\ line < FrameLines
    /\ line' = line + 1 /\ out' = None
    /\ UNCHANGED << setting, enabled, a2ax, ntlrx, dasx, rewound >>

Next == BeginHDMA \/ SetHDMAEnable \/ ProcessHDMACh \/ NotEnabled

Spec == Init /\ [][Next]_vars
-----------------------------------------------------------------------------
(* What a table means, entry by entry and independent of the registers.    *)

Lines(b) == IF b % Half = 0 THEN Half ELSE b % Half
Repeats(b) == b > Half
Sends(b) == IF Repeats(b) THEN Lines(b) ELSE 1

(* Where the k-th entry lies, and the first line it holds for.             *)
Entry[k \in 0..FrameLines] ==
    IF k = 0 THEN [at |-> 0, line |-> 0]
    ELSE LET e == Entry[k - 1]
             b == Peek(e.at)
         IN IF b = 0 THEN e
            ELSE [at |-> e.at + 1 + (IF indirect THEN 2 ELSE unit * Sends(b)),
                  line |-> e.line + Lines(b)]

(* The address the data of line l come from.                               *)
Expected(l) ==
    LET holding == {k \in 0..FrameLines :
                       LET e == Entry[k] IN
                       /\ Peek(e.at) # 0
                       /\ e.line <= l /\ l < e.line + Lines(Peek(e.at))}
    IN IF holding = {} THEN None
       ELSE LET e == Entry[CHOOSE k \in holding : TRUE]
                first == IF indirect THEN Peek(e.at + 1) ELSE e.at + 1
            IN IF l = e.line \/ Repeats(Peek(e.at)) THEN first + unit * (l - e.line)
               ELSE None

(* A channel enabled when the frame starts sends on every line what its    *)
(* table says, and nothing once the table has ended.                       *)
FollowsTable == (rewound /\ line > 0) => out = Expected(line - 1)
=============================================================================
