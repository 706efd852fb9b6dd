------------------------------- MODULE SnesDma -------------------------------
(***************************************************************************)
(* General-purpose DMA (MDMA).  ExecuteCPU calls ProcessMDMA with whatever *)
(* is left of a slice; ProcessMDMA serves the enabled channels from the    *)
(* lowest up and stops when the slice is used up, to be called again in    *)
(* the next one.  Writes to the B-bus go in chunks through a buffer, reads *)
(* byte by byte.                                                           *)
(*                                                                         *)
(* Source: src/snes/core/sndma.cpp (ProcessMDMA, ProcessMDMAChFast,        *)
(* ProcessMDMAChRead, and the line of ProcessHDMACh that writes dasx).     *)
(*                                                                         *)
(* The data are left out: what matters is how many bytes move, from where, *)
(* and with which phase of the channel's B-bus pattern.  Both transfer     *)
(* routines start the pattern afresh each time they are entered, and so    *)
(* does TransferData for every chunk.                                      *)
(***************************************************************************)
EXTENDS Integers, FiniteSetsExt

CONSTANTS
    NumChannels,    \* SNESDMAC_CHANNEL_NUM
    Width,          \* 2^16: a1tx and dasx are Uint16
    BufferSize,     \* sizeof(DmaBuffer)
    ByteCycles,     \* SNCPU_CYCLE_SLOW
    Unit,           \* 4, the length of a B-bus pattern
    Sizes,          \* values a game writes to dasx
    Sources,        \* values a game writes to a1tx
    Slices          \* lengths of the slices the CPU is given

Channels == 0..(NumChannels - 1)
Word == 0..(Width - 1)

ASSUME SizeAssumption ==
    /\ NumChannels \in Nat \ {0} /\ Width \in Nat \ {0}
    /\ BufferSize \in Nat \ {0} /\ ByteCycles \in Nat \ {0} /\ Unit \in Nat \ {0}
    /\ BufferSize % Unit = 0
ASSUME InputAssumption ==
    /\ Sizes \subseteq Word /\ Sources \subseteq Word
    /\ Slices \subseteq Nat \ {0}

VARIABLES
    pc,             \* "cpu": outside ProcessMDMA, "mdma": its loop,
                    \* "write" and "read": the two transfer loops
    enable,         \* m_MDMAEnable, as the set of its bits
    chan,           \* m_Channels: direction, address step, a1tx and dasx
    cycles,         \* m_pCPU->Cycles
    uChan,          \* ProcessMDMA's channel
    want,           \* bytes each channel was started with
    sent,           \* bytes each channel has transferred since
    hit             \* channels whose dasx HDMA has overwritten since

vars == << pc, enable, chan, cycles, uChan, want, sent, hit >>

Channel == [read : BOOLEAN, step : {1, 0, -1}, from : Word, a1t : Word, das : Word]

TypeOK ==
    /\ pc \in {"cpu", "mdma", "write", "read"}
    /\ enable \subseteq Channels
    /\ chan \in [Channels -> Channel]
    /\ cycles \in Int
    /\ uChan \in 0..NumChannels
    /\ want \in [Channels -> 0..Width]
    /\ sent \in [Channels -> 0..Width]
    /\ hit \subseteq Channels

Idle == [read |-> FALSE, step |-> 0, from |-> 0, a1t |-> 0, das |-> 0]

Init ==
    /\ pc = "cpu" /\ enable = {}
    /\ chan = [c \in Channels |-> Idle]
    /\ cycles = 0 /\ uChan = 0
    /\ want = [c \in Channels |-> 0] /\ sent = [c \in Channels |-> 0]
    /\ hit = {}

(* dasx = 0 stands for the full 2^16 bytes.                                *)
Count(das) == IF das = 0 THEN Width ELSE das

-----------------------------------------------------------------------------
(* The game sets up some channels and writes $420B.  What it leaves in the *)
(* others does not matter to this DMA.                                     *)
Start ==
    /\ pc = "cpu" /\ enable = {}
    /\ \E S \in SUBSET Channels \ {{}}, s \in Sources, n \in Sizes,
          r \in BOOLEAN, i \in {1, 0, -1} :
          /\ enable' = S
          /\ chan' = [c \in Channels |->
                        IF c \in S
                        THEN [read |-> r, step |-> i, from |-> s, a1t |-> s, das |-> n]
                        ELSE Idle]
          /\ want' = [c \in Channels |-> IF c \in S THEN Count(n) ELSE 0]
          /\ sent' = [c \in Channels |-> 0]
          /\ hit' = {}
    /\ UNCHANGED << pc, cycles, uChan >>

(* HDMA uses dasx of its channel as its own data pointer, whether or not a *)
(* DMA of that channel is suspended (bound: once for every DMA; what the   *)
(* channel sends from then on is not counted).                             *)
HdmaOverwrites ==
    /\ pc = "cpu" /\ enable # {}
    /\ \E c \in enable \ hit, n \in Sizes :
          /\ chan' = [chan EXCEPT ![c].das = n]
          /\ hit' = hit \cup {c}
    /\ UNCHANGED << pc, enable, cycles, uChan, want, sent >>

(* ProcessMDMA starts at channel 0.                                        *)
FirstChannel == 0

(* The next slice in which the CPU has time, with the DMA signal up.       *)
Slice ==
    /\ pc = "cpu" /\ enable # {}
    /\ \E n \in Slices : cycles' = cycles + n
    /\ IF cycles' > 0 THEN pc' = "mdma" /\ uChan' = FirstChannel ELSE UNCHANGED << pc, uChan >>
    /\ UNCHANGED << enable, chan, want, sent, hit >>

(* ProcessMDMA: nothing left, or nothing left to do it with.  The CPU runs *)
(* for what is left of the slice.                                          *)
Return ==
    /\ pc = "mdma" /\ (enable = {} \/ cycles <= 0)
    /\ pc' = "cpu"
    /\ cycles' = IF cycles > 0 THEN 0 ELSE cycles
    /\ UNCHANGED << enable, chan, uChan, want, sent, hit >>

NextChannel ==
    /\ pc = "mdma" /\ enable # {} /\ cycles > 0 /\ uChan \notin enable
    /\ uChan' = uChan + 1
    /\ UNCHANGED << pc, enable, chan, cycles, want, sent, hit >>

ServeChannel ==
    /\ pc = "mdma" /\ cycles > 0 /\ uChan \in enable
    /\ pc' = IF chan[uChan].read THEN "read" ELSE "write"
    /\ UNCHANGED << enable, chan, cycles, uChan, want, sent, hit >>

-----------------------------------------------------------------------------
RoundUp(n, k) == ((n + k - 1) \div k) * k

(* nMaxBytes: the bytes the slice pays for, rounded up to whole patterns.  *)
(* Mutants: no limit; not rounded to patterns; rounded down.               *)
AffordableMutantOpen == Width
AffordableMutantPart == RoundUp(cycles, ByteCycles) \div ByteCycles
AffordableMutantDown == cycles \div ByteCycles
Affordable == RoundUp(RoundUp(cycles, ByteCycles) \div ByteCycles, Unit)

(* nBytes of a chunk: what is left, at most the buffer, at most what the   *)
(* slice pays for and, reading upwards, not past the end of the bank.      *)
Chunk(ch) ==
    Min({Count(ch.das), BufferSize, Affordable}
        \cup (IF ch.step = 1 THEN {Width - ch.a1t} ELSE {}))

(* a1tx and dasx are Uint16.                                               *)
Wrap(n) == n % Width

(* n bytes moved on channel uChan; the loop and then the channel end when  *)
(* the byte count is 0.  The mutant ends a channel by its remaining count  *)
(* before the bytes are taken off.                                         *)
DoneMutant(das, n) == das = n + 1
Done(das, n) == Wrap(das - n) = 0

Transfer(n) ==
    LET ch == chan[uChan] IN
    /\ chan' = [chan EXCEPT ![uChan].a1t = Wrap(@ + ch.step * n),
                            ![uChan].das = Wrap(@ - n)]
    /\ cycles' = cycles - n * ByteCycles
    /\ sent' = IF uChan \in hit THEN sent ELSE [sent EXCEPT ![uChan] = @ + n]
    /\ enable' = IF Done(ch.das, n) THEN enable \ {uChan} ELSE enable
    /\ pc' = IF Done(ch.das, n) \/ cycles' <= 0 THEN "mdma" ELSE pc
    /\ UNCHANGED << uChan, want, hit >>

(* One round of the loop of ProcessMDMAChFast, and of ProcessMDMAChRead.   *)
WriteChunk == pc = "write" /\ Transfer(Chunk(chan[uChan]))
ReadByte == pc = "read" /\ Transfer(1)

Next ==
    \/ Start \/ HdmaOverwrites
    \/ Slice \/ Return \/ NextChannel \/ ServeChannel
    \/ WriteChunk \/ ReadByte

Spec == Init /\ [][Next]_vars

(* The scheduler goes on giving slices (SnesExec, FramesGoOn).             *)
FairSpec == Spec /\ WF_vars(Slice) /\ WF_vars(Return \/ NextChannel \/ ServeChannel)
                 /\ WF_vars(WriteChunk \/ ReadByte)
-----------------------------------------------------------------------------
(* Properties.  A channel HDMA has written to is excused where noted.      *)

(* However a transfer is cut by slices, by the buffer and by the end of    *)
(* the bank, it moves exactly the bytes asked for, from consecutive        *)
(* addresses, and the channel stays enabled as long as bytes are left.     *)
TransferExact ==
    \A c \in Channels \ hit :
        LET ch == chan[c] IN
        /\ c \in enable <=> sent[c] < want[c]
        /\ ch.das = (want[c] - sent[c]) % Width \/ want[c] = 0
        /\ ch.a1t = (ch.from + ch.step * sent[c]) % Width

(* A DMA runs over its slice by less than one pattern.                     *)
OverrunBounded == cycles > -(Unit * ByteCycles)

(* ProcessMDMA serves the lowest enabled channel and never runs past the   *)
(* last one ("assert(uChan < SNESDMAC_CHANNEL_NUM)").                      *)
LowestFirst ==
    /\ pc # "cpu" => \A c \in enable : uChan <= c
    /\ pc \in {"write", "read"} => uChan \in enable

(* A write transfer that stays inside its bank is cut only between         *)
(* patterns, so every byte reaches the B-bus register it is meant for.     *)
PatternInPhase ==
    \A c \in enable \ hit :
        (~chan[c].read /\ (chan[c].step # 1 \/ chan[c].from + want[c] <= Width))
            => sent[c] % Unit = 0

(* A suspended DMA is resumed until it is complete.                        *)
DmaCompletes == (enable # {}) ~> (enable = {})

(* sndma.cpp: "we must transfer a multiple of 4-bytes at a time though".   *)
ChunksAreWhole == \A c \in enable \ hit : ~chan[c].read => sent[c] % Unit = 0
=============================================================================
