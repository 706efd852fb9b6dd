------------------------------- MODULE SnesApu -------------------------------
(***************************************************************************)
(* The 65816 CPU, the SPC700 and the four APU ports $2140-$2143 between    *)
(* them.  The two processors are emulated in turns by one thread: the CPU  *)
(* runs ahead, and SyncSPC lets the SPC catch up when the CPU reads a      *)
(* port, when the port write queue is full, and when the frame ends.  CPU  *)
(* writes wait in the queue with the CPU time they were made at; the SPC   *)
(* takes those earlier than its own clock when it reads a port.            *)
(*                                                                         *)
(* Sources: src/snes/core/snes.cpp (SyncSPC, Read2000, Write2000,          *)
(* ExecuteFrame), src/snes/apu/snspcio.cpp, src/snes/apu/snspc.c and the   *)
(* SNSPC_OP / SNSPC_ENDOP macros of src/snes/apu/snspc_c.c.                *)
(*                                                                         *)
(* Data written to a port is the serial number of the write; 0 is the      *)
(* value of a cleared port.  The SPC-to-CPU direction (apu_r) is a plain   *)
(* store by the SPC and is one of the steps of SpcExec.                    *)
(***************************************************************************)
EXTENDS SNQueue

CONSTANTS
    Ports,          \* the APU ports
    PortPairs,      \* the sets of ports one bit of the control register clears
    FrameCycles,    \* SNES_CYCLESPERFRAME
    LineDelay,      \* SNES_LINECYCLEDELAY, consumed before a line is executed
    CpuSteps,       \* cycles between two points where the CPU touches the bus
    SpcCosts,       \* cycles of the SPC instructions
    BranchExtra,    \* cycles a taken branch adds to its instruction
    MaxBurst,       \* accesses that can share one CPU time (a DMA chunk)
    MaxWrites       \* bound: port writes explored

ASSUME PortsAssumption == PortPairs \subseteq SUBSET Ports
ASSUME ClockAssumption ==
    /\ FrameCycles \in Nat \ {0}
    /\ LineDelay \in Nat \ {0}
    /\ CpuSteps \subseteq Nat \ {0}
    /\ SpcCosts \subseteq Nat \ {0}
    /\ BranchExtra \in Nat

IsMaxCost(m) == m \in SpcCosts /\ \A c \in SpcCosts : c <= m
MaxCost == CHOOSE m \in SpcCosts : IsMaxCost(m)

ASSUME CostAssumption == \E m \in SpcCosts : IsMaxCost(m)
ASSUME BurstAssumption == MaxBurst \in 1..QueueSize
ASSUME BoundAssumption == MaxWrites \in Nat

VARIABLES
    pc,             \* who runs: see TypeOK
    cont,           \* what the CPU does once SyncSPC returns
    cpuTime,        \* SNCPUGetCounter(SNCPU_COUNTER_FRAME)
    spcCounter,     \* m_Spc.Counter[SNSPC_COUNTER_FRAME]
    spcCycles,      \* m_Spc.Cycles: granted to the SPC and not yet used
    queue,          \* SNSpcIO::m_Queue
    apu_w,          \* m_Regs.apu_w, as serial numbers
    burst,          \* accesses made at the present cpuTime
    issued,         \* serial number of the last write the CPU made
    applied,        \* serial number of the last write stored into apu_w
    carried         \* pending writes stamped in a frame that is over

vars == << pc, cont, cpuTime, spcCounter, spcCycles, queue, apu_w,
           burst, issued, applied, carried >>

clocks == << cpuTime, spcCounter, spcCycles >>

(* SNSPCGetCounter(SNSPC_COUNTER_FRAME)                                    *)
SpcTime == spcCounter - spcCycles

Writes == [cycle : Nat, port : Ports, id : 1..MaxWrites]

TypeOK ==
    /\ pc \in {"cpu", "run", "spcread", "drain", "ret"}
    /\ cont \in {"none", "read", "write", "frame"}
    /\ cpuTime \in Nat
    /\ spcCounter \in Nat
    /\ spcCycles \in Int
    /\ queue \in Queues(Writes)
    /\ apu_w \in [Ports -> 0..MaxWrites]
    /\ burst \in 0..MaxBurst
    /\ issued \in 0..MaxWrites
    /\ applied \in 0..MaxWrites
    /\ carried \in Nat

Init ==
    /\ pc = "cpu" /\ cont = "none"
    /\ cpuTime = LineDelay /\ spcCounter = 0 /\ spcCycles = 0
    /\ queue = EmptyQueue
    /\ apu_w = [p \in Ports |-> 0]
    /\ burst = 0 /\ issued = 0 /\ applied = 0 /\ carried = 0

-----------------------------------------------------------------------------
(* nCycles of SyncSPC: the cycles the CPU is ahead of everything granted   *)
(* so far (CpuTime - SpcTime - Cycles = CpuTime - Counter).  Mutants: a    *)
(* minimum of one cycle before the SPC is run; the unused cycles granted   *)
(* again.                                                                  *)
GrantMutantMin == IF cpuTime > spcCounter + 1 THEN cpuTime - spcCounter ELSE 0
GrantMutantTwice == cpuTime - SpcTime
Grant == cpuTime - spcCounter

(* SyncSPC: grant the SPC these cycles, or return at once when there are   *)
(* none.                                                                   *)
SyncSPC(caller) ==
    /\ cont' = caller
    /\ IF Grant > 0
       THEN /\ pc' = "run"
            /\ spcCycles' = spcCycles + Grant
            /\ spcCounter' = spcCounter + Grant
       ELSE /\ pc' = "ret"
            /\ UNCHANGED << spcCycles, spcCounter >>
    /\ UNCHANGED cpuTime

(* The CPU executes up to its next access to the bus.                      *)
CpuAdvance ==
    /\ pc = "cpu" /\ cpuTime < FrameCycles
    /\ \E d \in CpuSteps : cpuTime' = cpuTime + d
    /\ burst' = 0
    /\ UNCHANGED << pc, cont, spcCounter, spcCycles, queue, apu_w,
                    issued, applied, carried >>

(* Write2000 to a port: queue the write under the CPU time ...             *)
EnqueueWrite(p) ==
    /\ pc = "cpu" /\ burst < MaxBurst /\ issued < MaxWrites
    /\ CanEnqueue(queue)
    /\ queue' = Enqueue(queue, [cycle |-> cpuTime, port |-> p, id |-> issued + 1])
    /\ issued' = issued + 1
    /\ burst' = burst + 1
    /\ UNCHANGED << pc, cont, clocks, apu_w, applied, carried >>

(* ... or, the queue being full, let the SPC catch up first ...            *)
WriteToFullQueue ==
    /\ pc = "cpu" /\ burst < MaxBurst /\ issued < MaxWrites
    /\ ~CanEnqueue(queue)
    /\ burst' = burst + 1
    /\ SyncSPC("write")
    /\ UNCHANGED << queue, apu_w, issued, applied, carried >>

(* ... and store into the port register directly.                          *)
DirectWrite(p) ==
    /\ pc = "ret" /\ cont = "write"
    /\ apu_w' = [apu_w EXCEPT ![p] = issued + 1]
    /\ issued' = issued + 1
    /\ applied' = issued + 1
    /\ pc' = "cpu" /\ cont' = "none"
    /\ UNCHANGED << clocks, queue, burst, carried >>

(* Read2000 from a port: the SPC catches up, then its register is read.    *)
ReadPort ==
    /\ pc = "cpu" /\ burst < MaxBurst
    /\ burst' = burst + 1
    /\ SyncSPC("read")
    /\ UNCHANGED << queue, apu_w, issued, applied, carried >>

ReadReturn ==
    /\ pc = "ret" /\ cont = "read"
    /\ pc' = "cpu" /\ cont' = "none"
    /\ UNCHANGED << clocks, queue, apu_w, burst, issued, applied, carried >>

(* The end of ExecuteFrame: a last SyncSPC; the next ExecuteFrame resets    *)
(* both frame counters.  The CPU keeps the cycles it ran over the frame,   *)
(* the SPC keeps its unused cycles, and the stamps in the queue stay.      *)
(* Its mutant forgets the SyncSPC.                                         *)
FrameSyncMutant == pc' = "ret" /\ cont' = "frame" /\ UNCHANGED clocks
FrameSync == SyncSPC("frame")

EndFrame ==
    /\ pc = "cpu" /\ cpuTime >= FrameCycles
    /\ FrameSync
    /\ UNCHANGED << queue, apu_w, burst, issued, applied, carried >>

BeginFrame ==
    /\ pc = "ret" /\ cont = "frame"
    /\ cpuTime' = (cpuTime - FrameCycles) + LineDelay
    /\ spcCounter' = 0
    /\ burst' = 0
    /\ carried' = Len(queue.live)
    /\ pc' = "cpu" /\ cont' = "none"
    /\ UNCHANGED << spcCycles, queue, apu_w, issued, applied >>

-----------------------------------------------------------------------------
(* One SPC instruction that does not read a port.  The interpreter starts  *)
(* it only when its base cost is covered; a taken branch costs more.       *)
SpcExec ==
    /\ pc = "run"
    /\ \E c \in SpcCosts : \E extra \in {0, BranchExtra} :
          /\ spcCycles >= c
          /\ spcCycles' = spcCycles - (c + extra)
    /\ UNCHANGED << pc, cont, cpuTime, spcCounter, queue, apu_w, burst,
                    issued, applied, carried >>

(* The SPC writes $F1 with the clear bits set.  The pending CPU writes     *)
(* are not looked at.                                                      *)
SpcClearPorts ==
    /\ pc = "run"
    /\ \E c \in SpcCosts : spcCycles >= c /\ spcCycles' = spcCycles - c
    /\ \E S \in SUBSET PortPairs :
          apu_w' = [p \in Ports |-> IF p \in UNION S THEN 0 ELSE apu_w[p]]
    /\ UNCHANGED << pc, cont, cpuTime, spcCounter, queue, burst, issued,
                    applied, carried >>

(* The SPC reads $F4-$F7: SyncQueue takes the writes stamped before the    *)
(* SPC time, then the register is read and the instruction paid for.       *)
SpcReadPort ==
    /\ pc = "run"
    /\ \E c \in SpcCosts : spcCycles >= c
    /\ pc' = "spcread"
    /\ UNCHANGED << cont, clocks, queue, apu_w, burst, issued, applied,
                    carried >>

Min0(n) == IF n < 0 THEN 0 ELSE n

(* The body of the loops of SyncQueue and SyncQueueAll.                    *)
ApplyFront ==
    LET e == Head(queue.live) IN
    /\ apu_w' = [apu_w EXCEPT ![e.port] = e.id]
    /\ applied' = e.id
    /\ queue' = Dequeue(queue)
    /\ carried' = Min0(carried - 1)

SyncQueue ==
    /\ pc = "spcread" /\ HasBefore(queue, SpcTime)
    /\ ApplyFront
    /\ UNCHANGED << pc, cont, clocks, burst, issued >>

SpcReadReturn ==
    /\ pc = "spcread" /\ ~HasBefore(queue, SpcTime)
    /\ \E c \in SpcCosts : spcCycles >= c /\ spcCycles' = spcCycles - c
    /\ pc' = "run"
    /\ UNCHANGED << cont, cpuTime, spcCounter, queue, apu_w, burst,
                    issued, applied, carried >>

(* nCycles < the cost of some instruction.                                 *)
Uncovered == \E c \in SpcCosts : spcCycles < c

(* SyncSPC calls SyncQueueAll.  Mutants: it does not; the queue is reset   *)
(* before it is drained.                                                   *)
DrainMutantSkip == pc' = "ret" /\ UNCHANGED queue
DrainMutantReset == pc' = "drain" /\ queue' = EmptyQueue
Drain == pc' = "drain" /\ UNCHANGED queue

(* The next instruction is not covered: the interpreter returns, and       *)
(* SyncSPC goes on to SyncQueueAll.                                        *)
SpcDone ==
    /\ pc = "run"
    /\ Uncovered
    /\ Drain
    /\ UNCHANGED << cont, clocks, apu_w, burst, issued, applied, carried >>

SyncQueueAll ==
    /\ pc = "drain" /\ ~IsEmpty(queue)
    /\ ApplyFront
    /\ UNCHANGED << pc, cont, clocks, burst, issued >>

SyncReturn ==
    /\ pc = "drain" /\ IsEmpty(queue)
    /\ queue' = EmptyQueue
    /\ pc' = "ret"
    /\ UNCHANGED << cont, clocks, apu_w, burst, issued, applied, carried >>

-----------------------------------------------------------------------------
Cpu == \/ CpuAdvance
       \/ \E p \in Ports : EnqueueWrite(p) \/ DirectWrite(p)
       \/ WriteToFullQueue
       \/ ReadPort \/ ReadReturn
       \/ EndFrame \/ BeginFrame

Spc == \/ SpcExec \/ SpcClearPorts
       \/ SpcReadPort \/ SyncQueue \/ SpcReadReturn
       \/ SpcDone \/ SyncQueueAll \/ SyncReturn

Next == Cpu \/ Spc

(* One thread executes both processors and never blocks.                   *)
Spec == Init /\ [][Next]_vars

FairSpec == Spec /\ WF_vars(Next)
-----------------------------------------------------------------------------
(* Properties.                                                             *)

(* No CPU write is lost, doubled or overtaken: the queue holds exactly the *)
(* writes made and not yet in a register, oldest first.  The write that    *)
(* bypasses a full queue (Write2000) relies on SyncSPC having emptied it.  *)
PortOrder ==
    /\ Len(queue.live) = issued - applied
    /\ \A i \in DOMAIN queue.live : queue.live[i].id = applied + i

(* After SyncSPC the SPC is less than one instruction behind the CPU       *)
(* ("this causes it to catch up", Write2000).                              *)
CatchUp == pc = "ret" => cpuTime - SpcTime < MaxCost

(* When a CPU port read or the frame end has synchronised, no write made   *)
(* at an earlier CPU time is still waiting, so the SPC's answer can depend *)
(* on all of them.                                                         *)
ReadAfterOwnWrites ==
    pc = "ret" => /\ carried = 0
                  /\ \A i \in DOMAIN queue.live : queue.live[i].cycle = cpuTime

(* The SPC overtakes the CPU by no more than a taken branch.               *)
SpcLeadBounded == SpcTime <= cpuTime + BranchExtra

(* What SyncQueue leaves waiting when the SPC reads a port was written     *)
(* at the SPC's time or later (stamps from an earlier frame aside).        *)
ReadSeesEarlier ==
    (pc = "spcread" /\ ~HasBefore(queue, SpcTime) /\ carried = 0)
        => \A i \in DOMAIN queue.live : queue.live[i].cycle >= SpcTime

(* Neither processor misses what the other wrote before: both hold.        *)
ReadsSeeEarlierWrites == ReadAfterOwnWrites /\ ReadSeesEarlier

(* A write shows in its register at most one SPC instruction before the    *)
(* time it was made at: the draining after SNSPCExecute runs ahead of an   *)
(* SPC that stopped short of the CPU time.  Frame-start leftovers (a       *)
(* negative SPC time, a stamp of the last frame) are excluded here.        *)
VisibleOnTime ==
    [][(applied' # applied /\ pc # "ret" /\ carried = 0 /\ SpcTime >= 0)
          => Head(queue.live).cycle < SpcTime + MaxCost]_vars

(* Every write reaches its register: again and again, none is on its way.  *)
EveryWriteArrives == []<>(applied = issued)

(* The ports are a first-in first-out mailbox.                             *)
Mailbox == INSTANCE ApuMailbox
    WITH written <- issued,
         pending <- [i \in DOMAIN queue.live |-> queue.live[i].port],
         register <- apu_w

ApuRefinesMailbox == Mailbox!Spec

(* The inductive invariant behind the properties above.                    *)

(* SyncSPC is entered from the CPU and returns to it.                      *)
ControlInv ==
    /\ (pc = "cpu") <=> (cont = "none")
    /\ cont = "write" => issued < MaxWrites
    /\ cont = "frame" => cpuTime >= FrameCycles

(* The SPC has been granted everything up to the CPU time while SyncSPC    *)
(* runs, and never more; once it has returned, what the SPC could not use  *)
(* does not cover an instruction.                                          *)
ClockInv ==
    /\ spcCounter <= cpuTime
    /\ pc # "cpu" => spcCounter = cpuTime
    /\ pc \in {"cpu", "drain", "ret"} => spcCycles < MaxCost
    /\ spcCycles >= -BranchExtra

(* Between two synchronisations of one CPU instant only the accesses of    *)
(* that instant can have been queued: this is why a full queue always has  *)
(* something for SyncSPC to do.                                            *)
InstantInv ==
    (pc \in {"cpu", "ret"} /\ spcCounter = cpuTime)
        => /\ Tl(queue) <= burst
           /\ carried = 0
           /\ \A i \in DOMAIN queue.live : queue.live[i].cycle = cpuTime

BypassInv == (pc = "ret" /\ cont = "write") => IsEmpty(queue)

(* The stamps of this frame follow those of earlier frames, in order and   *)
(* none above the CPU time.                                                *)
StampInv ==
    /\ carried <= Len(queue.live)
    /\ \A i \in DOMAIN queue.live :
          i > carried =>
            /\ queue.live[i].cycle <= cpuTime
            /\ \A j \in DOMAIN queue.live :
                  i <= j => queue.live[i].cycle <= queue.live[j].cycle

IInv == /\ TypeOK
        /\ Tl(queue) <= QueueSize
        /\ PortOrder
        /\ ControlInv
        /\ ClockInv
        /\ InstantInv
        /\ BypassInv
        /\ StampInv

(* Claims of the source that do not hold.                                  *)

(* snspc_c.c: the order of cycle subtraction and access "prevents the spc  *)
(* from executing ahead of the main cpu".                                  *)
SpcNeverAhead == SpcTime <= cpuTime

(* snqueue.h: "dequeue element only if it is earlier than cycle time       *)
(* given".                                                                 *)
DequeueOnlyEarlier ==
    [][(pc = "spcread" /\ applied' # applied)
          => Head(queue.live).cycle < SpcTime]_vars

(* snspcio.cpp: SyncQueue takes "all pending writes up to cycle time"; a   *)
(* write of an earlier frame is earlier than any time of this one.         *)
SyncQueueComplete ==
    (pc = "spcread" /\ ~HasBefore(queue, SpcTime))
        => /\ carried = 0
           /\ \A i \in DOMAIN queue.live : queue.live[i].cycle >= SpcTime
=============================================================================
