---------------------------- MODULE SnesApuProofs ----------------------------
(***************************************************************************)
(* Proofs about SnesApu for every value of its constants.                  *)
(***************************************************************************)
EXTENDS SnesApu, SequenceTheorems, TLAPS

(* Some instruction is the longest.                                        *)
LEMMA MaxCostFacts == /\ MaxCost \in Nat \ {0}
                      /\ \A c \in SpcCosts : c \in Nat /\ 0 < c /\ c <= MaxCost
<1>1. IsMaxCost(MaxCost)
  BY CostAssumption DEF MaxCost
<1>2. QED
  BY <1>1, ClockAssumption DEF IsMaxCost

(* What a queue holds after its front is taken.                            *)
LEMMA DequeueFacts ==
  ASSUME queue \in Queues(Writes), ~IsEmpty(queue)
  PROVE  LET q == Dequeue(queue) IN
         /\ Head(queue.live) = queue.live[1]
         /\ Head(queue.live) \in Writes
         /\ q.live \in Seq(Writes)
         /\ q.head = queue.head + 1
         /\ Len(q.live) = Len(queue.live) - 1
         /\ Tl(q) = Tl(queue)
         /\ \A i \in 1..Len(q.live) : q.live[i] = queue.live[i + 1]
  BY DEF Queues, IsEmpty, Dequeue, Tl

(* What a queue holds after a write is appended.                          *)
LEMMA EnqueueFacts ==
  ASSUME queue \in Queues(Writes), NEW e \in Writes
  PROVE  LET q == Enqueue(queue, e) IN
         /\ q.live \in Seq(Writes)
         /\ q.head = IF IsEmpty(queue) THEN 0 ELSE queue.head
         /\ Len(q.live) = Len(queue.live) + 1
         /\ \A i \in 1..Len(queue.live) : q.live[i] = queue.live[i]
         /\ q.live[Len(queue.live) + 1] = e
  BY DEF Queues, IsEmpty, Enqueue

(* The program starts in the invariant ...                                 *)
THEOREM InitIInv == Init => IInv
  BY MaxCostFacts, ClockAssumption, BurstAssumption, BoundAssumption, QueueSizeAssumption
  DEF Init, IInv, TypeOK, PortOrder, ControlInv, ClockInv, InstantInv,
      BypassInv, StampInv, EmptyQueue, Tl, IsEmpty, Queues
USE QueueSizeAssumption, PortsAssumption, ClockAssumption, BurstAssumption,
    BoundAssumption


(* Taking the front write keeps the queue in order and the stamps sorted.  *)
LEMMA ApplyFrontFacts ==
  ASSUME IInv, ~IsEmpty(queue), ApplyFront, UNCHANGED << issued, cpuTime >>
  PROVE  /\ queue' \in Queues(Writes) /\ Tl(queue') = Tl(queue)
         /\ apu_w' \in [Ports -> 0..MaxWrites]
         /\ applied' = applied + 1 /\ applied' \in 0..MaxWrites
         /\ carried' \in Nat
         /\ PortOrder' /\ StampInv'
         /\ \A i \in DOMAIN queue'.live : \E j \in DOMAIN queue.live :
               queue'.live[i] = queue.live[j]
<1>0. /\ queue \in Queues(Writes) /\ Tl(queue) <= QueueSize /\ PortOrder /\ StampInv
      /\ issued \in 0..MaxWrites /\ applied \in 0..MaxWrites /\ carried \in Nat
      /\ cpuTime \in Nat /\ apu_w \in [Ports -> 0..MaxWrites]
  BY DEF IInv, TypeOK
<1> DEFINE n == Len(queue.live)
           new == queue'.live
           front == Head(queue.live)
<1>2. /\ queue.live \in Seq(Writes) /\ queue.head \in 0..QueueSize
      /\ n \in Nat /\ 0 < n /\ DOMAIN queue.live = 1..n
  BY <1>0 DEF Queues, IsEmpty
<1>1. queue' = Dequeue(queue)
  BY DEF ApplyFront
<1>3. /\ front = queue.live[1] /\ front \in Writes
      /\ new \in Seq(Writes) /\ Len(new) = n - 1 /\ DOMAIN new = 1..(n - 1)
      /\ \A i \in 1..(n - 1) : new[i] = queue.live[i + 1]
  BY <1>0, <1>1, <1>2, DequeueFacts
<1>6. queue' \in Queues(Writes) /\ Tl(queue') = Tl(queue)
  BY <1>0, <1>1, <1>2, <1>3 DEF Queues, Tl, Dequeue
<1>4. front.id = applied + 1 /\ front.id \in 1..MaxWrites /\ front.port \in Ports
  <2>1. queue.live[1].id = applied + 1
    BY <1>0, <1>2 DEF PortOrder
  <2>2. QED
    BY <1>3, <2>1 DEF Writes
<1>5. applied' = applied + 1 /\ applied' \in 0..MaxWrites
  BY <1>0, <1>4, BoundAssumption DEF ApplyFront
<1>7. apu_w' \in [Ports -> 0..MaxWrites]
  <2>1. apu_w' = [apu_w EXCEPT ![front.port] = front.id]
    BY DEF ApplyFront
  <2>2. QED
    BY <1>0, <1>4, <2>1, BoundAssumption
<1>8. /\ carried' \in Nat /\ carried' <= n - 1
      /\ \A i \in 1..(n - 1) : i > carried' => i + 1 > carried
  <2>1. carried <= n
    BY <1>0 DEF StampInv
  <2>2. carried' = IF carried - 1 < 0 THEN 0 ELSE carried - 1
    BY DEF ApplyFront, Min0
  <2>3. QED
    BY <1>0, <1>2, <2>1, <2>2
<1> HIDE DEF n, new, front
<1>9. PortOrder'
  <2>1. Len(new) = issued' - applied'
    BY <1>0, <1>2, <1>3, <1>5 DEF PortOrder, n
  <2>2. ASSUME NEW i \in DOMAIN new PROVE new[i].id = applied' + i
    <3>1. i \in 1..(n - 1) /\ i + 1 \in 1..n /\ i \in Int
      BY <1>2, <1>3
    <3>2. queue.live[i + 1].id = applied + (i + 1)
      BY <1>0, <1>2, <3>1 DEF PortOrder
    <3>3. new[i].id = applied + (i + 1)
      BY <1>3, <3>1, <3>2
    <3>4. QED
      BY <1>0, <1>5, <3>1, <3>3
  <2>3. QED
    BY <2>1, <2>2 DEF PortOrder, new
<1>10. StampInv'
  <2> SUFFICES ASSUME NEW i \in DOMAIN new, i > carried'
               PROVE  /\ new[i].cycle <= cpuTime
                      /\ \A j \in DOMAIN new :
                            i <= j => new[i].cycle <= new[j].cycle
    BY <1>3, <1>8 DEF StampInv, new
  <2>1. i \in 1..(n - 1) /\ i + 1 \in DOMAIN queue.live /\ i + 1 > carried /\ i \in Int
    BY <1>2, <1>3, <1>8
  <2>2. queue.live[i + 1].cycle <= cpuTime
    BY <1>0, <2>1 DEF StampInv
  <2>3. ASSUME NEW j \in DOMAIN new, i <= j
        PROVE  new[i].cycle <= new[j].cycle
    <3>1. j \in 1..(n - 1) /\ j + 1 \in DOMAIN queue.live /\ i + 1 <= j + 1
      BY <1>2, <1>3, <2>1, <2>3
    <3>2. queue.live[i + 1].cycle <= queue.live[j + 1].cycle
      BY <1>0, <2>1, <3>1 DEF StampInv
    <3>3. QED
      BY <1>3, <2>1, <3>1, <3>2
  <2>4. QED
    BY <1>3, <2>1, <2>2, <2>3
<1>11. \A i \in DOMAIN new : \E j \in DOMAIN queue.live : new[i] = queue.live[j]
  <2>1. ASSUME NEW i \in DOMAIN new PROVE i + 1 \in DOMAIN queue.live /\ new[i] = queue.live[i + 1]
    BY <1>2, <1>3
  <2>2. QED
    BY <2>1
<1>12. QED
  BY <1>5, <1>6, <1>7, <1>8, <1>9, <1>10, <1>11 DEF new

(* Queuing a write under the present CPU time keeps them so as well.       *)
LEMMA EnqueueWriteFacts ==
  ASSUME IInv, NEW p \in Ports, EnqueueWrite(p)
  PROVE  /\ queue' \in Queues(Writes)
         /\ Tl(queue') <= QueueSize
         /\ Tl(queue') <= Tl(queue) + 1
         /\ PortOrder' /\ StampInv' /\ InstantInv'
<1> DEFINE e == [cycle |-> cpuTime, port |-> p, id |-> issued + 1]
<1>t. /\ queue \in Queues(Writes) /\ Tl(queue) <= QueueSize
      /\ PortOrder /\ StampInv /\ InstantInv
      /\ issued \in 0..MaxWrites /\ applied \in 0..MaxWrites /\ carried \in Nat
      /\ cpuTime \in Nat /\ burst \in 0..MaxBurst /\ spcCounter \in Nat
  BY DEF IInv, TypeOK
<1>0. queue.live \in Seq(Writes) /\ queue.head \in 0..QueueSize /\ Len(queue.live) \in Nat
  BY <1>t DEF Queues
<1>1. e \in Writes /\ queue' = Enqueue(queue, e) /\ CanEnqueue(queue)
  BY <1>t, BoundAssumption DEF EnqueueWrite, Writes
<1> HIDE DEF e
<1>2. /\ queue'.live \in Seq(Writes)
      /\ queue'.head = IF IsEmpty(queue) THEN 0 ELSE queue.head
      /\ Len(queue'.live) = Len(queue.live) + 1
      /\ \A i \in 1..Len(queue.live) : queue'.live[i] = queue.live[i]
      /\ queue'.live[Len(queue.live) + 1] = e
  BY <1>t, <1>1, EnqueueFacts
<1>3. Tl(queue') <= QueueSize /\ Tl(queue') <= Tl(queue) + 1
  BY <1>t, <1>0, <1>1, <1>2 DEF CanEnqueue, IsEmpty, Tl
<1>4. queue' \in Queues(Writes)
  BY <1>0, <1>1, <1>2 DEF Queues, Enqueue
<1>5. DOMAIN queue.live = 1..Len(queue.live)
      /\ DOMAIN queue'.live = 1..(Len(queue.live) + 1)
  BY <1>0, <1>2
<1>6. e.cycle = cpuTime /\ e.id = issued + 1
  BY DEF e
<1>7. UNCHANGED << applied, carried, cpuTime, spcCounter, pc, cont >>
      /\ issued' = issued + 1 /\ burst' = burst + 1 /\ pc = "cpu"
  BY DEF EnqueueWrite, clocks
<1>8. PortOrder'
  <2>1. Len(queue'.live) = issued' - applied'
    BY <1>t, <1>0, <1>2, <1>7 DEF PortOrder
  <2>2. ASSUME NEW i \in DOMAIN queue'.live PROVE queue'.live[i].id = applied' + i
    <3>1. CASE i \in 1..Len(queue.live)
      BY <1>t, <1>2, <1>5, <1>7, <3>1 DEF PortOrder
    <3>2. CASE i = Len(queue.live) + 1
      BY <1>t, <1>0, <1>2, <1>6, <1>7, <3>2 DEF PortOrder
    <3>3. QED
      BY <1>0, <1>5, <3>1, <3>2
  <2>3. QED
    BY <1>t, <2>1, <2>2 DEF PortOrder
<1>9. StampInv'
  <2>0. carried' <= Len(queue'.live)
    BY <1>t, <1>0, <1>2, <1>7 DEF StampInv
  <2> SUFFICES ASSUME NEW i \in DOMAIN queue'.live, i > carried'
               PROVE  /\ queue'.live[i].cycle <= cpuTime'
                      /\ \A j \in DOMAIN queue'.live :
                            i <= j => queue'.live[i].cycle <= queue'.live[j].cycle
    BY <1>t, <2>0 DEF StampInv
  <2>1. queue'.live[i].cycle <= cpuTime
    <3>1. CASE i \in 1..Len(queue.live)
      BY <1>t, <1>2, <1>5, <1>7, <3>1 DEF StampInv
    <3>2. CASE i = Len(queue.live) + 1
      BY <1>t, <1>2, <1>6, <3>2
    <3>3. QED
      BY <1>0, <1>5, <3>1, <3>2
  <2>2. ASSUME NEW j \in DOMAIN queue'.live, i <= j
        PROVE  queue'.live[i].cycle <= queue'.live[j].cycle
    <3>1. CASE j \in 1..Len(queue.live)
      <4>1. i \in 1..Len(queue.live)
        BY <1>0, <1>5, <2>2, <3>1
      <4>2. QED
        BY <1>t, <1>2, <1>5, <1>7, <2>2, <3>1, <4>1 DEF StampInv
    <3>2. CASE j = Len(queue.live) + 1
      BY <1>2, <1>6, <2>1, <3>2
    <3>3. QED
      BY <1>0, <1>5, <3>1, <3>2
  <2>3. QED
    BY <1>7, <2>1, <2>2
<1>10. InstantInv'
  <2> SUFFICES ASSUME spcCounter = cpuTime
               PROVE  /\ Tl(queue') <= burst' /\ carried' = 0
                      /\ \A i \in DOMAIN queue'.live : queue'.live[i].cycle = cpuTime'
    BY <1>t, <1>7 DEF InstantInv
  <2>1. Tl(queue) <= burst /\ carried = 0
        /\ \A i \in DOMAIN queue.live : queue.live[i].cycle = cpuTime
    BY <1>t, <1>7 DEF InstantInv
  <2>2. Tl(queue') <= burst'
    BY <1>t, <1>0, <1>2, <1>3, <1>7, <2>1 DEF Tl
  <2>3. ASSUME NEW i \in DOMAIN queue'.live PROVE queue'.live[i].cycle = cpuTime
    <3>1. CASE i \in 1..Len(queue.live)
      BY <1>2, <1>5, <2>1, <3>1
    <3>2. CASE i = Len(queue.live) + 1
      BY <1>2, <1>6, <3>2
    <3>3. QED
      BY <1>0, <1>5, <3>1, <3>2
  <2>4. QED
    BY <1>7, <2>1, <2>2, <2>3
<1>11. QED
  BY <1>3, <1>4, <1>8, <1>9, <1>10
(* The parts of the invariant that a step leaving the queue and its        *)
(* serial numbers alone cannot disturb.                                    *)
LEMMA QueueUntouched ==
  ASSUME IInv, UNCHANGED << queue, issued, applied, carried, cpuTime >>
  PROVE  /\ queue' \in Queues(Writes) /\ Tl(queue') <= QueueSize
         /\ issued' \in 0..MaxWrites /\ applied' \in 0..MaxWrites
         /\ carried' \in Nat /\ cpuTime' \in Nat
         /\ PortOrder' /\ StampInv'
  BY DEF IInv, TypeOK, PortOrder, StampInv, Tl

(* SyncSPC grants the SPC what it lacks, or finds that it lacks nothing.   *)
LEMMA SyncSPCFacts ==
  ASSUME IInv, pc = "cpu", NEW k \in {"read", "write", "frame"}, SyncSPC(k),
         burst' \in 0..MaxBurst, burst <= burst',
         UNCHANGED << queue, issued, applied, carried, apu_w >>,
         k = "write" => issued < MaxWrites,
         k = "frame" => cpuTime >= FrameCycles,
         (k = "write" /\ spcCounter = cpuTime) => IsEmpty(queue)
  PROVE  IInv'
<1>1. /\ cont' = k /\ cpuTime' = cpuTime
      /\ \/ /\ cpuTime > spcCounter /\ pc' = "run" /\ spcCounter' = cpuTime
            /\ spcCycles' = spcCycles + (cpuTime - spcCounter)
         \/ /\ spcCounter = cpuTime /\ pc' = "ret"
            /\ UNCHANGED << spcCycles, spcCounter >>
  BY DEF SyncSPC, Grant, IInv, TypeOK, ClockInv
<1>2. TypeOK'
  BY <1>1, QueueUntouched DEF IInv, TypeOK
<1>3. PortOrder' /\ StampInv' /\ Tl(queue') <= QueueSize
  BY <1>1, QueueUntouched
<1>4. ControlInv'
  BY <1>1 DEF ControlInv
<1>5. ClockInv'
  BY <1>1 DEF IInv, TypeOK, ClockInv
<1>6. InstantInv'
  BY <1>1 DEF IInv, TypeOK, InstantInv, Queues, Tl
<1>7. BypassInv'
  BY <1>1 DEF BypassInv, IsEmpty
<1>8. QED
  BY <1>2, <1>3, <1>4, <1>5, <1>6, <1>7 DEF IInv

(* ... no step of the CPU, of the SPC or of a synchronisation leaves it ...*)
THEOREM NextIInv == IInv /\ [Next]_vars => IInv'
<1> SUFFICES ASSUME IInv, [Next]_vars PROVE IInv'
  OBVIOUS
<1>t. TypeOK
  BY DEF IInv
<1>1. CASE CpuAdvance
  <2>1. PICK d \in CpuSteps : cpuTime' = cpuTime + d
    BY <1>1 DEF CpuAdvance
  <2>2. d \in Nat /\ 0 < d /\ cpuTime \in Nat /\ cpuTime' \in Nat /\ cpuTime < cpuTime'
    BY <1>t, <2>1 DEF TypeOK
  <2>3. TypeOK'
    BY <1>1, <1>t, <2>2 DEF CpuAdvance, TypeOK
  <2>4. PortOrder' /\ Tl(queue') <= QueueSize /\ ControlInv' /\ ClockInv' /\ BypassInv'
    BY <1>1, <1>t, <2>2
    DEF CpuAdvance, IInv, TypeOK, PortOrder, ControlInv, ClockInv, BypassInv, Tl, IsEmpty
  <2>5. InstantInv'
    BY <1>1, <1>t, <2>2 DEF CpuAdvance, IInv, TypeOK, ClockInv, InstantInv
  <2>6. StampInv'
    <3>1. queue.live \in Seq(Writes)
      BY <1>t DEF TypeOK, Queues
    <3>2. \A i \in DOMAIN queue.live : queue.live[i] \in Writes
      BY <3>1
    <3>3. \A i \in DOMAIN queue.live : queue.live[i].cycle \in Nat
      BY <3>2 DEF Writes
    <3>4. QED
      BY <1>1, <2>2, <3>3 DEF CpuAdvance, IInv, StampInv
  <2>7. QED
    BY <2>3, <2>4, <2>5, <2>6 DEF IInv
<1>2. ASSUME NEW p \in Ports, EnqueueWrite(p) PROVE IInv'
  <2>1. TypeOK'
    BY <1>2, <1>t, EnqueueWriteFacts DEF EnqueueWrite, clocks, TypeOK
  <2>2. ControlInv' /\ ClockInv' /\ BypassInv'
    BY <1>2, <1>t DEF EnqueueWrite, clocks, IInv, ControlInv, ClockInv, BypassInv
  <2>3. QED
    BY <1>2, <2>1, <2>2, EnqueueWriteFacts DEF IInv
<1>3. CASE WriteToFullQueue
  \* Had the SPC been granted everything, only the writes of this instant
  \* would be queued, and they do not fill the queue.
  <2>1. spcCounter # cpuTime
    <3>1. ~IsEmpty(queue) /\ Tl(queue) >= QueueSize
      BY <1>3, <1>t DEF WriteToFullQueue, CanEnqueue, TypeOK, Queues, Tl
    <3>2. pc = "cpu" /\ burst < MaxBurst /\ burst \in Nat /\ Tl(queue) \in Nat
      BY <1>3, <1>t DEF WriteToFullQueue, TypeOK, Queues, Tl
    <3>3. QED
      BY <3>1, <3>2 DEF IInv, InstantInv
  <2>2. QED
    BY <1>3, <1>t, <2>1, SyncSPCFacts DEF WriteToFullQueue, TypeOK
<1>4. ASSUME NEW p \in Ports, DirectWrite(p) PROVE IInv'
  <2>1. IsEmpty(queue) /\ issued < MaxWrites /\ issued = applied /\ carried = 0
    BY <1>4, <1>t DEF DirectWrite, IInv, BypassInv, ControlInv, IsEmpty, PortOrder,
                      StampInv, TypeOK
  <2>2. TypeOK'
    BY <1>4, <1>t, <2>1 DEF DirectWrite, clocks, TypeOK
  <2>3. PortOrder' /\ StampInv' /\ Tl(queue') <= QueueSize
    BY <1>4, <1>t, <2>1 DEF DirectWrite, IInv, IsEmpty, PortOrder, StampInv, TypeOK, Tl
  <2>4. ControlInv' /\ ClockInv' /\ InstantInv' /\ BypassInv'
    BY <1>4, <1>t DEF DirectWrite, clocks, IInv, ControlInv, ClockInv, InstantInv,
                      BypassInv, TypeOK
  <2>5. QED
    BY <2>2, <2>3, <2>4 DEF IInv
<1>5. CASE ReadPort
  BY <1>5, <1>t, SyncSPCFacts DEF ReadPort, TypeOK
<1>6. CASE ReadReturn
  <2>1. TypeOK'
    BY <1>6, <1>t DEF ReadReturn, clocks, TypeOK
  <2>2. ControlInv' /\ ClockInv' /\ InstantInv' /\ BypassInv'
    BY <1>6 DEF ReadReturn, clocks, IInv, ControlInv, ClockInv, InstantInv, BypassInv
  <2>3. QED
    BY <1>6, <2>1, <2>2, QueueUntouched DEF ReadReturn, clocks, IInv
<1>7. CASE EndFrame
  BY <1>7, <1>t, SyncSPCFacts DEF EndFrame, FrameSync, TypeOK
<1>8. CASE BeginFrame
  <2>1. /\ cpuTime' \in Nat /\ 0 < cpuTime' /\ spcCounter' = 0 /\ pc' = "cpu" /\ cont' = "none"
        /\ Len(queue.live) \in Nat /\ spcCycles < MaxCost /\ spcCycles >= -BranchExtra
    BY <1>8, <1>t DEF BeginFrame, IInv, TypeOK, ControlInv, ClockInv, Queues
  <2>2. TypeOK'
    BY <1>8, <1>t, <2>1 DEF BeginFrame, TypeOK
  <2>3. PortOrder' /\ Tl(queue') <= QueueSize
    BY <1>8 DEF BeginFrame, IInv, PortOrder, Tl
  <2>4. ControlInv' /\ ClockInv' /\ InstantInv' /\ BypassInv'
    BY <1>8, <1>t, <2>1 DEF BeginFrame, TypeOK, ControlInv, ClockInv, InstantInv, BypassInv
  <2>5. StampInv'
    BY <1>8, <1>t, <2>1 DEF BeginFrame, TypeOK, StampInv, Queues
  <2>6. QED
    BY <2>2, <2>3, <2>4, <2>5 DEF IInv
<1>9. CASE SpcExec
  <2>1. TypeOK'
    BY <1>9, <1>t, MaxCostFacts DEF SpcExec, clocks, TypeOK
  <2>2. ControlInv' /\ ClockInv' /\ InstantInv' /\ BypassInv'
    BY <1>9, <1>t, MaxCostFacts
    DEF SpcExec, clocks, IInv, TypeOK, ControlInv, ClockInv, InstantInv, BypassInv
  <2>3. QED
    BY <1>9, <2>1, <2>2, QueueUntouched DEF SpcExec, clocks, IInv
<1>10. CASE SpcClearPorts
  <2>1. TypeOK'
    BY <1>10, <1>t, MaxCostFacts DEF SpcClearPorts, clocks, TypeOK
  <2>2. ControlInv' /\ ClockInv' /\ InstantInv' /\ BypassInv'
    BY <1>10, <1>t, MaxCostFacts
    DEF SpcClearPorts, clocks, IInv, TypeOK, ControlInv, ClockInv, InstantInv, BypassInv
  <2>3. QED
    BY <1>10, <2>1, <2>2, QueueUntouched DEF SpcClearPorts, clocks, IInv
<1>11. CASE SpcReadPort
  <2>1. TypeOK'
    BY <1>11, <1>t, MaxCostFacts DEF SpcReadPort, clocks, TypeOK
  <2>2. ControlInv' /\ ClockInv' /\ InstantInv' /\ BypassInv'
    BY <1>11, <1>t, MaxCostFacts
    DEF SpcReadPort, clocks, IInv, TypeOK, ControlInv, ClockInv, InstantInv, BypassInv
  <2>3. QED
    BY <1>11, <2>1, <2>2, QueueUntouched DEF SpcReadPort, clocks, IInv
<1>12. CASE SyncQueue
  <2>1. ~IsEmpty(queue) /\ ApplyFront /\ UNCHANGED << pc, cont, clocks, burst, issued >>
    BY <1>12 DEF SyncQueue, HasBefore
  <2>2. TypeOK'
    BY <1>t, <2>1, ApplyFrontFacts DEF clocks, TypeOK
  <2>3. ControlInv' /\ ClockInv' /\ InstantInv' /\ BypassInv'
    BY <1>12, <2>1 DEF SyncQueue, clocks, IInv, ControlInv, ClockInv, InstantInv, BypassInv
  <2>4. QED
    BY <2>1, <2>2, <2>3, ApplyFrontFacts DEF clocks, IInv
<1>13. CASE SpcReadReturn
  <2>1. TypeOK'
    BY <1>13, <1>t, MaxCostFacts DEF SpcReadReturn, clocks, TypeOK
  <2>2. ControlInv' /\ ClockInv' /\ InstantInv' /\ BypassInv'
    BY <1>13, <1>t, MaxCostFacts
    DEF SpcReadReturn, clocks, IInv, TypeOK, ControlInv, ClockInv, InstantInv, BypassInv
  <2>3. QED
    BY <1>13, <2>1, <2>2, QueueUntouched DEF SpcReadReturn, clocks, IInv
<1>14. CASE SpcDone
  <2>1. TypeOK'
    BY <1>14, <1>t, MaxCostFacts DEF SpcDone, Drain, clocks, TypeOK
  <2>2. ControlInv' /\ ClockInv' /\ InstantInv' /\ BypassInv'
    BY <1>14, <1>t, MaxCostFacts
    DEF SpcDone, Drain, Uncovered, clocks, IInv, TypeOK, ControlInv, ClockInv, InstantInv, BypassInv
  <2>3. QED
    BY <1>14, <2>1, <2>2, QueueUntouched DEF SpcDone, Drain, clocks, IInv
<1>15. CASE SyncQueueAll
  <2>1. ~IsEmpty(queue) /\ ApplyFront /\ UNCHANGED << pc, cont, clocks, burst, issued >>
    BY <1>15 DEF SyncQueueAll, HasBefore
  <2>2. TypeOK'
    BY <1>t, <2>1, ApplyFrontFacts DEF clocks, TypeOK
  <2>3. ControlInv' /\ ClockInv' /\ InstantInv' /\ BypassInv'
    BY <1>15, <2>1 DEF SyncQueueAll, clocks, IInv, ControlInv, ClockInv, InstantInv, BypassInv
  <2>4. QED
    BY <2>1, <2>2, <2>3, ApplyFrontFacts DEF clocks, IInv
<1>16. CASE SyncReturn
  <2>1. queue' = EmptyQueue /\ queue.live = << >> /\ issued = applied /\ carried = 0
    BY <1>16, <1>t DEF SyncReturn, IsEmpty, IInv, PortOrder, StampInv, TypeOK
  <2>2. queue' \in Queues(Writes) /\ Tl(queue') = 0 /\ queue'.live = << >>
    BY <2>1 DEF EmptyQueue, Queues, Tl
  <2>3. TypeOK'
    BY <1>16, <1>t, <2>2 DEF SyncReturn, clocks, TypeOK
  <2>4. PortOrder' /\ StampInv' /\ Tl(queue') <= QueueSize
    BY <1>16, <1>t, <2>1, <2>2 DEF SyncReturn, PortOrder, StampInv, TypeOK
  <2>5. ControlInv' /\ ClockInv' /\ InstantInv' /\ BypassInv'
    BY <1>16, <1>t, <2>1, <2>2
    DEF SyncReturn, clocks, IInv, TypeOK, ControlInv, ClockInv, InstantInv, BypassInv, IsEmpty
  <2>6. QED
    BY <2>3, <2>4, <2>5 DEF IInv
<1>17. CASE UNCHANGED vars
  BY <1>17 DEF vars, IInv, TypeOK, PortOrder, ControlInv, ClockInv, InstantInv,
               BypassInv, StampInv, Tl, IsEmpty
<1>18. QED
  BY <1>1, <1>2, <1>3, <1>4, <1>5, <1>6, <1>7, <1>8, <1>9, <1>10, <1>11, <1>12,
     <1>13, <1>14, <1>15, <1>16, <1>17 DEF Next, Cpu, Spc

(* ... and so it holds throughout.                                         *)
THEOREM Invariance == Spec => []IInv
  BY InitIInv, NextIInv, PTL DEF Spec

-----------------------------------------------------------------------------
(* The variables keep their types.                                         *)
THEOREM TypeCorrect == Spec => []TypeOK
  BY Invariance, PTL DEF IInv

(* No write to an APU port is lost, doubled or overtaken, whatever the     *)
(* queue size, the instruction timings and the interleaving.               *)
THEOREM PortOrderHolds == Spec => []PortOrder
  BY Invariance, PTL DEF IInv

(* Whenever SyncSPC returns, the SPC is within one instruction of the CPU. *)
THEOREM CatchUpHolds == Spec => []CatchUp
<1>1. IInv => CatchUp
  BY MaxCostFacts DEF IInv, TypeOK, ClockInv, CatchUp, SpcTime
<1>2. QED
  BY <1>1, Invariance, PTL

(* Whenever SyncSPC returns, what still waits was written at this instant. *)
LEMMA ReadAfterOwnWritesHolds == Spec => []ReadAfterOwnWrites
<1>1. IInv => ReadAfterOwnWrites
  BY DEF IInv, ClockInv, InstantInv, ReadAfterOwnWrites
<1>2. QED
  BY <1>1, Invariance, PTL

(* The SPC leads the CPU by at most the extra cost of a taken branch.      *)
THEOREM SpcLeadBoundedHolds == Spec => []SpcLeadBounded
<1>1. IInv => SpcLeadBounded
  BY DEF IInv, TypeOK, ClockInv, SpcLeadBounded, SpcTime
<1>2. QED
  BY <1>1, Invariance, PTL

(* An SPC port read sees every write of this frame made before it.         *)
LEMMA ReadSeesEarlierHolds == Spec => []ReadSeesEarlier
<1>1. ASSUME IInv, pc = "spcread", ~HasBefore(queue, SpcTime), carried = 0,
             NEW i \in DOMAIN queue.live
      PROVE  queue.live[i].cycle >= SpcTime
  <2>1. queue.live \in Seq(Writes) /\ SpcTime \in Int
    BY <1>1 DEF IInv, TypeOK, Queues, SpcTime
  <2>2. i \in 1..Len(queue.live) /\ 1 \in DOMAIN queue.live /\ ~IsEmpty(queue)
    BY <1>1, <2>1 DEF IsEmpty
  <2>3. queue.live[1].cycle \in Nat /\ queue.live[i].cycle \in Nat
    <3>1. queue.live[1] \in Writes /\ queue.live[i] \in Writes
      BY <2>1, <2>2
    <3>2. QED
      BY <3>1 DEF Writes
  <2>4. queue.live[1].cycle >= SpcTime
    BY <1>1, <2>1, <2>2, <2>3 DEF HasBefore
  <2>5. queue.live[1].cycle <= queue.live[i].cycle
    BY <1>1, <2>2 DEF IInv, StampInv
  <2>6. QED
    BY <2>1, <2>3, <2>4, <2>5
<1>2. IInv => ReadSeesEarlier
  BY <1>1 DEF ReadSeesEarlier
<1>3. QED
  BY <1>2, Invariance, PTL

(* Neither processor misses a write of the other made before its access.   *)
THEOREM ReadsSeeEarlierWritesHolds == Spec => []ReadsSeeEarlierWrites
<1>1. ReadAfterOwnWrites /\ ReadSeesEarlier => ReadsSeeEarlierWrites
  BY DEF ReadsSeeEarlierWrites
<1>2. QED
  BY <1>1, ReadAfterOwnWritesHolds, ReadSeesEarlierHolds, PTL

(* A write shows in its register at most one SPC instruction early.        *)
THEOREM VisibleOnTimeHolds == Spec => VisibleOnTime
<1>1. ASSUME IInv, [Next]_vars, applied' # applied, pc # "ret", carried = 0,
             SpcTime >= 0
      PROVE  Head(queue.live).cycle < SpcTime + MaxCost
  <2>1. pc \in {"spcread", "drain"} /\ ~IsEmpty(queue)
        /\ (pc = "spcread" => HasBefore(queue, SpcTime))
    BY <1>1 DEF Next, Cpu, Spc, CpuAdvance, EnqueueWrite, WriteToFullQueue, DirectWrite,
       ReadPort, ReadReturn, EndFrame, FrameSync, Drain, BeginFrame, SpcExec, SpcClearPorts, SpcReadPort,
       SyncQueue, SpcReadReturn, SpcDone, SyncQueueAll, SyncReturn, vars, HasBefore
  <2>2. queue.live \in Seq(Writes) /\ SpcTime \in Int /\ cpuTime \in Nat
        /\ spcCounter \in Nat /\ spcCycles \in Int
    BY <1>1 DEF IInv, TypeOK, Queues, SpcTime
  <2>3. 1 \in DOMAIN queue.live /\ Head(queue.live) = queue.live[1]
        /\ Head(queue.live).cycle \in Nat
    <3>1. 1 \in DOMAIN queue.live /\ Head(queue.live) = queue.live[1]
          /\ Head(queue.live) \in Writes
      BY <2>1, <2>2 DEF IsEmpty
    <3>2. QED
      BY <3>1 DEF Writes
  <2>4. CASE pc = "spcread"
    BY <1>1, <2>1, <2>2, <2>3, <2>4, MaxCostFacts DEF HasBefore
  <2>5. CASE pc = "drain"
    <3>1. Head(queue.live).cycle <= cpuTime
      BY <1>1, <2>3 DEF IInv, StampInv
    <3>2. spcCounter = cpuTime /\ spcCycles < MaxCost
      BY <1>1, <2>5 DEF IInv, ClockInv
    <3>3. QED
      BY <2>2, <2>3, <3>1, <3>2, MaxCostFacts DEF SpcTime
  <2>6. QED
    BY <2>1, <2>4, <2>5
<1>2. IInv /\ [Next]_vars =>
        [(applied' # applied /\ pc # "ret" /\ carried = 0 /\ SpcTime >= 0)
            => Head(queue.live).cycle < SpcTime + MaxCost]_vars
  BY <1>1
<1>3. QED
  BY <1>2, Invariance, PTL DEF Spec, VisibleOnTime

-----------------------------------------------------------------------------
(* The implementation of ApuMailbox.                                       *)

PendingPorts == [i \in DOMAIN queue.live |-> queue.live[i].port]

(* Appending a write appends its port to the pending ports.                *)
LEMMA AppendPorts ==
  ASSUME queue \in Queues(Writes), queue' \in Queues(Writes), NEW p \in Ports,
         NEW e \in Writes, e.port = p, queue' = Enqueue(queue, e)
  PROVE  PendingPorts' = Append(PendingPorts, p)
<1> DEFINE n == Len(queue.live)
<1>1. queue.live \in Seq(Writes) /\ n \in Nat /\ DOMAIN queue.live = 1..n
  BY DEF Queues
<1>2. /\ DOMAIN queue'.live = 1..(n + 1)
      /\ \A i \in 1..n : queue'.live[i] = queue.live[i]
      /\ queue'.live[n + 1] = e
  BY <1>1, EnqueueFacts
<1>3. PendingPorts \in Seq(Ports) /\ Len(PendingPorts) = n
  <2>1. \A i \in 1..n : queue.live[i] \in Writes
    BY <1>1
  <2>2. \A i \in 1..n : queue.live[i].port \in Ports
    BY <2>1 DEF Writes
  <2>3. QED
    BY <1>1, <2>2 DEF PendingPorts
<1>4. PendingPorts' = [i \in 1..(n + 1) |-> IF i \in 1..n THEN PendingPorts[i] ELSE p]
  <2>1. ASSUME NEW i \in 1..(n + 1)
        PROVE  queue'.live[i].port = IF i \in 1..n THEN PendingPorts[i] ELSE p
    BY <1>1, <1>2 DEF PendingPorts
  <2>2. QED
    BY <1>2, <2>1 DEF PendingPorts
<1> HIDE DEF n, PendingPorts
<1>5. PendingPorts' \in Seq(Ports) /\ Len(PendingPorts') = n + 1
  <2>1. \A i \in 1..n : PendingPorts[i] \in Ports
    BY <1>3
  <2>2. QED
    BY <1>1, <1>4, <2>1 DEF n
<1>6. /\ Append(PendingPorts, p) \in Seq(Ports) /\ Len(Append(PendingPorts, p)) = n + 1
      /\ \A i \in 1..(n + 1) : Append(PendingPorts, p)[i] = PendingPorts'[i]
  BY <1>1, <1>3, <1>4, AppendProperties DEF n
<1>7. QED
  BY <1>5, <1>6, SeqEqual

(* Taking the front write takes the first of the pending ports.            *)
LEMMA TailPorts ==
  ASSUME queue \in Queues(Writes), ~IsEmpty(queue), queue' = Dequeue(queue)
  PROVE  /\ PendingPorts # << >> /\ Head(PendingPorts) = Head(queue.live).port
         /\ PendingPorts' = Tail(PendingPorts)
         /\ Len(PendingPorts) = Len(queue.live)
<1> DEFINE n == Len(queue.live)
<1>1. queue.live \in Seq(Writes) /\ n \in Nat /\ 0 < n /\ DOMAIN queue.live = 1..n
  BY DEF Queues, IsEmpty
<1>2. /\ DOMAIN queue'.live = 1..(n - 1) /\ Head(queue.live) = queue.live[1]
      /\ \A i \in 1..(n - 1) : queue'.live[i] = queue.live[i + 1]
  BY <1>1, DequeueFacts
<1>3. PendingPorts \in Seq(Ports) /\ Len(PendingPorts) = n
  <2>1. \A i \in 1..n : queue.live[i] \in Writes
    BY <1>1
  <2>2. \A i \in 1..n : queue.live[i].port \in Ports
    BY <2>1 DEF Writes
  <2>3. QED
    BY <1>1, <2>2 DEF PendingPorts
<1>4. PendingPorts' = [i \in 1..(n - 1) |-> PendingPorts[i + 1]]
  <2>1. ASSUME NEW i \in 1..(n - 1) PROVE queue'.live[i].port = PendingPorts[i + 1]
    BY <1>1, <1>2 DEF PendingPorts
  <2>2. QED
    BY <1>2, <2>1 DEF PendingPorts
<1>5. Head(PendingPorts) = Head(queue.live).port
  BY <1>1, <1>2, <1>3 DEF PendingPorts
<1> HIDE DEF n, PendingPorts
<1>6. PendingPorts' \in Seq(Ports) /\ Len(PendingPorts') = n - 1
  <2>1. \A i \in 1..(n - 1) : PendingPorts[i + 1] \in Ports
    BY <1>1, <1>3 DEF n
  <2>2. QED
    BY <1>1, <1>4, <2>1 DEF n
<1>7. PendingPorts # << >>
  BY <1>1, <1>3 DEF n
<1>8. /\ Tail(PendingPorts) \in Seq(Ports) /\ Len(Tail(PendingPorts)) = n - 1
      /\ \A i \in 1..(n - 1) : PendingPorts'[i] = Tail(PendingPorts)[i]
  BY <1>1, <1>3, <1>4, <1>7, HeadTailProperties DEF n
<1>9. PendingPorts' = Tail(PendingPorts)
  BY <1>6, <1>8, SeqEqual
<1>10. QED
  BY <1>3, <1>5, <1>7, <1>9 DEF n

(* The queue, the direct write and the two drains behave like a FIFO       *)
(* mailbox: every step is a step of ApuMailbox or leaves it unchanged.     *)
THEOREM RefinesMailbox == Spec => ApuRefinesMailbox
<1>1. Init => Mailbox!Init
  BY DEF Init, Mailbox!Init, EmptyQueue
<1>2. ASSUME IInv, [Next]_vars PROVE [Mailbox!Next]_Mailbox!vars
  <2>t. TypeOK
    BY <1>2 DEF IInv
  <2>1. ASSUME NEW p \in Ports, EnqueueWrite(p) PROVE Mailbox!Write(p)
    <3> DEFINE e == [cycle |-> cpuTime, port |-> p, id |-> issued + 1]
    <3>1. e \in Writes /\ e.port = p /\ queue' = Enqueue(queue, e)
      BY <2>t, <2>1, BoundAssumption DEF EnqueueWrite, TypeOK, Writes
    <3>2. queue' \in Queues(Writes) /\ queue \in Queues(Writes)
      BY <1>2, <2>t, <2>1, EnqueueWriteFacts DEF TypeOK
    <3> HIDE DEF e
    <3>3. PendingPorts' = Append(PendingPorts, p)
      BY <3>1, <3>2, AppendPorts
    <3>4. QED
      BY <2>1, <3>3 DEF EnqueueWrite, Mailbox!Write, PendingPorts
  <2>2. ASSUME NEW p \in Ports, DirectWrite(p) PROVE Mailbox!WriteThrough(p)
    <3>1. queue.live = << >>
      BY <1>2, <2>2 DEF DirectWrite, IInv, BypassInv, IsEmpty
    <3>2. QED
      BY <2>2, <3>1 DEF DirectWrite, Mailbox!WriteThrough
  <2>3. ASSUME ~IsEmpty(queue), ApplyFront, UNCHANGED issued PROVE Mailbox!Arrive
    <3>1. queue \in Queues(Writes) /\ queue' = Dequeue(queue)
      BY <2>t, <2>3 DEF TypeOK, ApplyFront
    <3>2. /\ PendingPorts # << >> /\ Head(PendingPorts) = Head(queue.live).port
          /\ PendingPorts' = Tail(PendingPorts) /\ Len(PendingPorts) = Len(queue.live)
      BY <2>3, <3>1, TailPorts
    <3>3. queue.live \in Seq(Writes) /\ Head(queue.live) = queue.live[1] /\ 1 \in DOMAIN queue.live
      BY <2>3, <3>1 DEF Queues, IsEmpty
    <3>4. Head(queue.live).id = issued - Len(queue.live) + 1
      BY <1>2, <2>t, <3>3 DEF IInv, PortOrder, TypeOK
    <3>5. QED
      BY <2>3, <3>2, <3>4 DEF ApplyFront, Mailbox!Arrive, Mailbox!Oldest, PendingPorts
  <2>4. CASE SyncQueue
    BY <2>3, <2>4 DEF SyncQueue, HasBefore, Mailbox!Next
  <2>5. CASE SyncQueueAll
    BY <2>3, <2>5 DEF SyncQueueAll, Mailbox!Next
  <2>6. CASE SpcClearPorts
    BY <2>6 DEF SpcClearPorts, Mailbox!Clear, Mailbox!Next
  <2>7. CASE SyncReturn
    BY <2>7 DEF SyncReturn, IsEmpty, EmptyQueue, Mailbox!vars
  <2>8. CASE UNCHANGED << queue, apu_w, issued >>
    BY <2>8 DEF Mailbox!vars
  <2>9. CASE \E p \in Ports : EnqueueWrite(p) \/ DirectWrite(p)
    BY <2>1, <2>2, <2>9 DEF Mailbox!Next
  <2>10. QED
    BY <1>2, <2>4, <2>5, <2>6, <2>7, <2>8, <2>9
    DEF Next, Cpu, Spc, CpuAdvance, WriteToFullQueue, ReadPort, ReadReturn, EndFrame, FrameSync, Drain,
        BeginFrame, SpcExec, SpcReadPort, SpcReadReturn, SpcDone, vars
<1>3. QED
  BY <1>1, <1>2, Invariance, PTL DEF Spec, ApuRefinesMailbox, Mailbox!Spec

=============================================================================
