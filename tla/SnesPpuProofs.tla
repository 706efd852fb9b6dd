---------------------------- MODULE SnesPpuProofs ----------------------------
(***************************************************************************)
(* Proofs about SnesPpu for every value of its constants.                  *)
(***************************************************************************)
EXTENDS SnesPpu, SequenceTheorems, Arithmetic

USE QueueSizeAssumption, LineAssumption, OamAssumption, MaxWritesAssumption

(* The register operations stay inside Regs.                               *)
LEMMA RegsFacts ==
  ASSUME NEW r \in Regs
  PROVE  /\ NextOam(r) \in Regs
         /\ ReloadOam(r) \in Regs
         /\ \A w \in Writes : Perform(r, w) \in Regs
<1>1. (r.oamaddr + 1) % OamWidth \in 0..(OamWidth - 1)
  BY DEF Regs
<1>2. NextOam(r) \in Regs
  BY <1>1 DEF NextOam, Regs
<1>3. ReloadOam(r) \in Regs
  BY DEF ReloadOam, Regs
<1>4. ASSUME NEW w \in Writes PROVE Perform(r, w) \in Regs
  <2>1. CASE w.reg = "oamadd"
    <3>1. w.val \in 0..(OamWidth - 1)
      BY <2>1 DEF Writes
    <3>2. Perform(r, w) = [r EXCEPT !.oamaddr = w.val, !.latch = w.val]
      BY <2>1 DEF Perform
    <3>3. QED
      BY <3>1, <3>2 DEF Regs
  <2>2. CASE w.reg = "inidisp"
    <3>1. w.val \in BOOLEAN
      BY <2>2 DEF Writes
    <3>2. Perform(r, w) = [r EXCEPT !.blank = w.val]
      BY <2>2 DEF Perform
    <3>3. QED
      BY <3>1, <3>2 DEF Regs
  <2>3. CASE w.reg = "oamdata"
    BY <1>2, <2>3 DEF Perform
  <2>4. QED
    BY <2>1, <2>2, <2>3 DEF Writes
<1>5. QED
  BY <1>2, <1>3, <1>4

(* The queue as a sequence of entries.                                     *)
LEMMA QueueShape ==
  ASSUME queue \in Queues(Entries)
  PROVE  /\ queue.live \in Seq(Entries) /\ queue.head \in 0..QueueSize
         /\ Len(queue.live) \in Nat /\ DOMAIN queue.live = 1..Len(queue.live)
         /\ \A i \in DOMAIN queue.live :
               /\ queue.live[i] \in Entries
               /\ queue.live[i].cycle \in 0..FrameLines
               /\ queue.live[i].num \in Numbers
               /\ queue.live[i].write \in Writes
<1>1. queue.live \in Seq(Entries) /\ queue.head \in 0..QueueSize
  BY DEF Queues
<1>2. \A i \in DOMAIN queue.live : queue.live[i] \in Entries
  BY <1>1
<1>3. QED
  BY <1>1, <1>2 DEF Entries

(* What a queue holds after its front is taken.                            *)
LEMMA DequeueFacts ==
  ASSUME queue \in Queues(Entries), ~IsEmpty(queue), Tl(queue) <= QueueSize,
         queue' = Dequeue(queue)
  PROVE  /\ Head(queue.live) = queue.live[1] /\ 1 \in DOMAIN queue.live
         /\ queue' \in Queues(Entries) /\ Tl(queue') = Tl(queue)
         /\ DOMAIN queue'.live = 1..(Len(queue.live) - 1)
         /\ \A i \in DOMAIN queue'.live :
               i + 1 \in DOMAIN queue.live /\ queue'.live[i] = queue.live[i + 1]
<1>1. queue.live # << >> /\ queue.live \in Seq(Entries) /\ queue.head \in 0..QueueSize
      /\ queue' = [head |-> queue.head + 1, live |-> Tail(queue.live)]
  BY DEF Queues, IsEmpty, Dequeue
<1>2. /\ Tail(queue.live) \in Seq(Entries)
      /\ Len(Tail(queue.live)) = Len(queue.live) - 1
      /\ \A i \in 1..Len(Tail(queue.live)) : Tail(queue.live)[i] = queue.live[i + 1]
  BY <1>1, HeadTailProperties
<1>3. Len(queue.live) \in Nat /\ Len(queue.live) > 0 /\ DOMAIN queue.live = 1..Len(queue.live)
  BY <1>1
<1>4. queue.head + 1 \in 0..QueueSize
  BY <1>1, <1>3 DEF Tl
<1>5. queue' \in Queues(Entries)
  BY <1>1, <1>2, <1>4 DEF Queues
<1>6. Tl(queue') = Tl(queue)
  BY <1>1, <1>2, <1>3 DEF Tl
<1>7. DOMAIN queue'.live = 1..(Len(queue.live) - 1)
      /\ \A i \in DOMAIN queue'.live :
            i + 1 \in DOMAIN queue.live /\ queue'.live[i] = queue.live[i + 1]
  BY <1>1, <1>2, <1>3
<1>8. Head(queue.live) = queue.live[1] /\ 1 \in DOMAIN queue.live
  BY <1>1, <1>3
<1>9. QED
  BY <1>5, <1>6, <1>7, <1>8

(* What a queue holds after a write is appended.                           *)
LEMMA EnqueueFacts ==
  ASSUME queue \in Queues(Entries), NEW e \in Entries, Tl(queue) <= QueueSize,
         CanEnqueue(queue), queue' = Enqueue(queue, e)
  PROVE  /\ queue' \in Queues(Entries) /\ Tl(queue') <= QueueSize
         /\ DOMAIN queue'.live = 1..(Len(queue.live) + 1)
         /\ \A i \in DOMAIN queue'.live :
               \/ i \in DOMAIN queue.live /\ queue'.live[i] = queue.live[i]
               \/ i = Len(queue.live) + 1 /\ queue'.live[i] = e
         /\ queue'.live[Len(queue.live) + 1] = e
         /\ \A i \in DOMAIN queue.live : i \in DOMAIN queue'.live /\ queue'.live[i] = queue.live[i]
<1>1. queue.live \in Seq(Entries) /\ queue.head \in 0..QueueSize
  BY DEF Queues
<1> DEFINE h == IF IsEmpty(queue) THEN 0 ELSE queue.head
<1>0. queue' = [head |-> h, live |-> Append(queue.live, e)] /\ h \in 0..QueueSize
  BY <1>1 DEF Enqueue
<1>2. queue'.live = Append(queue.live, e) /\ queue'.head = h
  BY <1>0
<1>3. /\ queue'.live \in Seq(Entries) /\ Len(queue'.live) = Len(queue.live) + 1
      /\ \A i \in 1..Len(queue.live) : queue'.live[i] = queue.live[i]
      /\ queue'.live[Len(queue.live) + 1] = e
  BY <1>1, <1>2, AppendProperties
<1>4. DOMAIN queue.live = 1..Len(queue.live) /\ Len(queue.live) \in Nat
      /\ DOMAIN queue'.live = 1..(Len(queue.live) + 1)
  BY <1>1, <1>3
<1>5. queue' \in Queues(Entries)
  BY <1>0, <1>2, <1>3 DEF Queues
<1>6. Tl(queue') <= QueueSize
  BY <1>1, <1>2, <1>3 DEF Tl, CanEnqueue, IsEmpty
<1>7. QED
  BY <1>3, <1>4, <1>5, <1>6

(* A sequence with one element more.                                       *)
LEMMA AppendFacts ==
  ASSUME NEW S, NEW s \in Seq(S), NEW e \in S
  PROVE  /\ Len(s) \in Nat /\ DOMAIN s = 1..Len(s)
         /\ Append(s, e) \in Seq(S) /\ Len(Append(s, e)) = Len(s) + 1
         /\ DOMAIN Append(s, e) = 1..(Len(s) + 1)
         /\ \A i \in DOMAIN s : i \in DOMAIN Append(s, e) /\ Append(s, e)[i] = s[i]
         /\ Append(s, e)[Len(s) + 1] = e
         /\ ToSet(Append(s, e)) = ToSet(s) \cup {e}
<1>1. Len(s) \in Nat /\ DOMAIN s = 1..Len(s)
  OBVIOUS
<1> DEFINE t == Append(s, e)
<1>2. /\ t \in Seq(S) /\ Len(t) = Len(s) + 1
      /\ \A i \in 1..Len(s) : t[i] = s[i]
      /\ t[Len(s) + 1] = e
  BY AppendProperties
<1>3. DOMAIN t = 1..(Len(s) + 1)
  BY <1>2
<1> HIDE DEF t
<1>4. ToSet(t) = ToSet(s) \cup {e}
  <2>1. ASSUME NEW i \in DOMAIN t PROVE t[i] \in ToSet(s) \cup {e}
    BY <1>1, <1>2, <1>3 DEF ToSet
  <2>2. ASSUME NEW i \in DOMAIN s PROVE s[i] \in ToSet(t)
    BY <1>1, <1>2, <1>3 DEF ToSet
  <2>3. e \in ToSet(t)
    BY <1>1, <1>2, <1>3 DEF ToSet
  <2>4. QED
    BY <2>1, <2>2, <2>3 DEF ToSet
<1>5. QED
  BY <1>1, <1>2, <1>3, <1>4 DEF t

-----------------------------------------------------------------------------
(* The program starts in the invariant ...                                 *)
THEOREM InitIInv == Init => IInv
<1> SUFFICES ASSUME Init PROVE IInv
  OBVIOUS
<1>0. EmptyQueue \in Queues(Entries)
  BY DEF EmptyQueue, Queues
<1>c. Cleared \in Regs
  BY DEF Cleared, Regs
<1>1. TypeOK
  <2>1. made \in Seq(MadeWrites) /\ Len(made) <= MaxWrites
    BY DEF Init
  <2>2. applied \in Seq(Numbers) /\ drawn \in Seq(1..VisibleLines)
    BY DEF Init
  <2>3. scan \in 0..FrameLines /\ uLine \in 0..FrameLines /\ sliceStart \in 0..MaxWrites
    BY DEF Init
  <2>4. queue \in Queues(Entries) /\ regs \in Regs /\ ideal \in Regs
        /\ bVBlank \in BOOLEAN /\ mixed \in BOOLEAN
    BY <1>0, <1>c DEF Init
  <2>5. QED
    BY <2>1, <2>2, <2>3, <2>4 DEF Init, TypeOK
<1>2. QED
  BY <1>1 DEF Init, IInv, PpuOrder, QueueInv, WrittenInv, SyncedInv, LineInv, SliceInv,
     EmptyQueue, Tl, IsEmpty, Queued, Waiting, ToSet

(* Performing the first queued write keeps the order of all the others.    *)
LEMMA PerformFrontFacts ==
  ASSUME IInv, pc = "sync", ~IsEmpty(queue), PerformFront,
         ~bVBlank => Head(queue.live).cycle < uLine
  PROVE  IInv'
<1> DEFINE n == Len(queue.live)
           f == queue.live[1]
<1>t. TypeOK /\ PpuOrder /\ QueueInv /\ WrittenInv /\ LineInv /\ SliceInv
  BY DEF IInv
<1>u. UNCHANGED << scan, uLine, bVBlank, pc, back, ret, made, drawn, ideal, sliceStart, mixed >>
  BY DEF PerformFront
<1>1. /\ Head(queue.live) = f /\ 1 \in DOMAIN queue.live
      /\ queue' \in Queues(Entries) /\ Tl(queue') = Tl(queue)
      /\ DOMAIN queue'.live = 1..(n - 1)
      /\ \A i \in DOMAIN queue'.live :
            i + 1 \in DOMAIN queue.live /\ queue'.live[i] = queue.live[i + 1]
  BY <1>t, DequeueFacts DEF TypeOK, QueueInv, PerformFront
<1>2. /\ n \in Nat /\ DOMAIN queue.live = 1..n
      /\ \A i \in DOMAIN queue.live :
               /\ queue.live[i].cycle \in 0..FrameLines
               /\ queue.live[i].num \in Numbers
               /\ queue.live[i].write \in Writes
  BY <1>t, QueueShape DEF TypeOK
<1>f. f.num \in Numbers /\ f.num \in Waiting /\ f.num \in Queued
      /\ f.cycle \in 0..FrameLines
  BY <1>t, <1>1, <1>2 DEF Waiting, QueueInv
<1>3. /\ applied \in Seq(Numbers) /\ applied' = Append(applied, f.num)
      /\ Len(applied) \in Nat /\ DOMAIN applied = 1..Len(applied)
      /\ applied' \in Seq(Numbers)
      /\ DOMAIN applied' = 1..(Len(applied) + 1)
      /\ \A i \in DOMAIN applied : applied'[i] = applied[i]
      /\ applied'[Len(applied) + 1] = f.num
      /\ ToSet(applied') = ToSet(applied) \cup {f.num}
  <2>1. applied \in Seq(Numbers) /\ applied' = Append(applied, f.num)
    BY <1>t, <1>1 DEF TypeOK, PerformFront
  <2>2. QED
    BY <2>1, <1>f, AppendFacts
<1>4. TypeOK'
  <2>1. regs' \in Regs
    <3>1. regs' = Perform(regs, f.write) /\ regs \in Regs /\ f.write \in Writes
      BY <1>t, <1>1, <1>2 DEF TypeOK, PerformFront
    <3>2. QED
      BY <3>1, RegsFacts
  <2>2. QED
    BY <1>t, <1>u, <1>1, <1>3, <2>1 DEF TypeOK
<1> HIDE DEF n, f
<1>5. QueueInv'
  <2>1. Queued' = Queued
    BY <1>u DEF Queued
  <2>2. Tl(queue') <= QueueSize
    BY <1>t, <1>1 DEF QueueInv
  <2>3. ASSUME NEW i \in DOMAIN queue'.live
        PROVE  LET e == queue'.live[i] IN
               /\ e.num \in Queued /\ ~made[e.num].old /\ made[e.num].line = e.cycle
               /\ \A j \in DOMAIN queue'.live :
                   i < j => e.num < queue'.live[j].num /\ e.cycle <= queue'.live[j].cycle
    <3>1. i + 1 \in DOMAIN queue.live /\ queue'.live[i] = queue.live[i + 1] /\ i \in Int
      BY <1>1
    <3>2. ASSUME NEW j \in DOMAIN queue'.live, i < j
          PROVE  /\ queue'.live[i].num < queue'.live[j].num
                 /\ queue'.live[i].cycle <= queue'.live[j].cycle
      <4>1. j + 1 \in DOMAIN queue.live /\ queue'.live[j] = queue.live[j + 1] /\ i + 1 < j + 1
        BY <1>1, <3>2, <3>1
      <4>2. QED
        BY <1>t, <3>1, <4>1 DEF QueueInv
    <3>3. QED
      BY <1>t, <3>1, <3>2 DEF QueueInv
  <2>4. QED
    BY <1>u, <2>1, <2>2, <2>3 DEF QueueInv
<1>6. Waiting' = Waiting \ {f.num}
  <2>1. ASSUME NEW i \in DOMAIN queue'.live
        PROVE  queue'.live[i].num \in Waiting \ {f.num}
    <3>1. i + 1 \in DOMAIN queue.live /\ queue'.live[i] = queue.live[i + 1] /\ 1 < i + 1
      BY <1>1, <1>2
    <3>2. queue.live[1].num < queue.live[i + 1].num
      BY <1>t, <1>1, <3>1 DEF QueueInv
    <3>3. QED
      BY <1>1, <1>2, <1>f, <3>1, <3>2 DEF Waiting, Numbers, f
  <2>2. ASSUME NEW i \in DOMAIN queue.live, queue.live[i].num # f.num
        PROVE  queue.live[i].num \in Waiting'
    <3>1. i # 1
      BY <2>2 DEF f
    <3>2. i - 1 \in DOMAIN queue'.live /\ queue'.live[i - 1] = queue.live[(i - 1) + 1]
      BY <1>1, <1>2, <3>1
    <3>3. QED
      BY <1>2, <3>2 DEF Waiting
  <2>3. QED
    BY <2>1, <2>2 DEF Waiting
<1>7. PpuOrder'
  <2>0. Queued' = Queued
    BY <1>u DEF Queued
  <2>1. ASSUME NEW i \in DOMAIN applied', NEW j \in DOMAIN applied',
               i < j, applied'[i] \in Queued, applied'[j] \in Queued
        PROVE  applied'[i] < applied'[j]
    <3>1. i \in DOMAIN applied /\ applied'[i] = applied[i]
      BY <1>3, <2>1
    <3>2. CASE j \in DOMAIN applied
      BY <1>t, <1>3, <2>1, <3>1, <3>2 DEF PpuOrder
    <3>3. CASE j = Len(applied) + 1
      BY <1>t, <1>3, <1>f, <2>1, <3>1, <3>3 DEF PpuOrder
    <3>4. QED
      BY <1>3, <3>2, <3>3
  <2>2. \A i \in DOMAIN made : i \in ToSet(applied') <=> i \notin Waiting'
    BY <1>t, <1>3, <1>6, <1>f DEF PpuOrder
  <2>3. ASSUME NEW m \in Waiting' \cap Queued, NEW i \in DOMAIN applied', applied'[i] \in Queued
        PROVE  applied'[i] < m
    <3>1. CASE i \in DOMAIN applied
      BY <1>t, <1>3, <1>6, <2>3, <3>1 DEF PpuOrder
    <3>2. CASE i = Len(applied) + 1
      <4>1. PICK k \in DOMAIN queue'.live : m = queue'.live[k].num
        BY <2>3 DEF Waiting
      <4>2. k + 1 \in DOMAIN queue.live /\ m = queue.live[k + 1].num /\ 1 < k + 1
        BY <1>1, <1>2, <4>1
      <4>3. queue.live[1].num < m
        BY <1>t, <1>1, <4>2 DEF QueueInv
      <4>4. QED
        BY <1>3, <3>2, <4>3 DEF f
    <3>3. QED
      BY <1>3, <3>1, <3>2
  <2>4. QED
    BY <1>u, <2>0, <2>1, <2>2, <2>3 DEF PpuOrder
<1>8. WrittenInv'
  <2>1. ASSUME NEW i \in DOMAIN applied'
        PROVE  /\ applied'[i] \in DOMAIN made
               /\ ~bVBlank => made[applied'[i]].old \/ made[applied'[i]].line < uLine
    <3>1. CASE i \in DOMAIN applied
      BY <1>t, <1>3, <3>1 DEF WrittenInv
    <3>2. CASE i = Len(applied) + 1
      <4>1. f.num \in DOMAIN made /\ made[f.num].line = f.cycle
        BY <1>t, <1>1, <1>f DEF QueueInv, Queued, f
      <4>2. QED
        BY <1>3, <1>1, <3>2, <4>1
    <3>3. QED
      BY <1>3, <3>1, <3>2
  <2>2. QED
    BY <1>t, <1>u, <2>1 DEF WrittenInv
<1>9. SyncedInv' /\ LineInv' /\ SliceInv'
  BY <1>t, <1>u DEF SyncedInv, LineInv, SliceInv
<1>10. QED
  BY <1>4, <1>5, <1>7, <1>8, <1>9 DEF IInv

(* Queuing a write, by the program or after a Sync that made room.         *)
LEMMA Write2000Facts ==
  ASSUME IInv, Write2000
  PROVE  IInv'
<1>t. TypeOK /\ PpuOrder /\ QueueInv /\ WrittenInv /\ SyncedInv /\ LineInv /\ SliceInv
  BY DEF IInv
<1>u. /\ UNCHANGED << scan, uLine, bVBlank, regs, ret, applied, drawn, sliceStart, mixed >>
      /\ pc \in {"run", "dma", "enqueue"} /\ Len(made) < MaxWrites /\ back' = "run"
      /\ pc' = (IF pc = "enqueue" THEN back ELSE pc)
  BY DEF Write2000
<1>p. pc' \in {"run", "dma"}
  BY <1>t, <1>u DEF TypeOK
<1>0. PICK w \in Writes :
         /\ queue' = Enqueue(queue, [cycle |-> scan, num |-> Len(made) + 1, write |-> w])
         /\ ideal' = Perform(ideal, w)
  BY DEF Write2000
<1> DEFINE e == [cycle |-> scan, num |-> Len(made) + 1, write |-> w]
           r == [line |-> scan, old |-> FALSE, direct |-> FALSE]
           n == Len(queue.live)
           k == Len(made)
<1>1. e \in Entries
  BY <1>t, <1>u DEF TypeOK, Entries, Numbers
<1>e. e.cycle = scan /\ e.num = k + 1
  OBVIOUS
<1>r. r.line = scan /\ r.old = FALSE /\ r.direct = FALSE
  OBVIOUS
<1>2. /\ queue' \in Queues(Entries) /\ Tl(queue') <= QueueSize
      /\ DOMAIN queue'.live = 1..(n + 1)
      /\ \A i \in DOMAIN queue'.live :
            \/ i \in DOMAIN queue.live /\ queue'.live[i] = queue.live[i]
            \/ i = n + 1 /\ queue'.live[i] = e
      /\ queue'.live[n + 1] = e
      /\ \A i \in DOMAIN queue.live : i \in DOMAIN queue'.live /\ queue'.live[i] = queue.live[i]
  BY <1>t, <1>0, <1>1, EnqueueFacts DEF TypeOK, QueueInv, Write2000
<1>3. n \in Nat /\ DOMAIN queue.live = 1..n
  BY <1>t, QueueShape DEF TypeOK
<1>4. /\ k \in Nat /\ DOMAIN made = 1..k
      /\ made' \in Seq(MadeWrites)
      /\ Len(made') = k + 1 /\ DOMAIN made' = 1..(k + 1)
      /\ \A i \in DOMAIN made : i \in DOMAIN made' /\ made'[i] = made[i]
      /\ made'[k + 1] = r
  <2>1. made' = Append(made, r) /\ r \in MadeWrites
        /\ made \in Seq(MadeWrites)
    BY <1>t DEF Write2000, TypeOK, MadeWrites
  <2>2. QED
    BY <2>1, AppendFacts
<1> HIDE DEF e, r, n, k
<1>5. Queued' = Queued \cup {k + 1} /\ Queued \subseteq 1..k
  BY <1>4, <1>r DEF Queued
<1>6. Waiting' = Waiting \cup {k + 1} /\ Waiting \subseteq Queued
  <2>1. \A i \in DOMAIN queue'.live : queue'.live[i].num \in Waiting \cup {k + 1}
    BY <1>2, <1>e DEF Waiting
  <2>2. \A i \in DOMAIN queue.live : queue.live[i].num \in Waiting'
    BY <1>2 DEF Waiting
  <2>3. k + 1 \in Waiting'
    BY <1>2, <1>3, <1>e DEF Waiting
  <2>4. Waiting \subseteq Queued
    BY <1>t DEF Waiting, QueueInv
  <2>5. QED
    BY <2>1, <2>2, <2>3, <2>4 DEF Waiting
<1>7. TypeOK'
  <2>1. ideal' \in Regs
    BY <1>t, <1>0, RegsFacts DEF TypeOK
  <2>2. k + 1 <= MaxWrites
    BY <1>u, <1>4 DEF k
  <2>3. QED
    BY <1>t, <1>u, <1>p, <1>2, <1>4, <2>1, <2>2 DEF TypeOK
<1>8. QueueInv'
  <2>1. ASSUME NEW i \in DOMAIN queue'.live
        PROVE  LET x == queue'.live[i] IN
               /\ x.num \in Queued' /\ ~made'[x.num].old /\ made'[x.num].line = x.cycle
               /\ \A j \in DOMAIN queue'.live :
                   i < j => x.num < queue'.live[j].num /\ x.cycle <= queue'.live[j].cycle
    <3>1. CASE i \in DOMAIN queue.live /\ queue'.live[i] = queue.live[i]
      <4>1. queue.live[i].num \in Queued /\ queue.live[i].num \in 1..k
            /\ ~made[queue.live[i].num].old
            /\ made[queue.live[i].num].line = queue.live[i].cycle
        BY <1>t, <1>5, <3>1 DEF QueueInv
      <4>2. queue.live[i].cycle <= scan
        BY <1>t, <1>4, <4>1 DEF WrittenInv
      <4>3. ASSUME NEW j \in DOMAIN queue'.live, i < j
            PROVE  /\ queue.live[i].num < queue'.live[j].num
                   /\ queue.live[i].cycle <= queue'.live[j].cycle
        <5>1. CASE j \in DOMAIN queue.live /\ queue'.live[j] = queue.live[j]
          BY <1>t, <3>1, <4>3, <5>1 DEF QueueInv
        <5>2. CASE j = n + 1 /\ queue'.live[j] = e
          BY <1>e, <1>4, <4>1, <4>2, <5>2
        <5>3. QED
          BY <1>2, <5>1, <5>2
      <4>4. QED
        BY <1>4, <1>5, <3>1, <4>1, <4>3
    <3>2. CASE i = n + 1 /\ queue'.live[i] = e
      <4>1. \A j \in DOMAIN queue'.live : ~(i < j)
        BY <1>2, <1>3, <3>2
      <4>2. QED
        BY <1>4, <1>5, <1>e, <1>r, <3>2, <4>1
    <3>3. QED
      BY <1>2, <3>1, <3>2
  <2>2. QED
    BY <1>2, <2>1 DEF QueueInv
<1>9. PpuOrder'
  <2>0. \A i \in DOMAIN applied : applied[i] \in 1..k
    BY <1>t, <1>4 DEF WrittenInv
  <2>1. \A i \in DOMAIN applied : applied[i] \in Queued' => applied[i] \in Queued
    BY <2>0, <1>5, <1>4
  <2>2. ToSet(applied) \subseteq 1..k
    BY <2>0 DEF ToSet
  <2>3. \A i \in 1..(k + 1) : i \in ToSet(applied) <=> i \notin Waiting'
    BY <1>t, <1>4, <1>6, <2>2 DEF PpuOrder
  <2>4. ASSUME NEW m \in Waiting' \cap Queued', NEW i \in DOMAIN applied, applied[i] \in Queued
        PROVE  applied[i] < m
    <3>1. CASE m = k + 1
      BY <1>4, <2>0, <3>1
    <3>2. CASE m \in Waiting
      BY <1>t, <1>6, <2>4, <3>2 DEF PpuOrder
    <3>3. QED
      BY <1>6, <3>1, <3>2
  <2>5. QED
    BY <1>t, <1>u, <1>4, <2>1, <2>3, <2>4 DEF PpuOrder
<1>10. WrittenInv'
  <2>1. ASSUME NEW i \in DOMAIN made' PROVE made'[i].old \/ made'[i].line <= scan
    <3>1. CASE i \in DOMAIN made
      BY <1>t, <1>4, <3>1 DEF WrittenInv
    <3>2. CASE i = k + 1
      BY <1>t, <1>4, <1>r, <3>2 DEF TypeOK
    <3>3. QED
      BY <1>4, <3>1, <3>2
  <2>2. QED
    BY <1>t, <1>u, <1>4, <2>1 DEF WrittenInv
<1>11. SyncedInv' /\ LineInv'
  BY <1>t, <1>u, <1>p DEF SyncedInv, LineInv
<1>12. SliceInv'
  <2>0. sliceStart \in Nat /\ sliceStart <= k
    BY <1>t DEF SliceInv, TypeOK, k
  <2>1. ASSUME pc' = "dma", NEW i \in DOMAIN queue'.live PROVE queue'.live[i].num > sliceStart
    <3>1. CASE i \in DOMAIN queue.live /\ queue'.live[i] = queue.live[i]
      <4>1. pc # "enqueue"
        BY <1>t, <1>3, <3>1 DEF SyncedInv, IsEmpty
      <4>2. pc = "dma"
        BY <1>u, <2>1, <4>1
      <4>3. QED
        BY <1>t, <3>1, <4>2 DEF SliceInv
    <3>2. CASE i = n + 1 /\ queue'.live[i] = e
      BY <1>e, <1>4, <2>0, <3>2
    <3>3. QED
      BY <1>2, <3>1, <3>2
  <2>2. QED
    BY <1>u, <1>4, <2>0, <2>1 DEF SliceInv
<1>13. QED
  BY <1>7, <1>8, <1>9, <1>10, <1>11, <1>12 DEF IInv

(* A direct write, made and performed at once.                             *)
LEMMA DirectWriteFacts ==
  ASSUME IInv, DirectWrite
  PROVE  IInv'
<1>t. TypeOK /\ PpuOrder /\ QueueInv /\ WrittenInv /\ SyncedInv /\ LineInv /\ SliceInv
  BY DEF IInv
<1>u. /\ UNCHANGED << scan, uLine, bVBlank, queue, pc, back, ret, drawn, sliceStart >>
      /\ pc = "dma" /\ Len(made) < MaxWrites
  BY DEF DirectWrite
<1> DEFINE r == [line |-> scan, old |-> FALSE, direct |-> TRUE]
           k == Len(made)
<1>r. r.line = scan /\ r.old = FALSE /\ r.direct = TRUE
  OBVIOUS
<1>1. /\ k \in Nat /\ DOMAIN made = 1..k
      /\ made' \in Seq(MadeWrites)
      /\ Len(made') = k + 1 /\ DOMAIN made' = 1..(k + 1)
      /\ \A i \in DOMAIN made : i \in DOMAIN made' /\ made'[i] = made[i]
      /\ made'[k + 1] = r
  <2>1. made' = Append(made, r) /\ r \in MadeWrites
        /\ made \in Seq(MadeWrites)
    BY <1>t DEF DirectWrite, TypeOK, MadeWrites
  <2>2. QED
    BY <2>1, AppendFacts
<1>2. k + 1 \in Numbers
  BY <1>u, <1>1 DEF Numbers
<1>3. /\ Len(applied) \in Nat /\ DOMAIN applied = 1..Len(applied)
      /\ applied' \in Seq(Numbers)
      /\ DOMAIN applied' = 1..(Len(applied) + 1)
      /\ \A i \in DOMAIN applied : applied'[i] = applied[i]
      /\ applied'[Len(applied) + 1] = k + 1
      /\ ToSet(applied') = ToSet(applied) \cup {k + 1}
  <2>1. applied \in Seq(Numbers) /\ applied' = Append(applied, k + 1)
    BY <1>t DEF TypeOK, DirectWrite
  <2>2. QED
    BY <2>1, <1>2, AppendFacts
<1>4. TypeOK'
  <2>1. regs' \in Regs /\ ideal' \in Regs /\ mixed' \in BOOLEAN
    BY <1>t, RegsFacts DEF DirectWrite, TypeOK, IsEmpty
  <2>2. QED
    BY <1>t, <1>u, <1>1, <1>2, <1>3, <2>1 DEF TypeOK, Numbers
<1> HIDE DEF r, k
<1>5. Queued' = Queued /\ Queued \subseteq 1..k /\ Waiting' = Waiting /\ Waiting \subseteq Queued
  BY <1>t, <1>u, <1>1, <1>r DEF Queued, Waiting, QueueInv
<1>6. QueueInv'
  BY <1>t, <1>u, <1>1, <1>5 DEF QueueInv
<1>7. PpuOrder'
  <2>0. \A i \in DOMAIN applied' : applied'[i] \in Queued =>
            i \in DOMAIN applied /\ applied'[i] = applied[i]
    BY <1>1, <1>3, <1>5
  <2>1. \A i \in 1..(k + 1) : i \in ToSet(applied') <=> i \notin Waiting
    BY <1>t, <1>1, <1>3, <1>5 DEF PpuOrder
  <2>2. QED
    BY <1>t, <1>1, <1>5, <2>0, <2>1 DEF PpuOrder
<1>8. WrittenInv'
  <2>1. ASSUME NEW i \in DOMAIN made' PROVE made'[i].old \/ made'[i].line <= scan
    <3>1. CASE i \in DOMAIN made
      BY <1>t, <1>1, <3>1 DEF WrittenInv
    <3>2. CASE i = k + 1
      BY <1>t, <1>1, <1>r, <3>2 DEF TypeOK
    <3>3. QED
      BY <1>1, <3>1, <3>2
  <2>2. ASSUME NEW i \in DOMAIN applied'
        PROVE  /\ applied'[i] \in DOMAIN made'
               /\ ~bVBlank => made'[applied'[i]].old \/ made'[applied'[i]].line < uLine
    <3>1. CASE i \in DOMAIN applied
      BY <1>t, <1>1, <1>3, <3>1 DEF WrittenInv
    <3>2. CASE i = Len(applied) + 1
      BY <1>t, <1>u, <1>1, <1>3, <1>r, <3>2 DEF SyncedInv, TypeOK
    <3>3. QED
      BY <1>3, <3>1, <3>2
  <2>3. QED
    BY <1>u, <2>1, <2>2 DEF WrittenInv
<1>9. SyncedInv' /\ LineInv'
  BY <1>t, <1>u DEF SyncedInv, LineInv
<1>10. SliceInv'
  BY <1>t, <1>u, <1>1 DEF SliceInv, TypeOK, k
<1>11. QED
  BY <1>4, <1>6, <1>7, <1>8, <1>9, <1>10 DEF IInv

(* The parts of the invariant that speak of the writes alone.              *)
LEMMA WritesUntouched ==
  ASSUME IInv, UNCHANGED << queue, made, applied, bVBlank >>,
         scan' \in 0..FrameLines, scan <= scan', uLine' \in 0..FrameLines, uLine <= uLine'
  PROVE  PpuOrder' /\ QueueInv' /\ WrittenInv'
<1>t. TypeOK /\ PpuOrder /\ QueueInv /\ WrittenInv
  BY DEF IInv
<1>1. Queued' = Queued /\ Waiting' = Waiting
  BY DEF Queued, Waiting
<1>2. PpuOrder' /\ QueueInv'
  BY <1>t, <1>1 DEF PpuOrder, QueueInv
<1>3. \A i \in DOMAIN made : made[i].line \in 0..FrameLines
  <2>1. \A i \in DOMAIN made : made[i] \in MadeWrites
    BY <1>t DEF TypeOK
  <2>2. QED
    BY <2>1 DEF MadeWrites
<1>4. WrittenInv'
  BY <1>t, <1>3 DEF WrittenInv, TypeOK
<1>5. QED
  BY <1>2, <1>4

(* ... no write, Sync or change of line leaves it ...                      *)
THEOREM NextIInv == IInv /\ [Next]_vars => IInv'
<1> SUFFICES ASSUME IInv, [Next]_vars PROVE IInv'
  OBVIOUS
<1>t. TypeOK /\ PpuOrder /\ QueueInv /\ WrittenInv /\ SyncedInv /\ LineInv /\ SliceInv
  BY DEF IInv
<1>l. scan \in 0..FrameLines /\ uLine \in 0..FrameLines /\ Len(made) \in Nat
      /\ sliceStart \in 0..MaxWrites
  BY <1>t DEF TypeOK
<1>1. CASE Write2000
  BY <1>1, Write2000Facts
<1>2. CASE EnqueueFull
  <2>1. TypeOK' /\ SyncedInv' /\ LineInv' /\ SliceInv'
    BY <1>2, <1>t DEF EnqueueFull, Call, TypeOK, SyncedInv, LineInv, SliceInv
  <2>2. QED
    BY <1>2, <1>l, <2>1, WritesUntouched DEF EnqueueFull, IInv
<1>3. CASE StartSlice
  <2>1. TypeOK' /\ SyncedInv' /\ LineInv' /\ SliceInv'
    BY <1>3, <1>t, <1>l DEF StartSlice, Call, TypeOK, SyncedInv, LineInv, SliceInv
  <2>2. QED
    BY <1>3, <1>l, <2>1, WritesUntouched DEF StartSlice, IInv
<1>4. CASE DirectWrite
  BY <1>4, DirectWriteFacts
<1>5. CASE EndSlice
  <2>1. TypeOK' /\ SyncedInv' /\ LineInv' /\ SliceInv'
    BY <1>5, <1>t, <1>l DEF EndSlice, TypeOK, SyncedInv, LineInv, SliceInv
  <2>2. QED
    BY <1>5, <1>l, <2>1, WritesUntouched DEF EndSlice, IInv
<1>6. CASE Read2000
  <2>1. TypeOK' /\ SyncedInv' /\ LineInv' /\ SliceInv'
    BY <1>6, <1>t DEF Read2000, Call, TypeOK, SyncedInv, LineInv, SliceInv
  <2>2. QED
    BY <1>6, <1>l, <2>1, WritesUntouched DEF Read2000, IInv
<1>7. CASE ReadOAMDATA
  <2>1. TypeOK'
    BY <1>7, <1>t, RegsFacts DEF ReadOAMDATA, TypeOK
  <2>2. SyncedInv' /\ LineInv' /\ SliceInv'
    BY <1>7, <1>t DEF ReadOAMDATA, TypeOK, SyncedInv, LineInv, SliceInv, IsEmpty
  <2>3. QED
    BY <1>7, <1>l, <2>1, <2>2, WritesUntouched DEF ReadOAMDATA, IInv
<1>8. CASE SyncEarlier
  <2>1. pc = "sync" /\ ~IsEmpty(queue) /\ PerformFront
    BY <1>8 DEF SyncEarlier, Earlier, HasBefore
  <2>2. Head(queue.live).cycle < uLine
    <3>1. Head(queue.live) = queue.live[1] /\ 1 \in DOMAIN queue.live
      BY <1>t, <2>1 DEF TypeOK, Queues, IsEmpty
    <3>2. queue.live[1].cycle \in 0..FrameLines
      BY <1>t, <3>1, QueueShape DEF TypeOK
    <3>3. QED
      BY <1>8, <1>l, <3>1, <3>2 DEF SyncEarlier, Earlier, HasBefore
  <2>3. QED
    BY <2>1, <2>2, PerformFrontFacts
<1>9. CASE RenderLine
  <2>0. /\ uLine <= scan /\ uLine' = uLine + 1 /\ ~bVBlank /\ pc = "sync"
        /\ UNCHANGED << scan, bVBlank, queue, regs, pc, back, ret, made, applied, ideal,
                        sliceStart, mixed >>
        /\ drawn' = IF Visible THEN Append(drawn, uLine) ELSE drawn
    BY <1>9 DEF RenderLine, Drawing
  <2>1. scan <= VisibleLines + 1 /\ uLine' \in 0..FrameLines
    BY <1>t, <1>l, <2>0 DEF LineInv
  <2>2. PpuOrder' /\ QueueInv' /\ WrittenInv'
    BY <1>l, <2>0, <2>1, WritesUntouched
  <2>3. /\ drawn' \in Seq(1..VisibleLines)
        /\ drawn' = [i \in 1..Len(drawn') |-> i]
        /\ Len(drawn') = IF uLine' <= VisibleLines THEN uLine' - 1 ELSE VisibleLines
    <3>0. drawn \in Seq(1..VisibleLines) /\ drawn = [i \in 1..Len(drawn) |-> i]
          /\ Len(drawn) = IF uLine = 0 THEN 0
                          ELSE IF uLine <= VisibleLines THEN uLine - 1 ELSE VisibleLines
      BY <1>t DEF TypeOK, LineInv
    <3>1. CASE ~Visible
      BY <1>l, <2>0, <3>0, <3>1 DEF Visible
    <3>2. CASE Visible
      <4>1. uLine \in 1..VisibleLines /\ Len(drawn) = uLine - 1 /\ drawn' = Append(drawn, uLine)
        BY <1>l, <2>0, <3>0, <3>2 DEF Visible
      <4>2. /\ drawn' \in Seq(1..VisibleLines) /\ Len(drawn') = uLine
            /\ \A i \in DOMAIN drawn : drawn'[i] = drawn[i]
            /\ DOMAIN drawn = 1..(uLine - 1) /\ DOMAIN drawn' = 1..uLine
            /\ drawn'[uLine] = uLine
        BY <3>0, <4>1, AppendFacts
      <4>3. \A i \in 1..uLine : drawn'[i] = i
        BY <3>0, <4>1, <4>2
      <4>4. QED
        BY <1>l, <2>0, <4>1, <4>2, <4>3
    <3>3. QED
      BY <3>1, <3>2
  <2>4. TypeOK'
    BY <1>t, <2>0, <2>1, <2>3 DEF TypeOK
  <2>5. SyncedInv' /\ LineInv' /\ SliceInv'
    BY <1>t, <1>l, <2>0, <2>3 DEF SyncedInv, LineInv, SliceInv
  <2>6. QED
    BY <2>2, <2>4, <2>5 DEF IInv
<1>10. CASE SyncRest
  <2>1. pc = "sync" /\ ~IsEmpty(queue) /\ PerformFront
    BY <1>10 DEF SyncRest
  <2>2. ~bVBlank => Head(queue.live).cycle < uLine
    <3>1. Head(queue.live) = queue.live[1] /\ 1 \in DOMAIN queue.live
      BY <1>t, <2>1 DEF TypeOK, Queues, IsEmpty
    <3>2. queue.live[1].cycle \in 0..FrameLines
      BY <1>t, <3>1, QueueShape DEF TypeOK
    <3>3. queue.live[1].cycle <= scan
      BY <1>t, <3>1 DEF QueueInv, WrittenInv, Queued
    <3>4. QED
      BY <1>10, <1>l, <3>1, <3>2, <3>3 DEF SyncRest, Drawing
  <2>3. QED
    BY <2>1, <2>2, PerformFrontFacts
<1>11. CASE SyncReturn
  <2>1. TypeOK' /\ SyncedInv' /\ LineInv' /\ SliceInv'
    BY <1>11, <1>t, <1>l
    DEF SyncReturn, Rest, Drawing, TypeOK, SyncedInv, LineInv, SliceInv, IsEmpty
  <2>2. QED
    BY <1>11, <1>l, <2>1, WritesUntouched DEF SyncReturn, IInv
<1>12. CASE NextLine
  <2>1. scan' = scan + 1 /\ scan' \in 0..FrameLines /\ pc = "run"
        /\ UNCHANGED << uLine, bVBlank, queue, regs, back, made, applied, drawn, ideal,
                        sliceStart, mixed >>
    BY <1>12, <1>l DEF NextLine
  <2>2. TypeOK'
    BY <1>12, <1>t, <2>1 DEF NextLine, Call, TypeOK
  <2>3. SyncedInv' /\ LineInv' /\ SliceInv'
    BY <1>12, <1>t, <1>l, <2>1 DEF NextLine, Call, SyncedInv, LineInv, SliceInv
  <2>4. QED
    BY <1>l, <2>1, <2>2, <2>3, WritesUntouched DEF IInv
<1>13. CASE EndFrame
  <2>1. TypeOK'
    BY <1>13, <1>t, RegsFacts DEF EndFrame, TypeOK
  <2>2. SyncedInv' /\ LineInv' /\ SliceInv'
    BY <1>13, <1>t, <1>l DEF EndFrame, SyncedInv, LineInv, SliceInv
  <2>3. Queued' = Queued /\ Waiting' = Waiting
    BY <1>13 DEF EndFrame, Queued, Waiting
  <2>4. PpuOrder' /\ QueueInv' /\ WrittenInv'
    BY <1>13, <1>t, <2>3 DEF EndFrame, PpuOrder, QueueInv, WrittenInv
  <2>5. QED
    BY <2>1, <2>2, <2>4 DEF IInv
<1>14. CASE BeginFrame
  <2>0. /\ pc' = "run" /\ scan' = 0 /\ uLine' = 0 /\ bVBlank' = FALSE /\ drawn' = << >>
        /\ UNCHANGED << queue, regs, back, ret, applied, ideal, sliceStart, mixed >>
        /\ queue.live = << >>
    BY <1>14, <1>t DEF BeginFrame, SyncedInv, IsEmpty
  <2>1. /\ made' \in Seq(MadeWrites) /\ Len(made') = Len(made)
        /\ DOMAIN made' = DOMAIN made
        /\ \A i \in DOMAIN made : made'[i].old /\ made'[i].direct = made[i].direct
    <3>1. made \in Seq(MadeWrites) /\ DOMAIN made = 1..Len(made)
      BY <1>t DEF TypeOK
    <3>2. \A i \in DOMAIN made : made[i] \in MadeWrites
      BY <3>1
    <3>3. \A i \in DOMAIN made :
             /\ [made[i] EXCEPT !.old = TRUE] \in MadeWrites
             /\ [made[i] EXCEPT !.old = TRUE].old
             /\ [made[i] EXCEPT !.old = TRUE].direct = made[i].direct
      BY <3>2 DEF MadeWrites
    <3>4. made' = [i \in DOMAIN made |-> [made[i] EXCEPT !.old = TRUE]]
      BY <1>14 DEF BeginFrame
    <3>5. made' \in [1..Len(made) -> MadeWrites]
      BY <3>1, <3>3, <3>4
    <3>6. made' \in Seq(MadeWrites)
      BY <1>l, <3>5, SeqDef
    <3>7. DOMAIN made' = 1..Len(made)
      BY <3>5
    <3>8. Len(made') = Len(made)
      BY <1>l, <3>6, <3>7
    <3>9. QED
      BY <3>1, <3>3, <3>4, <3>6, <3>7, <3>8
  <2>2. TypeOK'
    <3>1. drawn' \in Seq(1..VisibleLines)
      BY <2>0
    <3>2. scan' \in 0..FrameLines /\ uLine' \in 0..FrameLines
      BY <2>0
    <3>3. made' \in Seq(MadeWrites) /\ Len(made') <= MaxWrites
      BY <1>t, <2>1 DEF TypeOK
    <3>4. bVBlank' \in BOOLEAN
      BY <2>0
    <3>5. QED
      BY <1>t, <2>0, <3>1, <3>2, <3>3, <3>4 DEF TypeOK
  <2>3. Queued' = Queued /\ Waiting' = Waiting /\ ToSet(applied)' = ToSet(applied)
    BY <2>0, <2>1 DEF Queued, Waiting
  <2>4. PpuOrder'
    BY <1>t, <2>0, <2>1, <2>3 DEF PpuOrder
  <2>5. QueueInv' /\ WrittenInv'
    BY <1>t, <2>0, <2>1 DEF QueueInv, WrittenInv, Tl
  <2>6. LineInv'
    <3>1. Len(drawn') = 0 /\ drawn' = [i \in 1..Len(drawn') |-> i]
      BY <2>0
    <3>2. QED
      BY <2>0, <3>1 DEF LineInv
  <2>7. SyncedInv' /\ SliceInv'
    BY <1>t, <2>0, <2>1 DEF SyncedInv, SliceInv
  <2>8. QED
    BY <2>2, <2>4, <2>5, <2>6, <2>7 DEF IInv
<1>15. CASE UNCHANGED vars
  <2>1. TypeOK' /\ SyncedInv' /\ LineInv' /\ SliceInv'
    BY <1>15, <1>t DEF vars, TypeOK, SyncedInv, LineInv, SliceInv, IsEmpty
  <2>2. QED
    BY <1>15, <1>l, <2>1, WritesUntouched DEF vars, IInv
<1>16. QED
  BY <1>1, <1>2, <1>3, <1>4, <1>5, <1>6, <1>7, <1>8, <1>9, <1>10, <1>11, <1>12, <1>13,
     <1>14, <1>15 DEF Next

(* ... and so it holds throughout.                                         *)
THEOREM Invariance == Spec => []IInv
  BY InitIInv, NextIInv, PTL DEF Spec

-----------------------------------------------------------------------------
(* The variables of SnesPpu keep their types.                              *)
THEOREM TypeCorrect == Spec => []TypeOK
  BY Invariance, PTL DEF IInv

(* Queued writes are performed in order, each once and none lost, for any  *)
(* queue size, frame geometry and order of synchronisations.               *)
THEOREM PpuOrderHolds == Spec => []PpuOrder
  BY Invariance, PTL DEF IInv

(* Every visible line is drawn once and in order, and EndFrame finds all   *)
(* of them drawn and the queue empty.                                      *)
THEOREM FrameCompleteHolds == Spec => []FrameComplete
<1>1. IInv => FrameComplete
  <2> SUFFICES ASSUME IInv PROVE FrameComplete
    OBVIOUS
  <2>1. uLine \in Nat /\ scan \in Nat
    BY DEF IInv, TypeOK
  <2>2. ASSUME pc = "endframe" PROVE Len(drawn) = VisibleLines /\ IsEmpty(queue)
    <3>1. ~bVBlank /\ scan = VisibleLines + 1
      BY <2>2 DEF IInv, LineInv
    <3>2. uLine > scan /\ IsEmpty(queue)
      BY <2>2, <3>1 DEF IInv, SyncedInv
    <3>3. QED
      BY <2>1, <3>1, <3>2 DEF IInv, LineInv
  <2>3. QED
    BY <2>2 DEF FrameComplete, IInv, LineInv
<1>2. QED
  BY <1>1, Invariance, PTL

(* The direct writes of a DMA slice overtake only writes of their slice.   *)
THEOREM DirectOvertakesHolds == Spec => DirectOvertakesItsSlice
<1>1. IInv /\ [Next]_vars =>
        [DirectWrite => \A i \in DOMAIN queue.live : queue.live[i].num > sliceStart]_vars
  BY DEF IInv, SliceInv, DirectWrite
<1>2. QED
  BY <1>1, Invariance, PTL DEF Spec, DirectOvertakesItsSlice

(* A line shows the writes of earlier lines and frames and no others,      *)
(* whichever Sync draws it.                                                *)
THEOREM LineSeesHolds == Spec => LineSeesEarlierWrites
<1>1. ASSUME IInv, [Next]_vars, drawn' # drawn, drawn' # << >>
      PROVE  ToSet(applied) = { i \in DOMAIN made : made[i].old \/ made[i].line < uLine }
  <2>t. TypeOK /\ PpuOrder /\ QueueInv /\ WrittenInv
    BY <1>1 DEF IInv
  <2>1. ~bVBlank /\ ~Earlier
    BY <1>1 DEF Next, vars, Write2000, EnqueueFull, StartSlice, DirectWrite, EndSlice, Read2000,
       ReadOAMDATA, SyncEarlier, SyncRest, PerformFront, RenderLine, Drawing, SyncReturn, NextLine,
       EndFrame, BeginFrame
  <2>2. ASSUME NEW i \in DOMAIN applied
        PROVE  applied[i] \in DOMAIN made
               /\ (made[applied[i]].old \/ made[applied[i]].line < uLine)
    BY <2>t, <2>1 DEF WrittenInv
  <2>3. ASSUME NEW i \in DOMAIN made, made[i].old \/ made[i].line < uLine
        PROVE  i \in ToSet(applied)
    <3>1. SUFFICES ASSUME i \in Waiting PROVE FALSE
      BY <2>t DEF PpuOrder
    <3>2. PICK k \in DOMAIN queue.live : i = queue.live[k].num
      BY <3>1 DEF Waiting
    <3>3. queue.live[k].cycle < uLine
      BY <2>t, <2>3, <3>2 DEF QueueInv
    <3>4. 1 \in DOMAIN queue.live /\ 1 <= k /\ k \in Nat /\ ~IsEmpty(queue)
          /\ Head(queue.live) = queue.live[1]
      BY <2>t, <3>2, QueueShape DEF TypeOK, IsEmpty
    <3>5. queue.live[1].cycle \in Nat /\ queue.live[k].cycle \in Nat /\ uLine \in Nat
      BY <2>t, <3>2, <3>4, QueueShape DEF TypeOK
    <3>6. queue.live[1].cycle <= queue.live[k].cycle
      BY <2>t, <3>2, <3>4, <3>5 DEF QueueInv
    <3>7. QED
      BY <2>1, <3>3, <3>4, <3>5, <3>6 DEF Earlier, HasBefore
  <2>4. QED
    BY <2>2, <2>3 DEF ToSet
<1>2. IInv /\ [Next]_vars =>
        [drawn' # drawn /\ drawn' # << >> =>
           ToSet(applied) = { i \in DOMAIN made : made[i].old \/ made[i].line < uLine }]_vars
  BY <1>1
<1>3. QED
  BY <1>2, Invariance, PTL DEF Spec, LineSeesEarlierWrites

-----------------------------------------------------------------------------
(* The fold over the waiting writes.                                       *)

(* The registers after each of the writes of a sequence: p[0] is r, and    *)
(* p[i] what the i-th write makes of p[i - 1].                             *)
Trace(p, r, live) ==
  /\ p \in [0..Len(live) -> Regs]
  /\ p[0] = r
  /\ \A i \in 1..Len(live) : p[i] = Perform(p[i - 1], live[i].write)

(* The function the fold is defined by, on the subsets of 1..n.            *)
Fold(f, n, r, live) ==
  f = [S \in SUBSET (1..n) |-> IF S = {} THEN r
                               ELSE Perform(f[S \ {Max(S)}], live[Max(S)].write)]

(* The fold takes the last number first.                                   *)
LEMMA LastIndex ==
  ASSUME NEW n \in Nat, NEW S \in SUBSET (1..(n + 1)), n + 1 \in S
  PROVE  Max(S) = n + 1
<1>1. \A x \in S : x \in Int /\ n + 1 >= x
  OBVIOUS
<1>2. \A x \in S : (\A y \in S : x >= y) => x = n + 1
  BY <1>1
<1>3. QED
  BY <1>1, <1>2 DEF Max

(* From a fold over the subsets of 1..n one over those of 1..(n + 1).      *)
LEMMA FoldStep ==
  ASSUME NEW r, NEW live, NEW n \in Nat, NEW f, Fold(f, n, r, live)
  PROVE  \E g : Fold(g, n + 1, r, live)
<1> DEFINE P(S) == Perform(f[S \ {n + 1}], live[n + 1].write)
           g == [S \in SUBSET (1..(n + 1)) |-> IF n + 1 \in S THEN P(S) ELSE f[S]]
           body(S) == IF S = {} THEN r ELSE Perform(g[S \ {Max(S)}], live[Max(S)].write)
<1>1. ASSUME NEW S \in SUBSET (1..(n + 1)) PROVE g[S] = body(S)
  <2>1. CASE n + 1 \in S
    <3>1. Max(S) = n + 1 /\ S # {}
      BY <2>1, LastIndex
    <3>2. S \ {n + 1} \in SUBSET (1..(n + 1)) /\ n + 1 \notin S \ {n + 1}
      OBVIOUS
    <3>3. g[S \ {n + 1}] = f[S \ {n + 1}] /\ g[S] = P(S)
      BY <2>1, <3>2
    <3> HIDE DEF g
    <3>4. QED
      BY <3>1, <3>3
  <2>2. CASE n + 1 \notin S
    <3>1. S \in SUBSET (1..n)
      BY <2>2
    <3>2. f[S] = IF S = {} THEN r ELSE Perform(f[S \ {Max(S)}], live[Max(S)].write)
      BY <3>1 DEF Fold
    <3>3. S \ {Max(S)} \in SUBSET (1..(n + 1)) /\ n + 1 \notin S \ {Max(S)}
      BY <2>2
    <3>4. g[S] = f[S] /\ g[S \ {Max(S)}] = f[S \ {Max(S)}]
      BY <2>2, <3>3
    <3> HIDE DEF g
    <3>5. QED
      BY <3>2, <3>4
  <2>3. QED
    BY <2>1, <2>2
<1> HIDE DEF P
<1>2. g = [S \in SUBSET (1..(n + 1)) |-> g[S]]
  OBVIOUS
<1> HIDE DEF g
<1>3. g = [S \in SUBSET (1..(n + 1)) |-> body(S)]
  BY <1>1, <1>2
<1>4. QED
  BY <1>3 DEF Fold

(* So there is one for every n: a least n without one would follow an n    *)
(* with one.                                                               *)
LEMMA FoldExists ==
  ASSUME NEW r, NEW live, NEW n \in Nat
  PROVE  \E f : Fold(f, n, r, live)
<1> DEFINE B == { k \in Nat : ~ \E f : Fold(f, k, r, live) }
<1>1. SUFFICES ASSUME B # {} PROVE FALSE
  OBVIOUS
<1>2. B \in SUBSET Nat
  OBVIOUS
<1> HIDE DEF B
<1>3. PICK m \in B : \A x \in B : m <= x
  BY <1>1, <1>2, NatLeast
<1>4. m \in Nat /\ ~ \E f : Fold(f, m, r, live)
  BY DEF B
<1>5. CASE m = 0
  <2> DEFINE f == [S \in SUBSET (1..0) |-> r]
  <2>1. \A S \in SUBSET (1..0) : S = {}
    OBVIOUS
  <2>2. Fold(f, 0, r, live)
    BY <2>1 DEF Fold
  <2>3. QED
    BY <1>4, <1>5, <2>2
<1>6. CASE m # 0
  <2>1. m - 1 \in Nat /\ m - 1 + 1 = m /\ ~ (m <= m - 1)
    BY <1>4, <1>6
  <2>2. m - 1 \notin B
    BY <1>3, <2>1
  <2>3. PICK f : Fold(f, m - 1, r, live)
    BY <2>1, <2>2 DEF B
  <2>4. \E g : Fold(g, m - 1 + 1, r, live)
    BY <2>1, <2>3, FoldStep
  <2>5. QED
    BY <1>4, <2>1, <2>4
<1>7. QED
  BY <1>5, <1>6

(* CaughtUp is the end of a trace of the writes.                           *)
LEMMA CaughtUpTrace ==
  ASSUME NEW r \in Regs, NEW live \in Seq(Entries)
  PROVE  \E p : Trace(p, r, live) /\ CaughtUp(r, live) = p[Len(live)]
<1> DEFINE n == Len(live)
           F == CHOOSE f : Fold(f, n, r, live)
           p == [i \in 0..n |-> F[1..i]]
<1>1. n \in Nat /\ DOMAIN live = 1..n
  OBVIOUS
<1>2. \A i \in 1..n : live[i].write \in Writes
  <2>1. \A i \in 1..n : live[i] \in Entries
    OBVIOUS
  <2>2. QED
    BY <2>1 DEF Entries
<1> HIDE DEF n
<1>3. Fold(F, n, r, live)
  BY <1>1, FoldExists
<1>4. CaughtUp(r, live) = F[1..n]
  BY <1>1 DEF CaughtUp, FoldLeft, MapThenFoldSet, Fold
<1>5. ASSUME NEW i \in 1..n
      PROVE  F[1..i] = Perform(F[1..(i - 1)], live[i].write)
  <2>1. i - 1 \in Nat /\ i - 1 + 1 = i /\ i \in 1..i /\ 1..i # {} /\ 1..i \in SUBSET (1..n)
    <3>1. i \in Nat \ {0} /\ i <= n
      BY <1>1
    <3>2. i \in 1..i /\ \A x \in 1..i : x \in 1..n
      BY <1>1, <3>1
    <3>3. QED
      BY <3>1, <3>2
  <2>2. Max(1..i) = i
    BY <2>1, LastIndex
  <2>3. (1..i) \ {i} = 1..(i - 1)
    BY <2>1
  <2>4. F[1..i] = Perform(F[(1..i) \ {Max(1..i)}], live[Max(1..i)].write)
    BY <1>3, <2>1 DEF Fold
  <2>5. QED
    BY <2>2, <2>3, <2>4
<1>6. F[1..0] = r
  <2>1. 1..0 = {} /\ 1..0 \in SUBSET (1..n)
    OBVIOUS
  <2>2. QED
    BY <1>3, <2>1 DEF Fold
<1> HIDE DEF F
<1>7. \A i \in 0..n : F[1..i] \in Regs
  <2> DEFINE B == { i \in 0..n : F[1..i] \notin Regs }
  <2>1. SUFFICES ASSUME B # {} PROVE FALSE
    OBVIOUS
  <2>2. B \in SUBSET Nat
    BY <1>1
  <2> HIDE DEF B
  <2>3. PICK m \in B : \A x \in B : m <= x
    BY <2>1, <2>2, NatLeast
  <2>4. m \in 0..n /\ F[1..m] \notin Regs
    BY DEF B
  <2>5. m # 0
    BY <1>6, <2>4
  <2>6. m - 1 \in 0..n /\ m \in 1..n /\ ~ (m <= m - 1)
    BY <1>1, <2>4, <2>5
  <2>7. F[1..(m - 1)] \in Regs
    BY <2>3, <2>6 DEF B
  <2>8. QED
    BY <1>2, <1>5, <2>4, <2>6, <2>7, RegsFacts
<1>8. Trace(p, r, live)
  <2>1. p \in [0..n -> Regs]
    BY <1>7
  <2>2. p[0] = r
    BY <1>1, <1>6
  <2>3. ASSUME NEW i \in 1..n PROVE p[i] = Perform(p[i - 1], live[i].write)
    <3>1. i \in 0..n /\ i - 1 \in 0..n
      BY <1>1
    <3>2. QED
      BY <1>5, <3>1
  <2> HIDE DEF p
  <2>4. QED
    BY <2>1, <2>2, <2>3 DEF Trace, n
<1>9. p[n] = F[1..n]
  BY <1>1
<1>10. QED
  BY <1>4, <1>8, <1>9 DEF n

(* Any two traces of the same writes agree.                                *)
LEMMA TraceUnique ==
  ASSUME NEW r \in Regs, NEW live \in Seq(Entries), NEW p, NEW q,
         Trace(p, r, live), Trace(q, r, live)
  PROVE  p[Len(live)] = q[Len(live)]
<1> DEFINE n == Len(live)
           B == { i \in 0..n : p[i] # q[i] }
<1>1. n \in Nat
  OBVIOUS
<1> HIDE DEF n
<1>2. SUFFICES ASSUME B # {} PROVE FALSE
  BY <1>1 DEF n
<1>3. B \in SUBSET Nat
  BY <1>1
<1> HIDE DEF B
<1>4. PICK m \in B : \A x \in B : m <= x
  BY <1>2, <1>3, NatLeast
<1>5. m \in 0..n /\ p[m] # q[m]
  BY DEF B
<1>6. m # 0
  BY <1>5 DEF Trace
<1>7. m - 1 \in 0..n /\ m \in 1..n /\ ~ (m <= m - 1)
  BY <1>1, <1>5, <1>6
<1>8. p[m - 1] = q[m - 1]
  BY <1>4, <1>7 DEF B
<1>9. QED
  BY <1>5, <1>7, <1>8 DEF Trace, n

(* A trace shows what CaughtUp is.                                         *)
LEMMA CaughtUpIs ==
  ASSUME NEW r \in Regs, NEW live \in Seq(Entries), NEW p, Trace(p, r, live)
  PROVE  CaughtUp(r, live) = p[Len(live)]
BY CaughtUpTrace, TraceUnique

(* Nothing waits; a write is queued behind the others; the front one is    *)
(* performed.                                                              *)
LEMMA CaughtUpEmpty ==
  ASSUME NEW r \in Regs
  PROVE  CaughtUp(r, << >>) = r
<1> DEFINE p == [i \in 0..0 |-> r]
<1>1. << >> \in Seq(Entries) /\ Len(<< >>) = 0
  OBVIOUS
<1>2. Trace(p, r, << >>)
  BY DEF Trace
<1>3. QED
  BY <1>1, <1>2, CaughtUpIs

LEMMA CaughtUpAppend ==
  ASSUME NEW r \in Regs, NEW live \in Seq(Entries), NEW e \in Entries
  PROVE  CaughtUp(r, Append(live, e)) = Perform(CaughtUp(r, live), e.write)
<1> DEFINE n == Len(live)
           more == Append(live, e)
<1>1. PICK p : Trace(p, r, live) /\ CaughtUp(r, live) = p[n]
  BY CaughtUpTrace
<1> DEFINE w == Perform(p[n], e.write)
           q == [i \in 0..(n + 1) |-> IF i = n + 1 THEN w ELSE p[i]]
<1>2. n \in Nat /\ more \in Seq(Entries) /\ Len(more) = n + 1 /\ more[n + 1] = e
      /\ \A i \in 1..n : more[i] = live[i]
  OBVIOUS
<1>3. p \in [0..n -> Regs] /\ p[0] = r
      /\ \A i \in 1..n : p[i] = Perform(p[i - 1], live[i].write)
  BY <1>1 DEF Trace
<1>4. w \in Regs
  <2>1. p[n] \in Regs /\ e.write \in Writes
    BY <1>2, <1>3 DEF Entries
  <2>2. QED
    BY <2>1, RegsFacts
<1> HIDE DEF n, more, w
<1>5. q \in [0..(n + 1) -> Regs]
  <2>1. \A i \in 0..(n + 1) : i # n + 1 => i \in 0..n
    BY <1>2
  <2>2. QED
    BY <1>3, <1>4, <2>1
<1>6. q[0] = r /\ q[n + 1] = w
  BY <1>2, <1>3
<1>7. ASSUME NEW i \in 1..(n + 1) PROVE q[i] = Perform(q[i - 1], more[i].write)
  <2>1. i - 1 \in 0..(n + 1) /\ i - 1 # n + 1 /\ q[i - 1] = p[i - 1]
    BY <1>2
  <2>2. CASE i = n + 1
    BY <1>2, <1>6, <2>1, <2>2 DEF w
  <2>3. CASE i # n + 1
    <3>1. i \in 1..n /\ q[i] = p[i]
      BY <1>2, <2>3
    <3> HIDE DEF q
    <3>2. QED
      BY <1>2, <1>3, <2>1, <3>1
  <2>4. QED
    BY <2>2, <2>3
<1> HIDE DEF q
<1>8. Trace(q, r, more)
  BY <1>2, <1>5, <1>6, <1>7 DEF Trace
<1>9. CaughtUp(r, more) = w
  BY <1>2, <1>6, <1>8, CaughtUpIs
<1>10. QED
  BY <1>1, <1>9 DEF more, w

LEMMA CaughtUpTail ==
  ASSUME NEW r \in Regs, NEW live \in Seq(Entries), live # << >>
  PROVE  CaughtUp(Perform(r, Head(live).write), Tail(live)) = CaughtUp(r, live)
<1> DEFINE n == Len(live)
           rest == Tail(live)
           first == Perform(r, Head(live).write)
<1>1. PICK p : Trace(p, r, live) /\ CaughtUp(r, live) = p[n]
  BY CaughtUpTrace
<1> DEFINE q == [i \in 0..(n - 1) |-> p[i + 1]]
<1>2. n \in Nat \ {0} /\ rest \in Seq(Entries) /\ Len(rest) = n - 1 /\ Head(live) = live[1]
      /\ Head(live) \in Entries /\ \A i \in 1..(n - 1) : rest[i] = live[i + 1]
  BY HeadTailProperties, EmptySeq
<1>3. p \in [0..n -> Regs] /\ p[0] = r
      /\ \A i \in 1..n : p[i] = Perform(p[i - 1], live[i].write)
  BY <1>1 DEF Trace
<1>4. first \in Regs /\ p[1] = first
  <2>1. first \in Regs
    BY <1>2, RegsFacts DEF Entries
  <2>2. 1 \in 1..n /\ 1 - 1 = 0
    BY <1>2
  <2>3. QED
    BY <1>2, <1>3, <2>1, <2>2
<1> HIDE DEF n, rest, first
<1>5. q \in [0..(n - 1) -> Regs] /\ q[0] = first /\ q[n - 1] = p[n]
  <2>1. \A i \in 0..(n - 1) : i + 1 \in 0..n
    BY <1>2
  <2>2. QED
    BY <1>2, <1>3, <1>4, <2>1
<1>6. ASSUME NEW i \in 1..(n - 1) PROVE q[i] = Perform(q[i - 1], rest[i].write)
  <2>1. i \in 0..(n - 1) /\ i - 1 \in 0..(n - 1) /\ i + 1 \in 1..n /\ i + 1 - 1 = i /\ i - 1 + 1 = i
    BY <1>2
  <2>2. q[i] = p[i + 1] /\ q[i - 1] = p[i]
    BY <2>1
  <2> HIDE DEF q
  <2>3. p[i + 1] = Perform(p[i], live[i + 1].write)
    BY <1>3, <2>1
  <2>4. QED
    BY <1>2, <2>2, <2>3
<1> HIDE DEF q
<1>7. Trace(q, first, rest)
  BY <1>2, <1>5, <1>6 DEF Trace
<1>8. CaughtUp(first, rest) = p[n]
  BY <1>2, <1>4, <1>5, <1>7, CaughtUpIs
<1>9. QED
  BY <1>1, <1>8 DEF first, rest

(* The part of RegsCatchUp that is about the registers, as a step's        *)
(* invariant.                                                              *)
RegsInv == ~mixed => CaughtUp(regs, queue.live) = ideal

LEMMA RegsTypes ==
  ASSUME IInv
  PROVE  /\ regs \in Regs /\ ideal \in Regs /\ mixed \in BOOLEAN
         /\ queue.live \in Seq(Entries)
         /\ IsEmpty(queue) => CaughtUp(regs, queue.live) = regs
         /\ pc \in {"read", "endframe"} => IsEmpty(queue)
<1>1. regs \in Regs /\ ideal \in Regs /\ mixed \in BOOLEAN /\ queue.live \in Seq(Entries)
  BY DEF IInv, TypeOK, Queues
<1>2. IsEmpty(queue) => CaughtUp(regs, queue.live) = regs
  BY <1>1, CaughtUpEmpty DEF IsEmpty
<1>3. QED
  BY <1>1, <1>2 DEF IInv, SyncedInv

(* A write is queued.                                                      *)
LEMMA RegsWrite ==
  ASSUME IInv, RegsInv, Write2000
  PROVE  RegsInv'
<1>1. PICK w \in Writes :
         /\ queue' = Enqueue(queue, [cycle |-> scan, num |-> Len(made) + 1, write |-> w])
         /\ ideal' = Perform(ideal, w)
  BY DEF Write2000
<1> DEFINE e == [cycle |-> scan, num |-> Len(made) + 1, write |-> w]
<1>2. e \in Entries
  <2>1. scan \in 0..FrameLines /\ Len(made) \in Nat /\ Len(made) < MaxWrites
    BY DEF IInv, TypeOK, Write2000
  <2>2. Len(made) + 1 \in Numbers
    BY <2>1 DEF Numbers
  <2>3. QED
    BY <2>1, <2>2 DEF Entries
<1>3. e.write = w /\ queue'.live = Append(queue.live, e)
  BY <1>1 DEF Enqueue
<1> HIDE DEF e
<1>4. regs' = regs /\ mixed' = mixed
  BY DEF Write2000
<1>5. CaughtUp(regs', queue'.live) = Perform(CaughtUp(regs, queue.live), w)
  BY <1>2, <1>3, <1>4, RegsTypes, CaughtUpAppend
<1>6. QED
  BY <1>1, <1>4, <1>5 DEF RegsInv

(* Sync performs the write at the front.                                   *)
LEMMA RegsFront ==
  ASSUME IInv, RegsInv, PerformFront, ~IsEmpty(queue)
  PROVE  RegsInv'
<1>1. /\ regs' = Perform(regs, Head(queue.live).write) /\ queue'.live = Tail(queue.live)
      /\ ideal' = ideal /\ mixed' = mixed
  BY DEF PerformFront, Dequeue
<1>2. CaughtUp(regs', queue'.live) = CaughtUp(regs, queue.live)
  BY <1>1, RegsTypes, CaughtUpTail DEF IsEmpty
<1>3. QED
  BY <1>1, <1>2 DEF RegsInv

(* DMA, a read and the end of the frame change the registers at once: the  *)
(* queue is empty, or the slice is counted as mixed.                       *)
LEMMA RegsDirect ==
  ASSUME IInv, RegsInv, DirectWrite \/ ReadOAMDATA \/ EndFrame
  PROVE  RegsInv'
<1>1. SUFFICES ASSUME ~mixed' PROVE CaughtUp(regs', queue'.live) = ideal'
  BY DEF RegsInv
<1>2. ~mixed /\ IsEmpty(queue) /\ queue' = queue
  <2>1. CASE DirectWrite
    BY <1>1, <2>1 DEF DirectWrite
  <2>2. CASE ReadOAMDATA \/ EndFrame
    BY <1>1, <2>2, RegsTypes DEF ReadOAMDATA, EndFrame
  <2>3. QED
    BY <2>1, <2>2
<1>3. regs = ideal
  BY <1>2, RegsTypes DEF RegsInv
<1>4. regs' = ideal' /\ regs' \in Regs
  BY <1>3, RegsTypes, RegsFacts DEF DirectWrite, ReadOAMDATA, EndFrame
<1>5. queue'.live = << >>
  BY <1>2 DEF IsEmpty
<1>6. QED
  BY <1>4, <1>5, CaughtUpEmpty

(* The registers and the queue together are always what they would be with *)
(* every write performed at once, unless a DMA slice mixed its writes, and *)
(* a read finds nothing waiting (Write8, Sync and their callers).          *)
THEOREM RegsCatchUpHolds == Spec => []RegsCatchUp
<1>1. Init => RegsInv
  <2>1. SUFFICES ASSUME Init PROVE CaughtUp(regs, queue.live) = ideal
    BY DEF RegsInv
  <2>2. 0 \in 0..(OamWidth - 1)
    BY DEF Init
  <2>3. Cleared \in Regs
    BY <2>2 DEF Cleared, Regs
  <2>4. QED
    BY <2>1, <2>3, CaughtUpEmpty DEF Init, EmptyQueue
<1>2. IInv /\ RegsInv /\ [Next]_vars => RegsInv'
  <2>1. SUFFICES ASSUME IInv, RegsInv, [Next]_vars PROVE RegsInv'
    OBVIOUS
  <2>2. CASE Write2000
    BY <2>1, <2>2, RegsWrite
  <2>3. CASE SyncEarlier \/ SyncRest
    BY <2>1, <2>3, RegsFront DEF SyncEarlier, SyncRest, Earlier, HasBefore
  <2>4. CASE DirectWrite \/ ReadOAMDATA \/ EndFrame
    BY <2>1, <2>4, RegsDirect
  <2>5. CASE UNCHANGED << regs, queue, ideal, mixed >>
    BY <2>1, <2>5 DEF RegsInv
  <2>6. QED
    BY <2>1, <2>2, <2>3, <2>4, <2>5 DEF Next, vars, EnqueueFull, StartSlice, EndSlice, Read2000,
       RenderLine, SyncReturn, NextLine, BeginFrame
<1>3. IInv /\ RegsInv => RegsCatchUp
  BY RegsTypes DEF RegsInv, RegsCatchUp
<1>4. QED
  BY <1>1, <1>2, <1>3, Invariance, PTL DEF Spec
=============================================================================
