------------------------------- MODULE SNQueue -------------------------------
(***************************************************************************)
(* The write queue of src/snes/core/snqueue.h: a linear buffer of          *)
(* SNQUEUE_SIZE cycle-stamped register writes with a read index m_iHead    *)
(* and a write index m_iTail.  The indices only move forward; they return  *)
(* to zero on Reset, or when Enqueue finds the buffer empty.  So the room  *)
(* freed by dequeuing is not reused while a single element stays behind.   *)
(*                                                                         *)
(* A queue value is [head, live]: m_iHead, and the elements between        *)
(* m_iHead and m_iTail.  The elements are any records with a field cycle;  *)
(* the PPU, the APU ports and the DSP each own one queue.                  *)
(***************************************************************************)
EXTENDS Integers, Sequences

CONSTANT QueueSize        \* SNQUEUE_SIZE

ASSUME QueueSizeAssumption == QueueSize \in Nat \ {0}

EmptyQueue == [head |-> 0, live |-> << >>]

IsEmpty(q) == q.live = << >>

Tl(q) == q.head + Len(q.live)       \* m_iTail

(* Enqueue succeeds on an empty queue (the indices are reset first) and    *)
(* whenever the write index has not reached the end of the buffer.         *)
CanEnqueue(q) == IsEmpty(q) \/ Tl(q) < QueueSize

Enqueue(q, e) == [head |-> IF IsEmpty(q) THEN 0 ELSE q.head,
                  live |-> Append(q.live, e)]

(* Mutant: the stamp not compared.                                         *)
HasBeforeAny(q, cycle) == ~IsEmpty(q)

(* Dequeue(uCycle) delivers the front element when its stamp is below      *)
(* uCycle.  The parameter is a Uint32: a caller that passes a negative     *)
(* Int32 clock passes a number above every stamp.                          *)
HasBefore(q, cycle) ==
    /\ ~IsEmpty(q)
    /\ cycle < 0 \/ cycle > Head(q.live).cycle

(* The queue after either Dequeue has handed out the front element.        *)
Dequeue(q) == [head |-> q.head + 1, live |-> Tail(q.live)]

Queues(Element) == [head : 0..QueueSize, live : Seq(Element)]
=============================================================================
