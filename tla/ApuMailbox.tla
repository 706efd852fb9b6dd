----------------------------- MODULE ApuMailbox -----------------------------
(***************************************************************************)
(* What the APU ports promise to the two programs that talk through them,  *)
(* whatever the emulator's clocks and queues do: the writes of the CPU     *)
(* reach the port registers one at a time, in the order they were made,    *)
(* each exactly once, and the SPC can clear ports in between.              *)
(*                                                                         *)
(* SnesApu implements this specification: see ApuRefinesMailbox there.     *)
(***************************************************************************)
EXTENDS Integers, Sequences

CONSTANTS Ports, PortPairs

VARIABLES
    written,        \* how many writes the CPU has made
    pending,        \* the ports of the writes on their way, oldest first
    register        \* port -> number of the write it shows, 0 when cleared

vars == << written, pending, register >>

Init == written = 0 /\ pending = << >> /\ register = [p \in Ports |-> 0]

Write(p) == /\ written' = written + 1
            /\ pending' = Append(pending, p)
            /\ UNCHANGED register

(* The number of the oldest write on its way. *)
Oldest == written - Len(pending) + 1

Arrive == /\ pending # << >>
          /\ register' = [register EXCEPT ![Head(pending)] = Oldest]
          /\ pending' = Tail(pending)
          /\ UNCHANGED written

(* A write made while nothing is on its way may arrive in the same step.   *)
WriteThrough(p) == /\ pending = << >>
                   /\ written' = written + 1
                   /\ register' = [register EXCEPT ![p] = written + 1]
                   /\ UNCHANGED pending

Clear == /\ \E S \in SUBSET PortPairs :
               register' = [p \in Ports |-> IF p \in UNION S THEN 0 ELSE register[p]]
         /\ UNCHANGED << written, pending >>

Next == (\E p \in Ports : Write(p) \/ WriteThrough(p)) \/ Arrive \/ Clear

Spec == Init /\ [][Next]_vars
=============================================================================
