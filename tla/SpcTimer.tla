------------------------------ MODULE SpcTimer ------------------------------
(***************************************************************************)
(* What a timer of the SPC700 promises: a counter that looks at the clock  *)
(* in every cycle.  While it is on, a cycle is counted; when period cycles *)
(* have been counted, the four-bit counter the game reads goes up.         *)
(* src/snes/apu/snspctimer.cpp does this work only when somebody asks;     *)
(* SnesSpcIo shows that nobody can tell.                                   *)
(***************************************************************************)
EXTENDS Naturals

CONSTANTS
    CyclesPerTick,  \* cycles of one step of the compare value
    FullPeriod,     \* what the compare value 0 stands for (256)
    Nibble,         \* values of the counter (16)
    ClockValues     \* values of the clock, which wraps around

VARIABLES
    now,            \* the clock
    timer,          \* the timer
    answer,         \* what the last read of the counter returned
    kept            \* clock and timer of the save state, or empty

tvars == << now, timer, answer, kept >>

Period(v) == CyclesPerTick * (IF v = 0 THEN FullPeriod ELSE v)

Fresh == [on |-> FALSE, period |-> Period(0), count |-> 0, up |-> 0]

(* One cycle.                                                              *)
Cycle(t) ==
    IF ~t.on THEN t
    ELSE [t EXCEPT !.count = (t.count + 1) % t.period,
                   !.up = (t.up + ((t.count + 1) \div t.period)) % Nibble]

(* The timer t after 0, 1, 2, ... cycles.                                  *)
Passing(t) ==
    LET after[n \in Nat] == IF n = 0 THEN t ELSE Cycle(after[n - 1])
    IN after

(* Switching a timer on clears its counter, not the cycles counted.        *)
Switch(t, on) ==
    IF on = t.on THEN t ELSE [t EXCEPT !.on = on, !.up = IF on THEN 0 ELSE t.up]

Init == now = 0 /\ timer = Fresh /\ answer = 0 /\ kept = << >>

(* An instruction leaves the timer t, and n cycles pass.                   *)
Pass(t, n) == now' = (now + n) % ClockValues /\ timer' = Passing(t)[n] /\ UNCHANGED kept

Wait(n) == Pass(timer, n) /\ UNCHANGED answer

SetOn(n) == (\E on \in BOOLEAN : Pass(Switch(timer, on), n)) /\ UNCHANGED answer

SetPeriod(n) ==
    /\ \E v \in 0..(FullPeriod - 1) : Pass([timer EXCEPT !.period = Period(v)], n)
    /\ UNCHANGED answer

Read(n) == Pass([timer EXCEPT !.up = 0], n) /\ answer' = timer.up

(* Save states and Reset take no time.                                     *)
Keep == kept' = << [now |-> now, timer |-> timer] >> /\ UNCHANGED << now, timer, answer >>

Bring ==
    /\ kept # << >> /\ now' = kept[1].now /\ timer' = kept[1].timer
    /\ UNCHANGED << answer, kept >>

Restart == now' = 0 /\ timer' = Fresh /\ UNCHANGED << answer, kept >>

Next ==
    \/ \E n \in 1..(ClockValues - 1) : Wait(n) \/ SetOn(n) \/ SetPeriod(n) \/ Read(n)
    \/ Keep \/ Bring \/ Restart

Spec == Init /\ [][Next]_tvars
=============================================================================
