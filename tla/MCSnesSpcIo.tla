----------------------------- MODULE MCSnesSpcIo -----------------------------
(***************************************************************************)
(* Small instances of SnesSpcIo: instructions of two and three cycles,     *)
(* frames of five, a timer with periods of one and three, one voice.       *)
(***************************************************************************)
EXTENDS SnesSpcIo

MCCyclesPerTick == [i \in Timers |-> 1]
MCGrants == {5}
MCCosts == {2, 3}
MCCompares == {0, 1}
MCData == {"zero", "one"}
MCGames == {{"timer"}, {"rom", "reset"}, {"dsp"}, {"timer", "save", "reset"}, {"rom", "save"}, {"dsp", "save"}}
=============================================================================
