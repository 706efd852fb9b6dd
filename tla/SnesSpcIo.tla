------------------------------ MODULE SnesSpcIo ------------------------------
(***************************************************************************)
(* The SPC700's registers $F0-$FF beside the ports of SnesApu: its timers, *)
(* the switch of the boot ROM, the DSP behind its write queue; the end of  *)
(* a frame, where timers are brought up to date and the sound is mixed     *)
(* from the queue; and save states, which are taken between frames.        *)
(*                                                                         *)
(* Sources: src/snes/apu/snspctimer.cpp, src/snes/apu/snspcio.cpp,         *)
(* src/snes/apu/snspc.c, src/snes/apu/snspcdsp.cpp, the loop of            *)
(* src/snes/apu/snspcmix.cpp, src/snes/core/snes.cpp (ExecuteFrame, Reset) *)
(* and src/snes/state/snstate.cpp.                                         *)
(*                                                                         *)
(* One cycle here is SNSPC_CYCLE in the code.  The SPC gets its cycles of  *)
(* a frame in several calls of SyncSPC; it sees only the difference of a   *)
(* counter and Cycles, which no call changes, so they are granted at once. *)
(* Counters are signed words of 2 * Half values.  The RAM under the boot   *)
(* ROM is one cell.                                                        *)
(***************************************************************************)
EXTENDS SNQueue, SequencesExt

CONSTANTS
    Timers,         \* the three timers
    CyclesPerTick,  \* for each of them, cycles of a step of its compare value
    FullPeriod,     \* what the compare value 0 stands for (0x100)
    Byte, Nibble,   \* values of uUpCounter, and of what a read returns
    Half,           \* half the values of a counter
    Grants,         \* cycles the SPC is given in a frame
    Costs,          \* cycles of the SPC's instructions
    BranchExtra,    \* cycles a taken branch takes beyond its cost
    Compares,       \* values a game writes to $FA-$FC
    Data, Zero, Rom, \* bytes a game writes to RAM, one of them 0; the boot ROM's
    Voices,         \* the DSP's channels
    Chunk,          \* cycles of sound mixed at a time
    MixCycles,      \* cycles of sound mixed in a frame
    Games,          \* sets of things a game does
    MaxFrames,      \* bound: frames of a game, unless it does nothing but
                    \* use its timers
    MaxOps          \* bound: accesses of a game that saves

ASSUME ClockAssumption ==
    /\ Half \in Nat /\ BranchExtra \in Nat /\ Chunk \in Nat
    /\ Grants \subseteq Nat /\ Costs \subseteq Nat \ {0} /\ Costs # {}
    /\ \A g \in Grants \cup {0}, c \in Costs : g + c + BranchExtra < Half
ASSUME TimerAssumption ==
    /\ CyclesPerTick \in [Timers -> Nat \ {0}] /\ FullPeriod \in Nat \ {0}
    /\ Byte \in Nat \ {0} /\ Nibble \in Nat \ {0} /\ Byte % Nibble = 0
    /\ Compares \subseteq 0..(FullPeriod - 1)

VARIABLES
    pc,             \* "spc", "mix", or "idle" between frames
    total, granted, \* Counter[SNSPC_COUNTER_TOTAL], Counter[SNSPC_COUNTER_FRAME]
    cycles,         \* Cycles
    timers,         \* m_Regs.spc_timer
    seen,           \* what the last read of each timer returned
    mem, shadow,    \* Mem and ShadowMem
    bRomEnable,     \* FALSE is 0, TRUE is 1, and the bit of $F1 is 128
    dsp,            \* SNSpcDsp and the mixer's channels
    queue,          \* SNSpcDsp::m_Queue
    uCycle,         \* uCycle of Mix
    state,          \* the save state, or empty
    game,           \* what the game does
    frames, ops,    \* frames and accesses, as far as they are bounded
    ram, lost,      \* history: the last byte written, unless it got lost
    shot            \* history: the machine that was saved

spcvars == << total, granted, cycles >>
romvars == << mem, shadow, bRomEnable, ram, lost >>
vars == << pc, spcvars, timers, seen, romvars, dsp, queue, uCycle, state,
           game, frames, ops, shot >>

(* A number as a signed and as an unsigned word.                           *)
Signed(x) == ((x + Half) % (2 * Half)) - Half
Unsigned(x) == x % (2 * Half)

(* SNSPCGetCounter                                                         *)
Now == Signed(total - cycles)
FrameNow == granted - cycles

Period(i, v) == CyclesPerTick[i] * (IF v = 0 THEN FullPeriod ELSE v)

NewTimer(i) == [bEnabled |-> FALSE, uUpCounter |-> 0, iDivisor |-> Period(i, 0),
                iCycleSync |-> 0, nElapsedCycles |-> 0]

NewDsp == [kon |-> {}, koff |-> {}, endx |-> {},
           voice |-> [v \in Voices |-> "silence"], ended |-> {}]

Init ==
    /\ pc = "idle" /\ total = 0 /\ granted = 0 /\ cycles = 0
    /\ timers = [i \in Timers |-> NewTimer(i)]
    /\ seen = [i \in Timers |-> 0]
    /\ mem = Rom /\ shadow = Zero /\ bRomEnable = 1 /\ ram = Zero /\ lost = FALSE
    /\ dsp = NewDsp /\ queue = EmptyQueue /\ uCycle = 0
    /\ state = << >> /\ shot = << >>
    /\ game \in Games /\ frames = 0 /\ ops = 0

-----------------------------------------------------------------------------
(* Timers.                                                                 *)

(* SNSpcTimerSync: count the cycles since the last call.                   *)
Sync(t, now) ==
    IF ~t.bEnabled THEN [t EXCEPT !.iCycleSync = now]
    ELSE LET run == t.nElapsedCycles + Signed(now - t.iCycleSync)
             count == IF run >= t.iDivisor THEN run \div t.iDivisor ELSE 0
         IN [t EXCEPT !.nElapsedCycles = run - count * t.iDivisor,
                      !.uUpCounter = (t.uUpCounter + count) % Byte,
                      !.iCycleSync = now]

(* SNSpcTimerSetEnable: nothing happens, and nothing is counted, when the  *)
(* bit stays.                                                              *)
SetEnable(t, now, on) ==
    IF on = t.bEnabled THEN t
    ELSE LET s == Sync(t, now)
         IN [s EXCEPT !.bEnabled = on, !.uUpCounter = IF on THEN 0 ELSE s.uUpCounter]

(* The write to $FA-$FC.  Mutant: the cycles so far are not counted with   *)
(* the period they passed in.                                              *)
SetTimerMutant(i, t, now, v) == [t EXCEPT !.iDivisor = Period(i, v)]
SetTimer(i, t, now, v) == [Sync(t, now) EXCEPT !.iDivisor = Period(i, v)]

(* SNSpcTimerGetCounter, on the timer.                                     *)
GetCounter(t, now) == [Sync(t, now) EXCEPT !.uUpCounter = 0]

-----------------------------------------------------------------------------
(* The boot ROM.  SNSPCSetRomEnable compares two bytes, not two truth      *)
(* values: 128 is not 1.  What it does to Mem and ShadowMem.  Mutant: RAM  *)
(* is not copied to the shadow.                                            *)
RomSwitchMutant(m, s, old, new) ==
    IF new = old THEN [mem |-> m, shadow |-> s]
    ELSE IF new # 0 THEN [mem |-> Rom, shadow |-> s]
    ELSE [mem |-> s, shadow |-> s]
RomSwitch(m, s, old, new) ==
    IF new = old THEN [mem |-> m, shadow |-> s]
    ELSE IF new # 0 THEN [mem |-> Rom, shadow |-> m]
    ELSE [mem |-> s, shadow |-> s]

SetRomEnable(new) ==
    LET r == RomSwitch(mem, shadow, bRomEnable, new)
    IN /\ mem' = r.mem /\ shadow' = r.shadow /\ bRomEnable' = new
       /\ lost' = (lost \/ (bRomEnable = 1 /\ new = 128))
       /\ UNCHANGED ram

-----------------------------------------------------------------------------
(* The DSP.                                                                *)

(* KeyOn and KeyOff of the mixer.                                          *)
KeyOn(voice, V) == [v \in Voices |-> IF v \in V THEN "attack" ELSE voice[v]]
KeyOff(voice, V) ==
    [v \in Voices |-> IF v \in V /\ voice[v] = "attack" THEN "release" ELSE voice[v]]

(* SNSpcDsp::Write8.                                                       *)
Write8(d, w) ==
    CASE w.reg = "FLG" -> [d EXCEPT !.kon = {}, !.koff = {}, !.endx = {}]
      [] w.reg = "ENDX" -> [d EXCEPT !.endx = {}]
      [] w.reg = "KON" -> [d EXCEPT !.kon = w.data, !.endx = d.endx \ w.data,
                                    !.voice = KeyOn(d.voice, w.data),
                                    !.ended = d.ended \ w.data]
      [] w.reg = "KOFF" -> [d EXCEPT !.koff = w.data, !.voice = KeyOff(d.voice, w.data)]

DspWrites ==
    [reg : {"KON", "KOFF"}, data : SUBSET Voices] \cup [reg : {"FLG", "ENDX"}, data : {{}}]

(* SNSpcDsp::Sync(): perform everything queued.                            *)
Performed(d, writes) == FoldLeft(LAMBDA e, w : Write8(e, w), d, writes)

(* EnqueueWrite, repeated after a Sync when the buffer is full.            *)
EnqueueWrite(w) ==
    LET e == [cycle |-> Unsigned(FrameNow), reg |-> w.reg, data |-> w.data]
    IN IF CanEnqueue(queue)
       THEN queue' = Enqueue(queue, e) /\ UNCHANGED dsp
       ELSE queue' = Enqueue(EmptyQueue, e) /\ dsp' = Performed(dsp, queue.live)

(* SNSpcDsp::Sync(uCycle): perform what is earlier, from the front.        *)
(* Mutant: what is not later.                                              *)
DueMutant(n, u) ==
    /\ \A k \in 1..n : queue.live[k].cycle <= u
    /\ n < Len(queue.live) => queue.live[n + 1].cycle > u
Due(n, u) ==
    /\ \A k \in 1..n : queue.live[k].cycle < u
    /\ n < Len(queue.live) => queue.live[n + 1].cycle >= u

-----------------------------------------------------------------------------
(* The SPC's instructions.                                                 *)

Execute(cost, extra) ==
    /\ pc = "spc" /\ cycles >= cost
    /\ cycles' = cycles - cost - extra
    /\ UNCHANGED << pc, total, granted, uCycle, state, shot, game, frames >>

Access(thing) ==
    /\ thing \in game
    /\ "save" \in game => ops < MaxOps
    /\ ops' = IF "save" \in game THEN ops + 1 ELSE ops
    /\ \E cost \in Costs : Execute(cost, 0)

Compute ==
    /\ \E cost \in Costs, extra \in {0, BranchExtra} : Execute(cost, extra)
    /\ UNCHANGED << timers, seen, romvars, dsp, queue, ops >>

(* $F1: every timer's bit and the ROM's.                                   *)
WriteControl ==
    /\ Access("timer") \/ Access("rom")
    /\ \E on \in IF "timer" \in game THEN SUBSET Timers ELSE {{}} :
          timers' = [i \in Timers |-> SetEnable(timers[i], Now, i \in on)]
    /\ \E bit \in IF "rom" \in game THEN {0, 128} ELSE {0} : SetRomEnable(bit)
    /\ UNCHANGED << seen, dsp, queue >>

(* $FA-$FC.                                                                *)
WriteTimer ==
    /\ Access("timer")
    /\ \E i \in Timers, v \in Compares :
          timers' = [timers EXCEPT ![i] = SetTimer(i, @, Now, v)]
    /\ UNCHANGED << seen, romvars, dsp, queue >>

(* $FD-$FF.                                                                *)
ReadTimer ==
    /\ Access("timer")
    /\ \E i \in Timers :
          /\ seen' = [seen EXCEPT ![i] = Sync(timers[i], Now).uUpCounter % Nibble]
          /\ timers' = [timers EXCEPT ![i] = GetCounter(@, Now)]
    /\ UNCHANGED << romvars, dsp, queue >>

(* SNSPCWrite8 under the boot ROM.                                         *)
WriteRam ==
    /\ Access("rom")
    /\ \E b \in Data :
          /\ ram' = b /\ lost' = FALSE
          /\ IF bRomEnable = 0 THEN mem' = b /\ UNCHANGED shadow
             ELSE shadow' = b /\ UNCHANGED mem
    /\ UNCHANGED << timers, seen, bRomEnable, dsp, queue >>

(* $F3, with the register's number in $F2.                                 *)
WriteDsp ==
    /\ Access("dsp")
    /\ \E w \in DspWrites : EnqueueWrite(w)
    /\ UNCHANGED << timers, seen, romvars >>

ReadDsp ==
    /\ Access("dsp")
    /\ dsp' = Performed(dsp, queue.live) /\ queue' = EmptyQueue
    /\ UNCHANGED << timers, seen, romvars >>

-----------------------------------------------------------------------------
(* The frame.                                                              *)

(* ExecuteFrame resets the frame's counter, and the SPC gets its cycles.   *)
BeginFrame ==
    /\ pc = "idle" /\ pc' = "spc"
    /\ game # {"timer"} => frames < MaxFrames
    /\ frames' = IF game = {"timer"} THEN 0 ELSE frames + 1
    /\ \E g \in Grants : granted' = g /\ total' = Signed(total + g) /\ cycles' = cycles + g
    /\ UNCHANGED << timers, seen, romvars, dsp, queue, uCycle, state, shot, game, ops >>

(* The next instruction does not fit: the timers are brought up to date.   *)
EndFrame ==
    /\ pc = "spc" /\ (\E cost \in Costs : cycles < cost)
    /\ pc' = "mix" /\ uCycle' = 0
    /\ timers' = [i \in Timers |-> Sync(timers[i], Now)]
    /\ UNCHANGED << spcvars, seen, romvars, dsp, queue, state, shot, game, frames, ops >>

(* One round of Mix.  Voices may come to the end of their sample, where    *)
(* some loop and the others fall silent.                                   *)
MixChunk ==
    /\ pc = "mix" /\ uCycle < MixCycles
    /\ \E n \in 0..Len(queue.live) :
          /\ Due(n, uCycle)
          /\ queue' = [head |-> queue.head + n, live |-> SubSeq(queue.live, n + 1, Len(queue.live))]
          /\ LET d == Performed(dsp, SubSeq(queue.live, 1, n))
             IN \E end \in SUBSET {v \in Voices : d.voice[v] # "silence"} : \E over \in SUBSET end :
                   dsp' = [d EXCEPT !.voice = [v \in Voices |-> IF v \in over THEN "silence" ELSE @[v]],
                                    !.ended = d.ended \cup end]
    /\ uCycle' = uCycle + Chunk
    /\ UNCHANGED << pc, spcvars, timers, seen, romvars, state, shot, game, frames, ops >>

(* The rest of the queue is performed, and UpdateFlags takes over which    *)
(* voices have ended, in the mode that asks the mixer.                     *)
UpdateFlags(d) ==
    [d EXCEPT !.endx = d.endx \cup d.ended, !.kon = d.kon \ d.ended,
              !.koff = d.koff \ d.ended, !.ended = {}]

EndMix ==
    /\ pc = "mix" /\ (uCycle >= MixCycles \/ uCycle = 0)     \* no buffer, no mixing
    /\ pc' = "idle" /\ queue' = EmptyQueue /\ uCycle' = 0
    /\ \E d \in {Performed(dsp, queue.live)} : dsp' = UpdateFlags(d) \/ dsp' = d
    /\ UNCHANGED << spcvars, timers, seen, romvars, state, shot, game, frames, ops >>

-----------------------------------------------------------------------------
(* Between frames.                                                         *)

(* The RAM under the ROM, wherever it is.                                  *)
Under == IF bRomEnable = 0 THEN mem ELSE shadow

(* The machine, as it will go on from here.                                *)
Machine == [now |-> Now, left |-> cycles, timers |-> timers, mem |-> mem, under |-> Under,
            rom |-> bRomEnable, dsp |-> dsp, queue |-> queue.live, ram |-> ram, lost |-> lost]

(* SaveState.  To reach the RAM it switches the ROM off and on again.      *)
(* Mutant: without switching it off.                                       *)
SpcRamMutant == mem
SpcRam == RomSwitch(mem, shadow, bRomEnable, 0).mem

Save ==
    /\ pc = "idle" /\ "save" \in game
    /\ LET off == RomSwitch(mem, shadow, bRomEnable, 0)
           on == RomSwitch(off.mem, off.shadow, 0, bRomEnable)
       IN /\ mem' = on.mem /\ shadow' = on.shadow
          /\ state' = << [total |-> total, granted |-> granted, cycles |-> cycles,
                          timers |-> timers, dsp |-> dsp, SpcRam |-> SpcRam,
                          bRomEnable |-> bRomEnable] >>
    /\ shot' = << Machine >>
    /\ UNCHANGED << pc, spcvars, timers, seen, bRomEnable, ram, lost, dsp, queue, uCycle, game, frames, ops >>

(* RestoreState.                                                           *)
Restore ==
    /\ pc = "idle" /\ state # << >>
    /\ LET s == state[1]
           on == RomSwitch(s.SpcRam, RomSwitch(mem, shadow, bRomEnable, 0).shadow, 0, s.bRomEnable)
       IN /\ total' = s.total /\ granted' = s.granted /\ cycles' = s.cycles
          /\ timers' = s.timers /\ dsp' = s.dsp
          /\ mem' = on.mem /\ shadow' = on.shadow /\ bRomEnable' = s.bRomEnable
    /\ ram' = shot[1].ram /\ lost' = shot[1].lost
    /\ UNCHANGED << pc, seen, queue, uCycle, state, shot, game, frames, ops >>

(* SnesSystem::Reset.                                                      *)
Reset ==
    /\ pc = "idle" /\ "reset" \in game
    /\ total' = 0 /\ granted' = 0 /\ cycles' = 0
    /\ timers' = [i \in Timers |-> NewTimer(i)]
    /\ mem' = Rom /\ shadow' = Zero /\ bRomEnable' = 1 /\ ram' = Zero /\ lost' = FALSE
    /\ dsp' = NewDsp /\ queue' = EmptyQueue
    /\ UNCHANGED << pc, seen, uCycle, state, shot, game, frames, ops >>

Next ==
    \/ Compute \/ WriteControl \/ WriteTimer \/ ReadTimer \/ WriteRam \/ WriteDsp \/ ReadDsp
    \/ BeginFrame \/ EndFrame \/ MixChunk \/ EndMix \/ Save \/ Restore \/ Reset

Spec == Init /\ [][Next]_vars

-----------------------------------------------------------------------------
(* Properties.                                                             *)

Shown(t, now) ==
    LET s == Sync(t, now)
    IN [on |-> s.bEnabled, period |-> s.iDivisor, count |-> s.nElapsedCycles,
        up |-> s.uUpCounter % Nibble]

Ticking(i) == INSTANCE SpcTimer WITH
    CyclesPerTick <- CyclesPerTick[i],
    ClockValues <- 2 * Half,
    now <- Unsigned(Now),
    timer <- Shown(timers[i], Now),
    answer <- seen[i],
    kept <- IF state = << >> THEN << >>
            ELSE LET s == state[1]
                     then == Signed(s.total - s.cycles)
                 IN << [now |-> Unsigned(then), timer |-> Shown(s.timers[i], then)] >>

(* A timer updated only when it is touched, and once in a frame, shows     *)
(* what a timer ticked in every cycle shows: through changes of its period,*)
(* stops and starts, wrapping clocks, resets and save states.              *)
TimersTick ==
    /\ \A i \in Timers : Ticking(i)!Init
    /\ [][\A i \in Timers : [Ticking(i)!Next]_(Ticking(i)!tvars)]_vars

(* Switching the boot ROM on and off, saving and restoring do not disturb  *)
(* the RAM under it.  Except when a game that has never switched it off    *)
(* since Reset writes $F1 with the ROM's bit set: it is switched on twice, *)
(* and RAM is overwritten with the ROM until the next write to it.         *)
RamUnderRom == Under = IF lost THEN Rom ELSE ram

(* A restored machine is the machine that was saved, whatever it did since.*)
RestoreGoesOn == [][Restore => Machine' = shot[1]]_vars

(* Each round of mixing has performed the DSP writes made before it, and   *)
(* none made later.  Except when the front of the queue was written before *)
(* the frame's clock reached 0: as a Uint32 its stamp is later than any    *)
(* time of the mixer, and it holds up all writes of the frame.             *)
Early(e) == e.cycle >= Half
DspOnTime ==
    [][MixChunk =>
        LET left == queue'.live
        IN /\ \A k \in 1..(Len(queue.live) - Len(left)) : queue.live[k].cycle < uCycle
           /\ \A k \in 1..Len(left) : left[k].cycle >= uCycle \/ Early(left[1])]_vars

-----------------------------------------------------------------------------
(* Statements of the source that the runs refute.                          *)

(* snspcmix.cpp:1362: dequeue write queue up to current cycle time.        *)
MixDequeuesDue ==
    [][MixChunk => \A k \in 1..Len(queue'.live) : Signed(queue'.live[k].cycle) >= uCycle]_vars

(* snspc.c:108: what is copied to the shadow memory is RAM data.           *)
ShadowIsRam == Under = ram
=============================================================================
