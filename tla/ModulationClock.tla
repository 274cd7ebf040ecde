--------------------------- MODULE ModulationClock ---------------------------
(***************************************************************************)
(* The modulation envelope and the two LFOs of a voice, twice.  The host's *)
(* runtime (mcu_sf2_asset_runtime.cpp) replays every control tick; the     *)
(* firmware (msf2.c) folds the ticks that passed since its last visit,     *)
(* however late that visit is, into a few arithmetic steps.  Both publish  *)
(* the modulation a voice sounds with, the envelope after the last tick    *)
(* and the LFOs before it, by control groups: its gain, its pitch and its  *)
(* filter.                                                                 *)
(*                                                                         *)
(* Levels run to Full in place of 32767 and LFO phases modulo PhaseMod in  *)
(* place of 2^32; the triangle wave is left out, it is a function of the   *)
(* phase.  One LFO stands for both, which advance alike.  The other terms  *)
(* of a group's sum, the controllers, are VoiceRuntime's; here they only   *)
(* say which groups are dirty.                                             *)
(***************************************************************************)
EXTENDS Integers

CONSTANTS
  Full,        \* 32767, the top of a Q15 level
  PhaseMod,    \* 2^32, the range of mod_lfo_phase
  Notes,       \* msf2_runtime_config of the notes, and their periodic_groups
  MaxElapsed,  \* bound: ticks folded into one visit
  MaxTicks     \* bound: ticks of a behaviour

(* MSF2_CONTROL_GROUP_GAIN, _PITCH and _FILTER *)
Groups == {"gain", "pitch", "filter"}

(* The lengths of the stages are in control ticks. *)
Configs ==
  [delay : Nat, attack : Nat, hold : Nat, decay : Nat, release : Nat,
   sustain : 0 .. Full, subTick : BOOLEAN, lfoDelay : Nat, lfoStep : Nat,
   periodic : SUBSET Groups]

ASSUME ModulationAssumption ==
  /\ Full \in Nat \ {0} /\ PhaseMod \in Nat \ {0}
  /\ Notes \subseteq Configs
  /\ MaxElapsed \in Nat \ {0} /\ MaxTicks \in Nat

VARIABLES
  config,   \* msf2_runtime_config of the note, and its voice's periodic_groups
  folded,   \* the voice as the firmware advances it
  ticked,   \* the voice as the host advances it
  ticks,    \* control_tick_index of both, from the note's start
  dirty,    \* dirty_groups of the voice's channel in the firmware
  enabled,  \* periodic_modulation_enabled of the firmware
  fault     \* app_control_fault: a command of a visit was refused

modulationVars == <<config, folded, ticked, ticks, dirty, enabled, fault>>

(* What a group's value is computed from: nothing that moves, when the     *)
(* group is not periodic or periodic modulation is off.                    *)
Still == [level |-> 0, lfo |-> [on |-> FALSE, phase |-> 0]]
Moved(level, lfoOn, phase) == [level |-> level, lfo |-> [on |-> lfoOn, phase |-> phase]]

(* note_on: the initial modulation state, and the values of the START      *)
(* command, with the envelope in them and not the LFOs.                    *)
Started(c, on) ==
  LET sub == c.delay = 0 /\ c.subTick
      first == IF sub THEN Full ELSE 0
  IN [stage |-> IF c.delay # 0 THEN "delay"
                ELSE IF ~sub THEN "attack" ELSE IF c.hold # 0 THEN "hold" ELSE "decay",
      tick |-> 0, wait |-> IF sub THEN c.hold ELSE c.delay,
      level |-> first, from |-> 0,
      phase |-> 0, lfoWait |-> c.lfoDelay,
      published |-> [g \in Groups |->
        IF on /\ g \in c.periodic THEN Moved(first, FALSE, 0) ELSE Still]]

ModulationInit ==
  /\ config \in Notes /\ enabled \in BOOLEAN
  /\ folded = Started(config, enabled) /\ ticked = Started(config, TRUE)
  /\ ticks = 0 /\ dirty = {} /\ fault = FALSE

----------------------------------------------------------------------------
(* C's division truncates toward zero. *)
Quotient(a, b) == IF a >= 0 THEN a \div b ELSE -((-a) \div b)

Larger(a, b) == IF a > b THEN a ELSE b
Smaller(a, b) == IF a < b THEN a ELSE b

LinearLevel(start, target, tick, duration) ==
  IF tick >= duration THEN target
  ELSE LET t == Larger(1, tick)
           d == Larger(1, duration)
           value == start + Quotient((target - start) * t + d \div 2, d)
       IN Smaller(Full, Larger(0, value))

(* An attack or a decay that has reached its end moves on. *)
Ramped(v, c) ==
  IF v.stage = "attack"
  THEN IF v.tick < c.attack THEN [v EXCEPT !.level = LinearLevel(0, Full, v.tick, c.attack)]
       ELSE [v EXCEPT !.level = Full, !.tick = 0, !.wait = c.hold,
                      !.stage = IF c.hold # 0 THEN "hold" ELSE "decay"]
  ELSE IF v.tick < c.decay THEN [v EXCEPT !.level = LinearLevel(Full, c.sustain, v.tick, c.decay)]
       ELSE [v EXCEPT !.level = c.sustain, !.tick = 0, !.stage = "sustain"]

AfterWait(v) == [v EXCEPT !.stage = IF v.stage = "delay" THEN "attack" ELSE "decay"]

(* advance_modulation of the host: one tick of the envelope. *)
EnvelopeTick(v, c) ==
  CASE v.stage \in {"delay", "hold"} ->
         LET w == [v EXCEPT !.wait = Larger(0, @ - 1)]
         IN IF w.wait = 0 THEN AfterWait(w) ELSE w
    [] v.stage \in {"attack", "decay"} -> Ramped([v EXCEPT !.tick = @ + 1], c)
    [] v.stage = "release" ->
         [v EXCEPT !.tick = @ + 1, !.level = LinearLevel(v.from, 0, v.tick + 1, c.release)]
    [] OTHER -> v

LfoTick(v, c) ==
  IF v.lfoWait # 0 THEN [v EXCEPT !.lfoWait = @ - 1]
  ELSE [v EXCEPT !.phase = (@ + c.lfoStep) % PhaseMod]

(* refresh_voice: what the given groups of the voice are computed from.    *)
(* The host's knows no switch.                                             *)
Heard(v, c, g, on) ==
  IF on /\ g \in c.periodic THEN Moved(v.level, v.lfoWait = 0, v.phase) ELSE Still
Refreshed(v, c, groups, on) ==
  [v EXCEPT !.published = [g \in Groups |->
     IF g \in groups THEN Heard(v, c, g, on) ELSE v.published[g]]]

(* advance_modulation of the host: the filter on every fourth tick only. *)
HostGroups(index) == {"gain", "pitch"} \cup {g \in {"filter"} : index % 4 = 0}
AdvanceModulation(v, c, index) ==
  LfoTick(Refreshed(EnvelopeTick(v, c), c, HostGroups(index), TRUE), c)

Replayed(v, c, n, index) ==
  LET after[i \in 0 .. n] ==
        IF i = 0 THEN v ELSE AdvanceModulation(after[i - 1], c, index + i - 1)
  IN  after[n]

----------------------------------------------------------------------------
(* Mutant of FoldStep: the time left in a wait is not carried over. *)
FoldStepDropsRest(s, c) ==
  LET v == s.voice
      n == IF v.stage \in {"delay", "hold"} THEN v.wait
           ELSE (IF v.stage = "attack" THEN c.attack ELSE c.decay) - v.tick
      advance == Smaller(s.left, Larger(1, n))
  IN IF v.stage \in {"delay", "hold"}
     THEN [voice |-> IF v.wait <= advance THEN AfterWait([v EXCEPT !.wait = 0])
                     ELSE [v EXCEPT !.wait = @ - advance],
           left |-> 0]
     ELSE IF v.stage \in {"attack", "decay"}
     THEN [voice |-> Ramped([v EXCEPT !.tick = @ + advance], c), left |-> s.left - advance]
     ELSE [voice |-> v, left |-> 0]

(* advance_modulation_envelope_elapsed: one round of its loop. *)
FoldStep(s, c) ==
  LET v == s.voice
      n == IF v.stage \in {"delay", "hold"} THEN v.wait
           ELSE (IF v.stage = "attack" THEN c.attack ELSE c.decay) - v.tick
      advance == Smaller(s.left, Larger(1, n))
  IN CASE s.left = 0 -> s
       [] s.left # 0 /\ v.stage \in {"delay", "hold"} ->
            [voice |-> IF v.wait <= advance THEN AfterWait([v EXCEPT !.wait = 0])
                       ELSE [v EXCEPT !.wait = @ - advance],
             left |-> s.left - advance]
       [] s.left # 0 /\ v.stage \in {"attack", "decay"} ->
            [voice |-> Ramped([v EXCEPT !.tick = @ + advance], c), left |-> s.left - advance]
       [] s.left # 0 /\ v.stage = "release" ->
            [voice |-> [v EXCEPT !.tick = @ + s.left,
                                 !.level = LinearLevel(v.from, 0, v.tick + s.left, c.release)],
             left |-> 0]
       [] OTHER -> [s EXCEPT !.left = 0]

(* Every round takes a tick at least, so n of them are enough. *)
EnvelopeElapsed(v, c, n) ==
  LET after[i \in 0 .. n] ==
        IF i = 0 THEN [voice |-> v, left |-> n] ELSE FoldStep(after[i - 1], c)
  IN  after[n].voice

(* advance_lfo_elapsed_before_final *)
LfoElapsed(v, c, n) ==
  IF n <= v.lfoWait THEN [v EXCEPT !.lfoWait = @ - n]
  ELSE [v EXCEPT !.lfoWait = 0, !.phase = (@ + c.lfoStep * (n - v.lfoWait)) % PhaseMod]

(* advance_voice_modulation_elapsed.  A voice with no periodic group is    *)
(* not advanced at all; of the others, the dirty groups are computed, and  *)
(* while periodic modulation is on the periodic ones, the filter when more *)
(* than one tick is folded or on every fourth.                             *)
FirmwareGroups(c, n, index, marked, on) ==
  marked \cup {g \in c.periodic : on /\ (g # "filter" \/ n > 1 \/ (index + n - 1) % 4 = 0)}
FoldedTo(v, c, n) ==
  IF c.periodic = {} THEN v ELSE LfoElapsed(EnvelopeElapsed(v, c, n), c, n - 1)
AdvanceElapsed(v, c, n, groups, on) ==
  LET r == Refreshed(FoldedTo(v, c, n), c, groups, on)
  IN  IF c.periodic = {} THEN r ELSE LfoTick(r, c)

----------------------------------------------------------------------------
(* The firmware visits the voice after n ticks; the host has replayed      *)
(* them.  Neither visits a voice it has released.                          *)
Visit(n) ==
  /\ ~fault /\ ticks + n <= MaxTicks /\ folded.stage # "release"
  /\ ticks' = ticks + n
  /\ folded' = AdvanceElapsed(folded, config, n,
                 FirmwareGroups(config, n, ticks, dirty, enabled), enabled)
  /\ ticked' = Replayed(ticked, config, n, ticks)
  /\ dirty' = {}
  /\ UNCHANGED <<config, enabled, fault>>

(* A command of a visit is refused: the groups before it are published,    *)
(* the last LFO tick is not taken, and main stops serving control.  Pitch  *)
(* goes first, then gain, then filter, each only when its value changed.   *)
RefreshOrder == [pitch |-> 1, gain |-> 2, filter |-> 3]
VisitFails(n, g) ==
  LET groups == FirmwareGroups(config, n, ticks, dirty, enabled)
      v == FoldedTo(folded, config, n)
      earlier == {h \in groups : RefreshOrder[h] < RefreshOrder[g]}
  IN /\ ~fault /\ (folded.stage = "release" => folded.tick = 0)
     /\ g \in groups
     /\ g \in dirty \/ Heard(v, config, g, enabled) # folded.published[g]
     /\ folded' = Refreshed(v, config, earlier, enabled)
     /\ fault' = TRUE
     /\ UNCHANGED <<config, ticked, ticks, dirty, enabled>>

(* release_voice, the same in both *)
ReleaseEnvelope(v) == [v EXCEPT !.stage = "release", !.tick = 0, !.from = v.level]

ReleaseBoth ==
  /\ ~fault /\ folded.stage # "release"
  /\ folded' = ReleaseEnvelope(folded) /\ ticked' = ReleaseEnvelope(ticked)
  /\ UNCHANGED <<config, ticks, dirty, enabled, fault>>

(* A control job that captured the voice before its release still visits   *)
(* it once (msf2_runtime_advance_control_slice asks the snapshot).         *)
LateVisit(n) ==
  /\ ~fault /\ folded.stage = "release" /\ folded.tick = 0
  /\ folded' = AdvanceElapsed(folded, config, n,
                 FirmwareGroups(config, n, ticks, dirty, enabled), enabled)
  /\ dirty' = {}
  /\ UNCHANGED <<config, ticked, ticks, enabled, fault>>

(* A controller: the firmware marks groups, a bend the pitch and the       *)
(* others all; the host computes every group anew at once.                 *)
Controller(groups) ==
  /\ ~fault
  /\ dirty' = dirty \cup groups
  /\ ticked' = Refreshed(ticked, config, Groups, TRUE)
  /\ UNCHANGED <<config, folded, ticks, enabled, fault>>

(* app_synth_toggle_periodic_modulation *)
TogglePeriodic ==
  /\ ~fault
  /\ enabled' = ~enabled /\ dirty' = Groups
  /\ UNCHANGED <<config, folded, ticked, ticks, fault>>

ModulationNext ==
  \/ \E n \in 1 .. MaxElapsed : Visit(n) \/ LateVisit(n)
  \/ \E n \in 1 .. MaxElapsed, g \in Groups : VisitFails(n, g)
  \/ ReleaseBoth
  \/ \E groups \in {{"pitch"}, Groups} : Controller(groups)
  \/ TogglePeriodic

ModulationSpec == ModulationInit /\ [][ModulationNext]_modulationVars

SameClock(u, v) ==
  /\ u.stage = v.stage /\ u.tick = v.tick /\ u.wait = v.wait
  /\ u.level = v.level /\ u.from = v.from
  /\ u.phase = v.phase /\ u.lfoWait = v.lfoWait

(* Folding elapsed ticks is replaying them: whatever the note's stage      *)
(* lengths, and however the firmware's visits are spaced, the envelope and *)
(* the LFO phase of a voice with a periodic group are those of the tick-   *)
(* by-tick runtime, stage boundaries inside one visit included.  While     *)
(* periodic modulation is on and no controller waits to be applied, so is  *)
(* what its gain and pitch were last computed from, also when modulation   *)
(* was off in between.  It is not so of the filter: the host computes it   *)
(* on every fourth tick, the firmware on each visit of more than one.      *)
(* Once released, the firmware's late visit only lowers the envelope.      *)
FoldIsReplay ==
  ~fault =>
    /\ config.periodic # {} =>
         IF folded.stage # "release" THEN SameClock(folded, ticked)
         ELSE folded.from = ticked.from /\ folded.level <= folded.from
    /\ enabled /\ dirty = {} /\ folded.stage # "release" =>
         \A g \in {"gain", "pitch"} : folded.published[g] = ticked.published[g]
=============================================================================
