---------------------------- MODULE ReferenceVoice ----------------------------
(***************************************************************************)
(* ReferenceSynth (reference_synth.cpp), the golden model the RTL renders  *)
(* are compared with: one of its voices, which share nothing.  A command   *)
(* starts the voice under a generation or is matched against it; every     *)
(* rendered sample advances the volume envelope, ends the voice or reads   *)
(* two neighbouring frames and moves the phase on.                         *)
(*                                                                         *)
(* A phase has Frac steps per frame in place of 2^8 and is never masked in *)
(* these bounds; attack levels run to AttackFull and attenuations to       *)
(* Silence.  Sample words, the filter and the gains are left out: they are *)
(* a function of the frames read.  So are stereo voices, which no START    *)
(* makes, and the envelope command 0x13, which nobody sends.               *)
(***************************************************************************)
EXTENDS Integers, FiniteSetsExt

CONSTANTS
  Frac,        \* 2^kPhaseFracBits
  Regions,     \* what STARTs carry: [mode, length, start, end, inc]
  Increments,  \* phase increments of pitch commands
  Envelopes,   \* what STARTs carry: [delay, attack, hold, decay, sustain, release]
  AttackFull,  \* 0xffffffff
  Silence,     \* kEnvCbSilenceQ12_20
  MaxStarts    \* bound: STARTs of the voice

ASSUME ReferenceAssumption ==
  /\ Frac \in Nat \ {0} /\ AttackFull \in Nat \ {0} /\ Silence \in Nat \ {0}
  /\ Increments \subseteq Nat \ {0}

(* A step never passes a whole loop: docs/design/renderer/pipeline.md asks *)
(* for phase_inc < (loop_end - loop_start) << 8.                           *)
ASSUME RegionAssumption ==
  /\ Regions \subseteq [mode : 0 .. 2, length : Nat, start : Nat, end : Nat, inc : Nat]
  /\ \A r \in Regions : r.mode # 0 /\ r.start < r.end =>
       \A inc \in Increments \cup {r.inc} : inc < (r.end - r.start) * Frac

VARIABLES
  refVoice,   \* VoiceConfig
  env,        \* EnvelopeState
  reports,    \* completions_, ever: generation, reason and place in the order
  replaced,   \* generations a START overwrote while they sounded
  readFrames  \* frames the last sample was interpolated from

referenceVars == <<refVoice, env, reports, replaced, readFrames>>

OffVoice == [enable |-> FALSE, released |-> FALSE, gen |-> 0, mode |-> 0, length |-> 1,
             start |-> 0, end |-> 1, phase |-> 0, inc |-> 1]
OffEnvelope == [stage |-> "delay", delay |-> 0, attack |-> 0, hold |-> 0, decay |-> 0,
                sustain |-> 0, release |-> 0, elapsed |-> 0, level |-> 0, cb |-> 0]

ReferenceInit ==
  /\ refVoice = OffVoice /\ env = OffEnvelope
  /\ reports = {} /\ replaced = {} /\ readFrames = {}

----------------------------------------------------------------------------
(* Envelope *)

(* The stages after a hold and after an attack. *)
Held(e) ==
  IF e.sustain # 0 /\ e.decay # 0 THEN [e EXCEPT !.stage = "decay"]
  ELSE [e EXCEPT !.stage = "sustain", !.cb = e.sustain]

Attacked(e) ==
  LET full == [e EXCEPT !.level = AttackFull, !.elapsed = 0]
  IN IF e.hold # 0 THEN [full EXCEPT !.stage = "hold"] ELSE Held(full)

StartedEnvelope(c) ==
  LET e == [stage |-> IF c.delay # 0 THEN "delay" ELSE "attack", delay |-> c.delay,
            attack |-> c.attack, hold |-> c.hold, decay |-> c.decay, sustain |-> c.sustain,
            release |-> c.release, elapsed |-> 0, level |-> 0, cb |-> 0]
  IN IF c.delay = 0 /\ c.attack = 0 THEN Attacked(e) ELSE e

(* q15_to_cb: no attenuation at the top, silence at the bottom. *)
CbOfLevel(level) ==
  IF level >= AttackFull THEN 0
  ELSE IF level <= 0 THEN Silence ELSE (Silence * (AttackFull - level)) \div AttackFull

Waited(e, limit, After(_)) ==
  IF e.elapsed + 1 < limit THEN [e EXCEPT !.elapsed = @ + 1]
  ELSE After([e EXCEPT !.elapsed = 0])

Decayed(e) ==
  LET distance == IF e.cb < e.sustain THEN e.sustain - e.cb ELSE e.cb - e.sustain
  IN IF distance <= e.decay \/ distance = 0 THEN [e EXCEPT !.cb = e.sustain, !.stage = "sustain"]
     ELSE [e EXCEPT !.cb = IF e.cb < e.sustain THEN @ + e.decay ELSE @ - e.decay]

(* advance_envelope *)
Advanced(e) ==
  CASE e.stage = "delay" ->
         Waited(e, e.delay, LAMBDA x : IF x.attack = 0 THEN Attacked(x)
                                       ELSE [x EXCEPT !.stage = "attack"])
    [] e.stage = "attack" ->
         IF e.level + e.attack >= AttackFull THEN Attacked(e)
         ELSE [e EXCEPT !.level = @ + e.attack]
    [] e.stage = "hold" -> Waited(e, e.hold, Held)
    [] e.stage = "decay" -> Decayed(e)
    [] e.stage = "sustain" -> [e EXCEPT !.cb = e.sustain]
    [] e.stage = "release" -> [e EXCEPT !.cb = Min({Silence, @ + e.release})]

Faded(e) == e.stage = "release" /\ e.cb >= Silence

----------------------------------------------------------------------------
(* Commands *)

ValidRegion(r) ==
  r.length # 0 /\ (r.mode = 0 \/ (r.start < r.end /\ r.end <= r.length))

Report(reason) ==
  reports' = reports \cup
    {[gen |-> refVoice.gen, reason |-> reason, place |-> Cardinality(reports)]}

(* 0x10; one whose region is not valid changes nothing. *)
StartVoice(r, c) ==
  /\ refVoice.gen < MaxStarts
  /\ ValidRegion(r)
  /\ refVoice' = [enable |-> TRUE, released |-> FALSE, gen |-> refVoice.gen + 1, mode |-> r.mode,
                  length |-> r.length, start |-> r.start, end |-> r.end, phase |-> 0,
                  inc |-> r.inc]
  /\ env' = StartedEnvelope(c)
  /\ replaced' = IF refVoice.enable THEN replaced \cup {refVoice.gen} ELSE replaced
  /\ readFrames' = {}
  /\ UNCHANGED reports

(* 0x14 of the voice's generation; a zero step ends it on the spot. *)
ReleaseCommand(step) ==
  LET cb == IF step = 0 THEN Silence
            ELSE CASE env.stage = "attack" -> CbOfLevel(env.level)
                   [] env.stage = "hold" -> 0
                   [] env.stage = "delay" -> Silence
                   [] OTHER -> env.cb
  IN /\ refVoice.enable
     /\ env' = [env EXCEPT !.release = step, !.cb = cb, !.elapsed = 0, !.stage = "release"]
     /\ refVoice' = [refVoice EXCEPT !.released = TRUE, !.enable = step # 0]
     /\ IF step = 0 THEN Report("release") ELSE UNCHANGED reports
     /\ readFrames' = {}
     /\ UNCHANGED replaced

(* 0x15 *)
StopCommand ==
  /\ refVoice.enable
  /\ refVoice' = [refVoice EXCEPT !.enable = FALSE]
  /\ Report("stop")
  /\ readFrames' = {}
  /\ UNCHANGED <<env, replaced>>

(* 0x18 *)
PitchCommand(inc) ==
  /\ refVoice.enable /\ refVoice.inc # inc
  /\ refVoice' = [refVoice EXCEPT !.inc = inc]
  /\ readFrames' = {}
  /\ UNCHANGED <<env, reports, replaced>>

----------------------------------------------------------------------------
(* One sample: render_mix *)

LoopActive(v) == v.mode = 1 \/ (v.mode = 2 /\ ~v.released)

PlayedOut(v) == ~LoopActive(v) /\ v.phase \div Frac >= v.length

(* Mutant of NextPhase: the loop is only left behind by a whole frame. *)
NextPhaseLate(v) ==
  LET sum == v.phase + v.inc
  IN IF LoopActive(v) /\ sum > v.end * Frac THEN sum - (v.end - v.start) * Frac ELSE sum

NextPhase(v) ==
  LET sum == v.phase + v.inc
  IN IF LoopActive(v) /\ sum >= v.end * Frac THEN sum - (v.end - v.start) * Frac ELSE sum

FramesOf(v) ==
  LET f == v.phase \div Frac
  IN {f, IF LoopActive(v) THEN (IF f + 1 >= v.end THEN v.start ELSE f + 1)
         ELSE IF f + 1 >= v.length THEN f ELSE f + 1}

(* Mutant of RenderMix: an envelope that faded out ends the voice quietly. *)
RenderMixQuietFade ==
  LET e == Advanced(env)
      ends == Faded(e) \/ PlayedOut(refVoice)
  IN /\ refVoice.enable
     /\ env' = e
     /\ refVoice' = IF ends THEN [refVoice EXCEPT !.enable = FALSE]
                    ELSE [refVoice EXCEPT !.phase = NextPhase(refVoice)]
     /\ IF PlayedOut(refVoice) THEN Report("natural") ELSE UNCHANGED reports
     /\ readFrames' = IF ends \/ e.stage = "delay" THEN {} ELSE FramesOf(refVoice)
     /\ UNCHANGED replaced

RenderMix ==
  LET e == Advanced(env)
      ends == Faded(e) \/ PlayedOut(refVoice)
  IN /\ refVoice.enable
     /\ env' = e
     /\ refVoice' = IF ends THEN [refVoice EXCEPT !.enable = FALSE]
                    ELSE [refVoice EXCEPT !.phase = NextPhase(refVoice)]
     /\ IF ends THEN Report("natural") ELSE UNCHANGED reports
     /\ readFrames' = IF ends \/ e.stage = "delay" THEN {} ELSE FramesOf(refVoice)
     /\ UNCHANGED replaced

ReferenceNext ==
  \/ \E r \in Regions, c \in Envelopes : StartVoice(r, c)
  \/ \E step \in 0 .. 1 : ReleaseCommand(step)
  \/ StopCommand
  \/ \E inc \in Increments : PitchCommand(inc)
  \/ RenderMix

ReferenceSpec == ReferenceInit /\ [][ReferenceNext]_referenceVars

----------------------------------------------------------------------------
(* Every generation a START made ends in exactly one report, whether it    *)
(* played out, faded, was stopped or was cut off by a zero release step,   *)
(* unless a later START took its voice over: the policy frees a voice on   *)
(* its completion and would wait for ever, or free a newer note.           *)
EndsOnce ==
  \A g \in 1 .. refVoice.gen :
    LET of == {x \in reports : x.gen = g}
        sounding == refVoice.enable /\ g = refVoice.gen
    IN IF sounding \/ g \in replaced THEN of = {} ELSE Cardinality(of) = 1

(* While increments stay below the loop's length, as                       *)
(* docs/design/renderer/pipeline.md asks of them, a voice never reads past *)
(* its sample and a looping voice never past its loop, at whatever moment  *)
(* the release turned its loop off or a pitch command changed its step.    *)
ReadsInside ==
  \A f \in readFrames : f < refVoice.length /\ (LoopActive(refVoice) => f < refVoice.end)
=============================================================================
