---------------------------- MODULE Host_proofs ----------------------------
(***************************************************************************)
(* Proofs about the host's decoder, policies, renderer and runtime:        *)
(* - ReferenceVoice: every voice ends in exactly one report and reads only *)
(*   inside its sample and its loop;                                       *)
(* - MidiStream: the events decoded are the messages sent whole;           *)
(* - ChannelPolicy: firmware and harness agree on every data entry;        *)
(* - CompiledRuntime: the exclusive bitmaps follow the voices;             *)
(* - ModulationClock: folding elapsed ticks is replaying them;             *)
(* - HostPlayer: once all is delivered the FPGA plays what main wants, and *)
(*   a clean exit leaves every voice stopped.                              *)
(***************************************************************************)
EXTENDS ReferenceVoice, MidiStream, ChannelPolicy, CompiledRuntime, ModulationClock, HostPlayer,
        FiniteSetTheorems, CommonLemmas

-----------------------------------------------------------------------------
(* ReferenceVoice: the reports. *)

(* The voice's fields. *)
VoiceTypeOK ==
  refVoice \in [enable : BOOLEAN, released : BOOLEAN, gen : Nat, mode : 0 .. 2, length : Nat,
                start : Nat, end : Nat, phase : Int, inc : Nat]

(* The constants as numbers. *)
LEMMA ReferenceNumbers ==
  /\ Frac \in Nat /\ Frac > 0 /\ Increments \subseteq Nat
  /\ Regions \subseteq [mode : 0 .. 2, length : Nat, start : Nat, end : Nat, inc : Nat]
BY ReferenceAssumption, RegionAssumption

(* Every step keeps the types. *)
LEMMA VoiceTypeStep == VoiceTypeOK /\ [ReferenceNext]_referenceVars => VoiceTypeOK'
<1> SUFFICES ASSUME VoiceTypeOK, [ReferenceNext]_referenceVars PROVE VoiceTypeOK'
  OBVIOUS
<1> USE DEF VoiceTypeOK
<1>1. ASSUME NEW r \in Regions, NEW c \in Envelopes, StartVoice(r, c) PROVE VoiceTypeOK'
  BY <1>1, ReferenceNumbers DEF StartVoice
<1>2. ASSUME NEW step \in 0 .. 1, ReleaseCommand(step) PROVE VoiceTypeOK'
  <2>1. (step # 0) \in BOOLEAN
    OBVIOUS
  <2>2. refVoice' = [refVoice EXCEPT !.released = TRUE, !.enable = step # 0]
    BY <1>2 DEF ReleaseCommand
  <2> QED
    BY <2>1, <2>2
<1>3. CASE StopCommand
  BY <1>3 DEF StopCommand
<1>4. ASSUME NEW inc \in Increments, PitchCommand(inc) PROVE VoiceTypeOK'
  BY <1>4, ReferenceNumbers DEF PitchCommand
<1>5. CASE RenderMix
  <2>1. \/ refVoice' = [refVoice EXCEPT !.enable = FALSE]
        \/ refVoice' = [refVoice EXCEPT !.phase = NextPhase(refVoice)]
    BY <1>5 DEF RenderMix
  <2>2. refVoice.end \in Int /\ refVoice.start \in Int /\ refVoice.phase \in Int
        /\ refVoice.inc \in Int /\ Frac \in Int
    BY ReferenceNumbers
  <2>3. (refVoice.end - refVoice.start) * Frac \in Int
    BY <2>2
  <2>4. NextPhase(refVoice) \in Int
    BY <2>2, <2>3 DEF NextPhase
  <2> QED
    BY <2>1, <2>4
<1>6. CASE UNCHANGED referenceVars
  BY <1>6 DEF referenceVars
<1> QED
  BY <1>1, <1>2, <1>3, <1>4, <1>5, <1>6 DEF ReferenceNext

(* The reports a generation ended in. *)
ReportsOf(g) == {x \in reports : x.gen = g}

(* The inductive invariant: besides EndsOnce, reports and replacements are *)
(* of generations already started, and a voice that sounds is one of them  *)
(* and not yet replaced.                                                   *)
ReportInv ==
  /\ refVoice.gen \in Nat /\ refVoice.enable \in BOOLEAN
  /\ \A x \in reports : x.gen \in 1 .. refVoice.gen
  /\ replaced \subseteq 1 .. (refVoice.gen - 1)
  /\ refVoice.enable => refVoice.gen > 0
  /\ EndsOnce

(* EndsOnce for one generation. *)
EndsOnceOf(g) ==
  IF (refVoice.enable /\ g = refVoice.gen) \/ g \in replaced
  THEN ReportsOf(g) = {} ELSE Cardinality(ReportsOf(g)) = 1

(* EndsOnce, by generation. *)
LEMMA EndsOnceSplit == EndsOnce <=> \A g \in 1 .. refVoice.gen : EndsOnceOf(g)
BY DEF EndsOnce, EndsOnceOf, ReportsOf

(* The same of the next state. *)
LEMMA EndsOnceSplitNext == EndsOnce' <=> \A g \in 1 .. refVoice'.gen : EndsOnceOf(g)'
BY DEF EndsOnce, EndsOnceOf, ReportsOf

(* A voice that ends with a report, whatever the reason, ends once. *)
LEMMA ReportEnds ==
  ASSUME ReportInv, refVoice.enable, NEW reason, Report(reason),
         refVoice'.gen = refVoice.gen, refVoice'.enable = FALSE, replaced' = replaced
  PROVE  ReportInv'
<1> DEFINE n == refVoice.gen
           new == [gen |-> n, reason |-> reason, place |-> Cardinality(reports)]
<1>1. /\ n \in Nat /\ n > 0 /\ reports' = reports \cup {new} /\ new.gen = n
      /\ \A x \in reports : x.gen \in 1 .. n
      /\ replaced \subseteq 1 .. (n - 1)
      /\ \A g \in 1 .. n : EndsOnceOf(g)
  BY EndsOnceSplit DEF ReportInv, Report
<1>2. n \notin replaced /\ ReportsOf(n) = {}
  BY <1>1 DEF EndsOnceOf
<1>3. \A g \in 1 .. n : g # n => ReportsOf(g)' = ReportsOf(g)
  BY <1>1 DEF ReportsOf
<1>4. ReportsOf(n)' = {new}
  BY <1>1, <1>2 DEF ReportsOf
<1>5. Cardinality(ReportsOf(n)') = 1
  BY <1>4, FS_Singleton
<1>6. ASSUME NEW g \in 1 .. n PROVE EndsOnceOf(g)'
  <2>1. CASE g = n
    BY <1>2, <1>5, <2>1 DEF EndsOnceOf, ReportsOf
  <2>2. CASE g # n
    <3>1. EndsOnceOf(g) /\ ReportsOf(g)' = ReportsOf(g)
      BY <1>1, <1>3, <2>2
    <3> QED
      BY <2>2, <3>1 DEF EndsOnceOf, ReportsOf
  <2> QED
    BY <2>1, <2>2
<1>7. EndsOnce'
  BY <1>6, EndsOnceSplitNext
<1>8. \A x \in reports' : x.gen \in 1 .. n
  BY <1>1
<1> QED
  BY <1>1, <1>7, <1>8 DEF ReportInv

(* A step that neither starts, ends nor reports keeps the account. *)
LEMMA ReportKeeps ==
  ASSUME ReportInv, refVoice'.gen = refVoice.gen, refVoice'.enable = refVoice.enable,
         UNCHANGED <<reports, replaced>>
  PROVE  ReportInv'
BY DEF ReportInv, EndsOnce

(* A START over a sounding voice replaces it, and the new one is unreported. *)
LEMMA ReportStarts ==
  ASSUME ReportInv, NEW r \in Regions, NEW c \in Envelopes, StartVoice(r, c)
  PROVE  ReportInv'
<1> DEFINE n == refVoice.gen
<1>1. /\ n \in Nat /\ refVoice'.gen = n + 1 /\ refVoice'.enable = TRUE /\ reports' = reports
      /\ replaced' = IF refVoice.enable THEN replaced \cup {n} ELSE replaced
      /\ \A x \in reports : x.gen \in 1 .. n
      /\ replaced \subseteq 1 .. (n - 1)
      /\ refVoice.enable => n > 0
      /\ \A g \in 1 .. n : EndsOnceOf(g)
  BY EndsOnceSplit DEF ReportInv, StartVoice
<1>2. \A g \in 1 .. (n + 1) : ReportsOf(g)' = ReportsOf(g)
  BY <1>1 DEF ReportsOf
<1>3. ReportsOf(n + 1) = {}
  BY <1>1 DEF ReportsOf
<1>4. replaced' \subseteq 1 .. (refVoice'.gen - 1)
  <2>1. (refVoice'.gen - 1) = n /\ \A g \in 1 .. (n - 1) : g \in 1 .. n
    BY <1>1
  <2>2. refVoice.enable => n \in 1 .. n
    BY <1>1
  <2> QED
    BY <1>1, <2>1, <2>2
<1>5. ASSUME NEW g \in 1 .. (n + 1) PROVE EndsOnceOf(g)'
  <2>1. CASE g = n + 1
    BY <1>1, <1>2, <1>3, <2>1 DEF EndsOnceOf, ReportsOf
  <2>2. CASE g # n + 1
    <3>1. g \in 1 .. n /\ EndsOnceOf(g) /\ ReportsOf(g)' = ReportsOf(g)
      BY <1>1, <1>2, <2>2
    <3>2. (g \in replaced') <=> (g \in replaced \/ (refVoice.enable /\ g = n))
      BY <1>1
    <3> QED
      BY <1>1, <2>2, <3>1, <3>2 DEF EndsOnceOf, ReportsOf
  <2> QED
    BY <2>1, <2>2
<1>6. EndsOnce'
  BY <1>1, <1>5, EndsOnceSplitNext
<1>7. /\ \A x \in reports' : x.gen \in 1 .. refVoice'.gen
      /\ refVoice'.gen \in Nat /\ refVoice'.gen > 0
  BY <1>1
<1>8. refVoice'.enable \in BOOLEAN
  BY <1>1
<1> QED
  BY <1>4, <1>6, <1>7, <1>8, Zenon DEF ReportInv

(* Every step keeps the account. *)
LEMMA ReportInvStep == VoiceTypeOK /\ ReportInv /\ [ReferenceNext]_referenceVars => ReportInv'
<1> SUFFICES ASSUME VoiceTypeOK, ReportInv, [ReferenceNext]_referenceVars PROVE ReportInv'
  OBVIOUS
<1> USE DEF VoiceTypeOK
<1>1. ASSUME NEW r \in Regions, NEW c \in Envelopes, StartVoice(r, c) PROVE ReportInv'
  BY <1>1, ReportStarts
<1>2. ASSUME NEW step \in 0 .. 1, ReleaseCommand(step) PROVE ReportInv'
  <2>1. /\ refVoice.enable
        /\ refVoice' = [refVoice EXCEPT !.released = TRUE, !.enable = step # 0]
        /\ replaced' = replaced
        /\ IF step = 0 THEN Report("release") ELSE UNCHANGED reports
    BY <1>2 DEF ReleaseCommand
  <2>2. refVoice'.gen = refVoice.gen /\ refVoice'.enable = (step # 0)
    BY <2>1
  <2>3. CASE step = 0
    BY <2>1, <2>2, <2>3, ReportEnds
  <2>4. CASE step # 0
    BY <2>1, <2>2, <2>4, ReportKeeps DEF ReportInv
  <2> QED
    BY <2>3, <2>4
<1>3. CASE StopCommand
  <2>1. /\ refVoice.enable /\ refVoice' = [refVoice EXCEPT !.enable = FALSE]
        /\ Report("stop") /\ replaced' = replaced
    BY <1>3 DEF StopCommand
  <2> QED
    BY <2>1, ReportEnds
<1>4. ASSUME NEW inc \in Increments, PitchCommand(inc) PROVE ReportInv'
  <2>1. refVoice' = [refVoice EXCEPT !.inc = inc] /\ UNCHANGED <<reports, replaced>>
    BY <1>4 DEF PitchCommand
  <2> QED
    BY <2>1, ReportKeeps
<1>5. CASE RenderMix
  <2> DEFINE ends == Faded(Advanced(env)) \/ PlayedOut(refVoice)
  <2>1. /\ refVoice.enable
        /\ refVoice' = IF ends THEN [refVoice EXCEPT !.enable = FALSE]
                       ELSE [refVoice EXCEPT !.phase = NextPhase(refVoice)]
        /\ IF ends THEN Report("natural") ELSE UNCHANGED reports
        /\ replaced' = replaced
    BY <1>5 DEF RenderMix
  <2> HIDE DEF ends
  <2>2. CASE ends
    BY <2>1, <2>2, ReportEnds
  <2>3. CASE ~ends
    BY <2>1, <2>3, ReportKeeps
  <2> QED
    BY <2>2, <2>3
<1>6. CASE UNCHANGED referenceVars
  BY <1>6, ReportKeeps DEF referenceVars
<1> QED
  BY <1>1, <1>2, <1>3, <1>4, <1>5, <1>6 DEF ReferenceNext

(* For every set of regions, envelopes and increments and however long it  *)
(* runs, a generation ends in exactly one completion report unless a START *)
(* took its voice over, which ends it without one (reference_synth.cpp).   *)
THEOREM VoiceEndsOnce == ReferenceSpec => []EndsOnce
<1>1. ReferenceInit => ReportInv
  BY EndsOnceSplit DEF ReferenceInit, ReportInv, OffVoice, EndsOnceOf
<1>2. ReferenceInit => VoiceTypeOK
  BY DEF ReferenceInit, VoiceTypeOK, OffVoice
<1>3. ReportInv => EndsOnce
  BY DEF ReportInv
<1> QED
  BY <1>1, <1>2, <1>3, VoiceTypeStep, ReportInvStep, PTL DEF ReferenceSpec

-----------------------------------------------------------------------------
(* ReferenceVoice: the frames read. *)

(* The inductive invariant: a loop the voice still follows is one, its     *)
(* step is shorter than it, and the phase has not left it.                 *)
LoopInv ==
  /\ refVoice.mode # 0 =>
       /\ refVoice.start < refVoice.end /\ refVoice.end <= refVoice.length
       /\ refVoice.inc < (refVoice.end - refVoice.start) * Frac
       /\ \A inc \in Increments : inc < (refVoice.end - refVoice.start) * Frac
  /\ LoopActive(refVoice) => refVoice.phase < refVoice.end * Frac
  /\ refVoice.phase >= 0
  /\ ReadsInside

(* A phase short of e frames is in a frame before e. *)
LEMMA FrameBelow ==
  ASSUME NEW F \in Nat, F > 0, NEW x \in Nat, NEW e \in Nat, x < e * F
  PROVE  x \div F \in Nat /\ x \div F < e
<1> DEFINE q == x \div F
           m == x % F
<1>1. x = F * q + m /\ q \in Int /\ m \in 0 .. (F - 1)
  BY DivMod
<1> HIDE DEF q, m
<1>2. CASE q >= e
  <2>1. F * q >= F * e /\ e * F = F * e /\ F * q \in Int /\ F * e \in Int
    BY <1>1, <1>2, Z3
  <2> QED
    BY <1>1, <2>1
<1>3. CASE q < 0
  <2>1. F * q <= -F /\ F * q \in Int
    BY <1>1, <1>3, Z3
  <2> QED
    BY <1>1, <2>1
<1>4. CASE q \in Nat /\ q < e
  BY <1>4 DEF q
<1> QED
  BY <1>1, <1>2, <1>3, <1>4

(* One step moves the phase on inside the loop. *)
LEMMA PhaseStays ==
  ASSUME VoiceTypeOK, LoopInv
  PROVE  /\ NextPhase(refVoice) >= 0
         /\ LoopActive(refVoice) => NextPhase(refVoice) < refVoice.end * Frac
<1> DEFINE p == refVoice.phase
           i == refVoice.inc
           E == refVoice.end * Frac
           L == (refVoice.end - refVoice.start) * Frac
<1>1. p \in Nat /\ i \in Nat /\ refVoice.end \in Nat /\ refVoice.start \in Nat /\ Frac \in Nat
  BY ReferenceNumbers DEF VoiceTypeOK, LoopInv
<1>2. L = E - refVoice.start * Frac /\ refVoice.start * Frac >= 0
      /\ refVoice.start * Frac \in Int /\ E \in Int /\ L \in Int
  BY <1>1, Z3
<1>3. LoopActive(refVoice) => p < E /\ i < L
  BY DEF LoopInv, LoopActive
<1>4. NextPhase(refVoice) = IF LoopActive(refVoice) /\ p + i >= E THEN (p + i) - L ELSE p + i
  BY DEF NextPhase
<1> HIDE DEF p, i, E, L
<1> QED
  BY <1>1, <1>2, <1>3, <1>4 DEF E

(* A sample that does not end the voice is read inside the sample and its  *)
(* loop.                                                                   *)
LEMMA FramesInside ==
  ASSUME VoiceTypeOK, LoopInv, ~PlayedOut(refVoice), NEW f \in FramesOf(refVoice)
  PROVE  f < refVoice.length /\ (LoopActive(refVoice) => f < refVoice.end)
<1> DEFINE q == refVoice.phase \div Frac
           loop == LoopActive(refVoice)
<1>1. /\ refVoice.phase \in Nat /\ refVoice.end \in Nat /\ refVoice.start \in Nat
      /\ refVoice.length \in Nat /\ Frac \in Nat /\ Frac > 0
  BY ReferenceNumbers DEF VoiceTypeOK, LoopInv
<1>2. q \in Int
  BY <1>1, DivMod
<1>3. loop => /\ refVoice.start < refVoice.end /\ refVoice.end <= refVoice.length
              /\ refVoice.phase < refVoice.end * Frac
  BY DEF LoopInv, LoopActive
<1>4. loop => q < refVoice.end
  BY <1>1, <1>3, FrameBelow
<1>5. ~loop => q < refVoice.length
  BY <1>1, <1>2 DEF PlayedOut
<1>6. f \in {q, IF loop THEN (IF q + 1 >= refVoice.end THEN refVoice.start ELSE q + 1)
                ELSE IF q + 1 >= refVoice.length THEN q ELSE q + 1}
  BY DEF FramesOf
<1> HIDE DEF q, loop
<1>7. CASE loop
  BY <1>1, <1>2, <1>3, <1>4, <1>6, <1>7 DEF loop
<1>8. CASE ~loop
  BY <1>1, <1>2, <1>5, <1>6, <1>8 DEF loop
<1> QED
  BY <1>7, <1>8

(* Every step keeps the voice inside its loop. *)
LEMMA LoopInvStep == VoiceTypeOK /\ LoopInv /\ [ReferenceNext]_referenceVars => LoopInv'
<1> SUFFICES ASSUME VoiceTypeOK, LoopInv, [ReferenceNext]_referenceVars PROVE LoopInv'
  OBVIOUS
<1>1. ASSUME NEW r \in Regions, NEW c \in Envelopes, StartVoice(r, c) PROVE LoopInv'
  <2>1. /\ r.mode \in 0 .. 2 /\ r.length \in Nat /\ r.start \in Nat /\ r.end \in Nat /\ r.inc \in Nat
        /\ r.mode # 0 => r.start < r.end /\ r.end <= r.length
        /\ r.mode # 0 => \A inc \in Increments \cup {r.inc} : inc < (r.end - r.start) * Frac
    BY <1>1, ReferenceNumbers, RegionAssumption DEF StartVoice, ValidRegion
  <2>2. /\ refVoice' = [enable |-> TRUE, released |-> FALSE, gen |-> refVoice.gen + 1,
                        mode |-> r.mode, length |-> r.length, start |-> r.start, end |-> r.end,
                        phase |-> 0, inc |-> r.inc]
        /\ readFrames' = {}
    BY <1>1 DEF StartVoice
  <2>3. r.mode # 0 => 0 < r.end * Frac
    <3>1. Frac \in Nat /\ Frac > 0
      BY ReferenceNumbers
    <3>2. r.end > 0 => r.end * Frac > 0
      BY <2>1, <3>1, Z3
    <3> QED
      BY <2>1, <3>2
  <2>4. LoopActive(refVoice') => r.mode # 0
    BY <2>2 DEF LoopActive
  <2> QED
    BY <2>1, <2>2, <2>3, <2>4 DEF LoopInv, ReadsInside
<1>2. ASSUME NEW step \in 0 .. 1, ReleaseCommand(step) PROVE LoopInv'
  <2>1. refVoice' = [refVoice EXCEPT !.released = TRUE, !.enable = step # 0] /\ readFrames' = {}
    BY <1>2 DEF ReleaseCommand
  <2>2. LoopActive(refVoice') => LoopActive(refVoice)
    BY <2>1 DEF LoopActive, VoiceTypeOK
  <2> QED
    BY <2>1, <2>2 DEF LoopInv, ReadsInside, VoiceTypeOK
<1>3. CASE StopCommand
  <2>1. refVoice' = [refVoice EXCEPT !.enable = FALSE] /\ readFrames' = {}
    BY <1>3 DEF StopCommand
  <2>2. LoopActive(refVoice') => LoopActive(refVoice)
    BY <2>1 DEF LoopActive, VoiceTypeOK
  <2> QED
    BY <2>1, <2>2 DEF LoopInv, ReadsInside, VoiceTypeOK
<1>4. ASSUME NEW inc \in Increments, PitchCommand(inc) PROVE LoopInv'
  <2>1. refVoice' = [refVoice EXCEPT !.inc = inc] /\ readFrames' = {}
    BY <1>4 DEF PitchCommand
  <2>2. LoopActive(refVoice') => LoopActive(refVoice)
    BY <2>1 DEF LoopActive, VoiceTypeOK
  <2> QED
    BY <2>1, <2>2 DEF LoopInv, ReadsInside, VoiceTypeOK
<1>5. CASE RenderMix
  <2> DEFINE ends == Faded(Advanced(env)) \/ PlayedOut(refVoice)
  <2>1. /\ refVoice' = IF ends THEN [refVoice EXCEPT !.enable = FALSE]
                       ELSE [refVoice EXCEPT !.phase = NextPhase(refVoice)]
        /\ readFrames' = {} \/ (~ends /\ readFrames' = FramesOf(refVoice))
    BY <1>5 DEF RenderMix
  <2>2. ~ends => ~PlayedOut(refVoice)
    OBVIOUS
  <2> HIDE DEF ends
  <2>3. LoopActive(refVoice') <=> LoopActive(refVoice)
    BY <2>1 DEF LoopActive, VoiceTypeOK
  <2>4. ReadsInside'
    <3>1. refVoice'.length = refVoice.length /\ refVoice'.end = refVoice.end
      BY <2>1 DEF VoiceTypeOK
    <3>2. \A f \in readFrames' : f < refVoice.length /\ (LoopActive(refVoice) => f < refVoice.end)
      BY <2>1, <2>2, FramesInside
    <3> QED
      BY <2>3, <3>1, <3>2 DEF ReadsInside
  <2>5. CASE ends
    BY <2>1, <2>3, <2>4, <2>5 DEF LoopInv, VoiceTypeOK
  <2>6. CASE ~ends
    <3>1. refVoice' = [refVoice EXCEPT !.phase = NextPhase(refVoice)]
      BY <2>1, <2>6
    <3>2. /\ NextPhase(refVoice) >= 0
          /\ LoopActive(refVoice) => NextPhase(refVoice) < refVoice.end * Frac
      BY PhaseStays
    <3> QED
      BY <2>3, <2>4, <3>1, <3>2 DEF LoopInv, VoiceTypeOK
  <2> QED
    BY <2>5, <2>6
<1>6. CASE UNCHANGED referenceVars
  BY <1>6 DEF referenceVars, LoopInv, ReadsInside, LoopActive
<1> QED
  BY <1>1, <1>2, <1>3, <1>4, <1>5, <1>6 DEF ReferenceNext

(* For every sample, loop and increment below the loop's length, a voice   *)
(* never reads past its sample nor, while it loops, past its loop          *)
(* (reference_synth.cpp, interpolation and phase step of render_mix).      *)
THEOREM VoiceReadsInside == ReferenceSpec => []ReadsInside
<1>1. ReferenceInit => VoiceTypeOK
  BY DEF ReferenceInit, VoiceTypeOK, OffVoice
<1>2. ReferenceInit => LoopInv
  BY DEF ReferenceInit, LoopInv, ReadsInside, OffVoice, LoopActive
<1>3. LoopInv => ReadsInside
  BY DEF LoopInv
<1> QED
  BY <1>1, <1>2, <1>3, VoiceTypeStep, LoopInvStep, PTL DEF ReferenceSpec

-----------------------------------------------------------------------------
(* MidiStream: what the decoder holds follows where the sender is. *)

CommonKinds == {"common2", "common1", "common0"}
StatusKinds == ChannelKinds \cup {"sysex"} \cup CommonKinds
Byte == [kind : {"data"}, of : Nat]
StreamEvent == [of : Nat, with : Nat, program : Nat]
RunningKinds == ChannelKinds \cup {"none"}

DecoderType == [running : RunningKinds, status : RunningKinds, data : Seq(Byte),
                remaining : Nat, sysex : BOOLEAN, program : Nat]

StreamTypeOK ==
  /\ decoder \in DecoderType
  /\ cable \in [kind : StatusKinds \cup {"idle"}, left : Nat, running : RunningKinds,
                count : Nat, program : Nat]
  /\ sent \in Seq(StreamEvent) /\ decoded \in Seq(StreamEvent)

(* A decoder that waits for the data of a channel message of the kind. *)
Awaits(d, kind) ==
  d.sysex = FALSE /\ d.remaining = 0 /\ d.running = kind /\ d.status = kind

(* Between messages: after a channel message the decoder awaits the data   *)
(* of its kind, after any other or a torn one it may hold anything but an  *)
(* open SysEx, and the sender owes it a status byte.                       *)
BetweenMessages ==
  cable.kind = "idle" =>
    /\ decoder.sysex = FALSE
    /\ cable.running # "none" => Awaits(decoder, cable.running) /\ decoder.data = << >>

(* In a channel message the decoder has the bytes already sent. *)
InChannelMessage ==
  cable.kind \in ChannelKinds =>
    /\ Awaits(decoder, cable.kind) /\ cable.running = cable.kind
    /\ cable.left \in 1 .. DataBytes(cable.kind)
    /\ decoder.data = IF cable.left = DataBytes(cable.kind) THEN << >>
                      ELSE <<[kind |-> "data", of |-> cable.count]>>

(* In a system message it skips the bytes still to come. *)
InSystemMessage ==
  /\ cable.kind = "sysex" =>
       decoder.sysex = TRUE /\ cable.running = "none" /\ cable.left \in 1 .. 2
  /\ cable.kind \in CommonKinds =>
       /\ decoder.sysex = FALSE /\ cable.running = "none"
       /\ cable.left > 0 /\ decoder.remaining = cable.left

(* What holds while no torn SysEx is open. *)
HearsInv ==
  /\ StreamTypeOK /\ BetweenMessages /\ InChannelMessage /\ InSystemMessage
  /\ decoder.program = cable.program
  /\ DecodesWhatWasSent

(* While one is, the decoder hears nothing until the sender, who goes on   *)
(* as if nothing had happened, ends a SysEx.                               *)
DeafInv ==
  /\ StreamTypeOK
  /\ decoder.sysex = TRUE
  /\ cable.kind # "idle" => cable.left > 0
  /\ cable.kind \in ChannelKinds => cable.running = cable.kind
  /\ cable.kind \in CommonKinds \cup {"sysex"} => cable.running = "none"
  /\ decoder.program = cable.program
  /\ DecodesWhatWasSent

(* The inductive invariant. *)
StreamInv == torn \in BOOLEAN /\ (torn = FALSE => HearsInv) /\ (torn = TRUE => DeafInv)

(* The lengths of the messages. *)
LEMMA MessageBytes ==
  /\ DOMAIN Kinds2 = CommonKinds
  /\ BytesOf("note") = 2 /\ BytesOf("program") = 1 /\ BytesOf("sysex") = 2
  /\ BytesOf("common2") = 2 /\ BytesOf("common1") = 1 /\ BytesOf("common0") = 0
  /\ Kinds2["common2"] = 2 /\ Kinds2["common1"] = 1 /\ Kinds2["common0"] = 0
BY DEF Kinds2, CommonKinds, BytesOf, ChannelKinds, DataBytes

(* The concatenations the decoder makes. *)
LEMMA EventsAppended ==
  ASSUME NEW s \in Seq(StreamEvent), NEW e \in StreamEvent
  PROVE  s \o << >> = s /\ s \o <<e>> = Append(s, e) /\ Append(s, e) \in Seq(StreamEvent)
BY ST!ConcatEmptySeq, ST!AppendIsConcat

(* feed of a real-time byte. *)
LEMMA FedRealtime ==
  ASSUME NEW d, NEW b, b.kind = "realtime"
  PROVE  Fed(d, b) = [d |-> d, events |-> << >>]
BY DEF Fed

(* feed of a status byte outside SysEx. *)
LEMMA FedStatus ==
  ASSUME NEW d \in DecoderType, d.sysex = FALSE, NEW b, b.kind \in StatusKinds
  PROVE  Fed(d, b) = [d |-> StatusByte(d, b.kind), events |-> << >>]
<1>1. b.kind \notin {"data", "realtime"} /\ ~d.sysex
  BY DEF StatusKinds, ChannelKinds, CommonKinds
<1> QED
  BY <1>1 DEF Fed

(* feed of a data byte of a system common message. *)
LEMMA FedCommon ==
  ASSUME NEW d \in DecoderType, d.sysex = FALSE, d.remaining > 0, NEW b, b.kind = "data"
  PROVE  Fed(d, b) = [d |-> [d EXCEPT !.remaining = @ - 1], events |-> << >>]
<1>1. d.remaining # 0 /\ ~d.sysex
  BY DEF DecoderType
<1> QED
  BY <1>1 DEF Fed

(* feed of a data byte of a channel message. *)
LEMMA FedChannel ==
  ASSUME NEW d \in DecoderType, NEW kind \in ChannelKinds, Awaits(d, kind),
         NEW b \in Byte, NEW x, x = [d EXCEPT !.data = Append(@, b)]
  PROVE  Fed(d, b) = IF Len(x.data) # DataBytes(kind) THEN [d |-> x, events |-> << >>]
                     ELSE FinishMessage(x)
<1> DEFINE y == [d EXCEPT !.status = kind, !.data = Append(@, b)]
<1>1. d.sysex = FALSE /\ d.remaining = 0 /\ d.status = kind /\ kind # "none" /\ b.kind = "data"
  BY DEF Awaits, Byte, ChannelKinds
<1>2. Fed(d, b) = DataByte(d, b)
  BY <1>1 DEF Fed
<1>3. x = y
  BY <1>1 DEF DecoderType
<1>4. DataByte(d, b) = IF Len(y.data) # DataBytes(kind) THEN [d |-> y, events |-> << >>]
                       ELSE FinishMessage(y)
  BY <1>1 DEF DataByte
<1> QED
  BY <1>2, <1>3, <1>4

(* The first byte of a note is kept. *)
LEMMA FirstByteOfNote ==
  ASSUME NEW d \in DecoderType, Awaits(d, "note"), d.data = << >>, NEW b \in Byte
  PROVE  Fed(d, b) = [d |-> [d EXCEPT !.data = <<b>>], events |-> << >>]
<1> DEFINE x == [d EXCEPT !.data = <<b>>]
<1>1. Append(d.data, b) = <<b>> /\ Len(<<b>>) = 1
  OBVIOUS
<1>2. x = [d EXCEPT !.data = Append(@, b)]
  BY <1>1
<1>3. x.data = <<b>>
  BY DEF DecoderType
<1>4. "note" \in ChannelKinds /\ DataBytes("note") = 2
  BY DEF ChannelKinds, DataBytes
<1> HIDE DEF x
<1>5. Fed(d, b) = IF Len(x.data) # DataBytes("note") THEN [d |-> x, events |-> << >>]
                  ELSE FinishMessage(x)
  BY <1>2, <1>4, FedChannel
<1> QED
  BY <1>1, <1>3, <1>4, <1>5 DEF x

(* The second one finishes it. *)
LEMMA SecondByteOfNote ==
  ASSUME NEW d \in DecoderType, Awaits(d, "note"), NEW a \in Byte, d.data = <<a>>, NEW b \in Byte
  PROVE  Fed(d, b) = [d |-> [d EXCEPT !.data = << >>],
                      events |-> <<[of |-> a.of, with |-> b.of, program |-> d.program]>>]
<1> DEFINE x == [d EXCEPT !.data = Append(@, b)]
           e == <<[of |-> a.of, with |-> b.of, program |-> d.program]>>
<1>1. Append(d.data, b) = <<a, b>> /\ Len(<<a, b>>) = 2
  <2>1. Append(<<a>>, b) = <<a, b>>
    <3> DEFINE s == Append(<<a>>, b)
               t == <<a, b>>
    <3>1. <<a>> \in Seq(Byte) /\ Len(<<a>>) = 1 /\ <<a>>[1] = a
      OBVIOUS
    <3>2. s \in Seq(Byte) /\ Len(s) = 2 /\ s[1] = a /\ s[2] = b
      BY <3>1, ST!AppendProperties
    <3>3. t \in Seq(Byte) /\ Len(t) = 2 /\ t[1] = a /\ t[2] = b
      OBVIOUS
    <3> HIDE DEF s, t
    <3>4. \A i \in 1 .. Len(s) : s[i] = t[i]
      BY <3>2, <3>3
    <3>5. s = t
      BY <3>2, <3>3, <3>4, ST!SeqEqual
    <3> QED
      BY <3>5 DEF s, t
  <2> QED
    BY <2>1
<1>2. x.data = <<a, b>> /\ x.status = "note" /\ x.running = "note" /\ x.program = d.program
  BY <1>1 DEF DecoderType, Awaits
<1>3. [x EXCEPT !.data = << >>, !.status = "note"] = [d EXCEPT !.data = << >>]
  BY DEF DecoderType, Awaits
<1>4. "note" \in ChannelKinds /\ DataBytes("note") = 2
  BY DEF ChannelKinds, DataBytes
<1>5. Fed(d, b) = FinishMessage(x)
  BY <1>1, <1>2, <1>4, FedChannel
<1> HIDE DEF x
<1>6. FinishMessage(x) = [d |-> [x EXCEPT !.data = << >>, !.status = "note"], events |-> e]
  BY <1>2 DEF FinishMessage
<1> QED
  BY <1>3, <1>5, <1>6

(* The byte of a program change finishes it. *)
LEMMA ByteOfProgram ==
  ASSUME NEW d \in DecoderType, Awaits(d, "program"), d.data = << >>, NEW b \in Byte
  PROVE  Fed(d, b) = [d |-> [d EXCEPT !.program = b.of], events |-> << >>]
<1> DEFINE x == [d EXCEPT !.data = Append(@, b)]
           w == [x EXCEPT !.data = << >>, !.status = "program"]
<1>1. Append(d.data, b) = <<b>> /\ Len(<<b>>) = 1
  OBVIOUS
<1>2. x.data = <<b>> /\ x.status = "program" /\ x.running = "program" /\ x.data[1] = b
  BY <1>1 DEF DecoderType, Awaits
<1>3. [w EXCEPT !.program = b.of] = [d EXCEPT !.program = b.of]
  BY DEF DecoderType, Awaits
<1>4. "program" \in ChannelKinds /\ DataBytes("program") = 1
  BY DEF ChannelKinds, DataBytes
<1>5. Fed(d, b) = FinishMessage(x)
  BY <1>1, <1>2, <1>4, FedChannel
<1> HIDE DEF x
<1>6. FinishMessage(x) = [d |-> [w EXCEPT !.program = b.of], events |-> << >>]
  BY <1>2 DEF FinishMessage
<1> QED
  BY <1>3, <1>5, <1>6

(* A status byte: whatever was half received is dropped. *)
LEMMA StatusStep ==
  ASSUME HearsInv, NEW kind \in StatusKinds, SendStatus(kind)
  PROVE  HearsInv'
<1> DEFINE d == decoder
           n == cable.count + 1
           b == [kind |-> kind, of |-> cable'.count]
<1>0. b.kind = kind /\ << >> \in Seq(Byte)
  OBVIOUS
<1>1. /\ cable.kind = "idle" /\ UNCHANGED <<torn, sent, realtime>>
      /\ cable' = [cable EXCEPT !.kind = IF BytesOf(kind) = 0 THEN "idle" ELSE kind,
                                !.left = BytesOf(kind), !.count = n,
                                !.running = IF kind \in ChannelKinds THEN kind ELSE "none"]
      /\ decoder' = Fed(d, b).d /\ decoded' = decoded \o Fed(d, b).events
  BY DEF SendStatus, Feed
<1> HIDE DEF b
<1>2. d \in DecoderType /\ d.sysex = FALSE /\ d.program = cable.program
      /\ decoded \in Seq(StreamEvent) /\ sent \in Seq(StreamEvent) /\ decoded = sent
  BY <1>1 DEF HearsInv, StreamTypeOK, BetweenMessages, DecodesWhatWasSent
<1>3. Fed(d, b) = [d |-> StatusByte(d, kind), events |-> << >>]
  BY <1>0, <1>2, FedStatus
<1>4. decoder' = StatusByte(d, kind) /\ decoded' = decoded
  <2>1. decoded' = decoded \o << >>
    BY <1>1, <1>3
  <2> QED
    BY <1>1, <1>2, <1>3, <2>1, ST!ConcatEmptySeq
<1>5. DecodesWhatWasSent' /\ sent' \in Seq(StreamEvent) /\ decoded' \in Seq(StreamEvent)
  BY <1>1, <1>2, <1>4 DEF DecodesWhatWasSent
<1>6. cable \in [kind : StatusKinds \cup {"idle"}, left : Nat, running : RunningKinds,
                 count : Nat, program : Nat]
  BY DEF HearsInv, StreamTypeOK
<1>7. BytesOf(kind) \in Nat
  BY MessageBytes DEF StatusKinds, ChannelKinds, CommonKinds
<1>8. cable' \in [kind : StatusKinds \cup {"idle"}, left : Nat, running : RunningKinds,
                  count : Nat, program : Nat]
  <2>1. n \in Nat /\ (IF BytesOf(kind) = 0 THEN "idle" ELSE kind) \in StatusKinds \cup {"idle"}
        /\ (IF kind \in ChannelKinds THEN kind ELSE "none") \in RunningKinds
    BY <1>6 DEF RunningKinds
  <2> HIDE DEF n
  <2> QED
    BY <1>1, <1>6, <1>7, <2>1
<1>9. /\ cable'.kind = (IF BytesOf(kind) = 0 THEN "idle" ELSE kind)
      /\ cable'.left = BytesOf(kind) /\ cable'.program = cable.program
      /\ cable'.running = (IF kind \in ChannelKinds THEN kind ELSE "none")
  BY <1>1, <1>6
<1>10. CASE kind \in ChannelKinds
  <2>1. decoder' = [d EXCEPT !.data = << >>, !.remaining = 0, !.running = kind, !.status = kind]
    BY <1>4, <1>10 DEF StatusByte
  <2>2. decoder' \in DecoderType /\ Awaits(decoder', kind) /\ decoder'.data = << >>
        /\ decoder'.program = d.program
    BY <1>0, <1>2, <1>10, <2>1 DEF DecoderType, Awaits, RunningKinds
  <2>3. BytesOf(kind) = DataBytes(kind) /\ DataBytes(kind) \in 1 .. 2
        /\ kind \notin CommonKinds /\ kind # "sysex" /\ kind # "idle"
    BY <1>10 DEF BytesOf, ChannelKinds, DataBytes, CommonKinds
  <2>4. cable'.kind = kind /\ cable'.running = kind /\ cable'.left = DataBytes(kind)
    BY <1>9, <1>10, <2>3
  <2>5. cable'.left \in 1 .. DataBytes(kind)
    BY <2>3, <2>4
  <2> QED
    BY <1>2, <1>5, <1>8, <1>9, <1>10, <2>2, <2>3, <2>4, <2>5
       DEF HearsInv, StreamTypeOK, BetweenMessages, InChannelMessage, InSystemMessage
<1>11. CASE kind = "sysex"
  <2>1. decoder' = [d EXCEPT !.data = << >>, !.remaining = 0, !.running = "none",
                             !.status = "none", !.sysex = TRUE, !.remaining = 0]
    BY <1>4, <1>11, MessageBytes DEF StatusByte, ChannelKinds, CommonKinds
  <2>2. decoder' \in DecoderType /\ decoder'.sysex = TRUE /\ decoder'.program = d.program
    BY <1>0, <1>2, <2>1 DEF DecoderType, RunningKinds
  <2>3. cable'.kind = "sysex" /\ cable'.running = "none" /\ cable'.left = 2
    BY <1>9, <1>11, MessageBytes DEF ChannelKinds
  <2> QED
    BY <1>2, <1>5, <1>8, <1>9, <2>2, <2>3
       DEF HearsInv, StreamTypeOK, BetweenMessages, InChannelMessage, InSystemMessage,
           ChannelKinds, CommonKinds
<1>12. CASE kind \in CommonKinds
  <2>1. /\ kind \in DOMAIN Kinds2 /\ kind \notin ChannelKinds /\ kind # "sysex" /\ kind # "idle"
        /\ BytesOf(kind) = Kinds2[kind] /\ Kinds2[kind] \in Nat
    BY <1>12, MessageBytes DEF CommonKinds, ChannelKinds
  <2>2. decoder' = [d EXCEPT !.data = << >>, !.remaining = 0, !.running = "none",
                             !.status = "none", !.sysex = FALSE, !.remaining = Kinds2[kind]]
    BY <1>4, <2>1 DEF StatusByte
  <2>3. decoder' \in DecoderType /\ decoder'.sysex = FALSE /\ decoder'.program = d.program
        /\ decoder'.remaining = BytesOf(kind)
    BY <1>0, <1>2, <2>1, <2>2 DEF DecoderType, RunningKinds
  <2>4. cable'.running = "none" /\ cable'.kind \in {"idle", kind}
        /\ (cable'.kind # "idle" => cable'.left > 0)
    BY <1>7, <1>9, <2>1
  <2> QED
    BY <1>2, <1>5, <1>8, <1>9, <2>1, <2>3, <2>4
       DEF HearsInv, StreamTypeOK, BetweenMessages, InChannelMessage, InSystemMessage,
           ChannelKinds, CommonKinds
<1> QED
  BY <1>10, <1>11, <1>12 DEF StatusKinds

(* The byte that starts a channel message under running status, or goes on *)
(* with one, as the sender sees it.                                        *)
LEMMA ChannelByteStep ==
  ASSUME HearsInv, SendData, NEW kind \in ChannelKinds, NEW n \in Nat, NEW more \in Nat,
         Awaits(decoder, kind), cable.running = kind,
         decoder.data = IF more + 1 = DataBytes(kind) THEN << >> ELSE <<[kind |-> "data", of |-> n]>>,
         more + 1 \in 1 .. DataBytes(kind),
         cable' = [cable EXCEPT !.kind = IF more = 0 THEN "idle" ELSE kind, !.left = more,
                                !.count = n, !.program = IF kind = "program" THEN n ELSE @],
         sent' = IF kind = "note" /\ more = 0
                 THEN Append(sent, [of |-> n, with |-> n, program |-> cable.program]) ELSE sent,
         Feed([kind |-> "data", of |-> n])
  PROVE  HearsInv'
<1> DEFINE d == decoder
           b == [kind |-> "data", of |-> n]
           e == [of |-> n, with |-> n, program |-> d.program]
<1>1. /\ b \in Byte /\ b.of = n /\ << >> \in Seq(Byte) /\ <<b>> \in Seq(Byte)
      /\ decoder' = Fed(d, b).d /\ decoded' = decoded \o Fed(d, b).events
  BY DEF Feed, Byte
<1>2. /\ d \in DecoderType /\ d.program = cable.program /\ d.program \in Nat
      /\ decoded \in Seq(StreamEvent) /\ sent \in Seq(StreamEvent) /\ decoded = sent
  BY DEF HearsInv, StreamTypeOK, DecodesWhatWasSent, DecoderType
<1>3. cable \in [kind : StatusKinds \cup {"idle"}, left : Nat, running : RunningKinds,
                 count : Nat, program : Nat]
  BY DEF HearsInv, StreamTypeOK
<1>4. cable' \in [kind : StatusKinds \cup {"idle"}, left : Nat, running : RunningKinds,
                  count : Nat, program : Nat]
  <2>1. (IF more = 0 THEN "idle" ELSE kind) \in StatusKinds \cup {"idle"}
    BY DEF StatusKinds
  <2> QED
    BY <1>3, <2>1
<1>5. /\ cable'.kind = (IF more = 0 THEN "idle" ELSE kind) /\ cable'.left = more
      /\ cable'.count = n /\ cable'.running = kind
      /\ cable'.program = IF kind = "program" THEN n ELSE cable.program
  BY <1>3
<1>6. e \in StreamEvent
  BY <1>2 DEF StreamEvent
<1>7. kind \notin CommonKinds /\ kind # "sysex" /\ kind # "idle" /\ kind # "none"
  BY DEF ChannelKinds, CommonKinds
<1> HIDE DEF b
<1>8. CASE kind = "note" /\ more = 1
  <2>1. d.data = << >>
    BY <1>8 DEF DataBytes
  <2>2. Fed(d, b) = [d |-> [d EXCEPT !.data = <<b>>], events |-> << >>]
    BY <1>1, <1>2, <1>8, <2>1, FirstByteOfNote
  <2>3. decoder' = [d EXCEPT !.data = <<b>>] /\ decoded' = decoded \o << >>
    BY <1>1, <2>2
  <2>4. decoded' = decoded /\ sent' = sent
    BY <1>2, <1>8, <2>3, ST!ConcatEmptySeq
  <2>5. decoder' \in DecoderType /\ Awaits(decoder', "note") /\ decoder'.data = <<b>>
        /\ decoder'.program = d.program
    BY <1>1, <1>2, <1>8, <2>3 DEF DecoderType, Awaits
  <2>6. cable'.kind = "note" /\ cable'.left = 1 /\ cable'.running = "note" /\ cable'.program = cable.program
        /\ 1 \in 1 .. DataBytes("note") /\ DataBytes("note") # 1
    BY <1>5, <1>8 DEF DataBytes
  <2> QED
    BY <1>2, <1>4, <1>5, <1>7, <1>8, <2>4, <2>5, <2>6
       DEF HearsInv, StreamTypeOK, BetweenMessages, InChannelMessage, InSystemMessage,
           DecodesWhatWasSent, b
<1>9. CASE kind = "note" /\ more = 0
  <2>1. d.data = <<b>>
    BY <1>9 DEF DataBytes, b
  <2>2. Fed(d, b) = [d |-> [d EXCEPT !.data = << >>], events |-> <<e>>]
    BY <1>1, <1>2, <1>9, <2>1, SecondByteOfNote
  <2>3. decoder' = [d EXCEPT !.data = << >>] /\ decoded' = decoded \o <<e>>
    BY <1>1, <2>2
  <2>4. sent' = Append(sent, e)
    BY <1>2, <1>9
  <2> HIDE DEF e
  <2>5. decoded' = sent' /\ sent' \in Seq(StreamEvent)
    BY <1>2, <1>6, <2>3, <2>4, EventsAppended
  <2>6. decoder' \in DecoderType /\ Awaits(decoder', "note") /\ decoder'.data = << >>
        /\ decoder'.program = d.program
    BY <1>1, <1>2, <1>9, <2>3 DEF DecoderType, Awaits
  <2>7. cable'.kind = "idle" /\ cable'.running = "note" /\ cable'.program = cable.program
    BY <1>5, <1>9
  <2> QED
    BY <1>2, <1>4, <2>5, <2>6, <2>7
       DEF HearsInv, StreamTypeOK, BetweenMessages, InChannelMessage, InSystemMessage,
           DecodesWhatWasSent, ChannelKinds, CommonKinds, Awaits
<1>10. CASE kind = "program"
  <2>1. more = 0 /\ d.data = << >>
    BY <1>10 DEF DataBytes
  <2>2. Fed(d, b) = [d |-> [d EXCEPT !.program = n], events |-> << >>]
    BY <1>1, <1>2, <1>10, <2>1, ByteOfProgram
  <2>3. decoder' = [d EXCEPT !.program = n] /\ decoded' = decoded \o << >>
    BY <1>1, <2>2
  <2>4. decoded' = decoded /\ sent' = sent
    BY <1>2, <1>10, <2>3, ST!ConcatEmptySeq
  <2>5. decoder' \in DecoderType /\ Awaits(decoder', "program") /\ decoder'.data = << >>
        /\ decoder'.program = n
    BY <1>2, <1>10, <2>1, <2>3 DEF DecoderType, Awaits
  <2>6. cable'.kind = "idle" /\ cable'.running = "program" /\ cable'.program = n
    BY <1>5, <1>10, <2>1
  <2> QED
    BY <1>2, <1>4, <2>4, <2>5, <2>6
       DEF HearsInv, StreamTypeOK, BetweenMessages, InChannelMessage, InSystemMessage,
           DecodesWhatWasSent, ChannelKinds, CommonKinds, Awaits
<1>11. kind = "program" \/ (kind = "note" /\ more = 1) \/ (kind = "note" /\ more = 0)
  BY DEF ChannelKinds, DataBytes
<1> QED
  BY <1>8, <1>9, <1>10, <1>11

(* A byte of a system message changes no event. *)
LEMMA SystemByteStep ==
  ASSUME HearsInv, SendData, cable.kind \in CommonKinds \cup {"sysex"}
  PROVE  HearsInv'
<1> DEFINE d == decoder
           left == cable.left - 1
           b == [kind |-> IF cable.kind = "sysex" /\ left = 0 THEN "eox" ELSE "data",
                 of |-> cable.count]
<1>1. cable.kind # "idle" /\ cable.kind \notin ChannelKinds /\ cable.kind # "note"
      /\ cable.kind # "program"
  BY DEF CommonKinds, ChannelKinds
<1>2. /\ cable' = [cable EXCEPT !.kind = IF left = 0 THEN "idle" ELSE cable.kind, !.left = left,
                                !.count = cable.count, !.program = @]
      /\ sent' = sent
      /\ decoder' = Fed(d, b).d /\ decoded' = decoded \o Fed(d, b).events
  BY <1>1 DEF SendData, Feed
<1>3. /\ d \in DecoderType /\ d.program = cable.program
      /\ decoded \in Seq(StreamEvent) /\ sent \in Seq(StreamEvent) /\ decoded = sent
  BY DEF HearsInv, StreamTypeOK, DecodesWhatWasSent
<1>4. cable \in [kind : StatusKinds \cup {"idle"}, left : Nat, running : RunningKinds,
                 count : Nat, program : Nat]
  BY DEF HearsInv, StreamTypeOK
<1>5. cable.running = "none" /\ cable.left > 0 /\ left \in Nat
  BY <1>4 DEF HearsInv, InSystemMessage
<1>6. /\ cable' \in [kind : StatusKinds \cup {"idle"}, left : Nat, running : RunningKinds,
                     count : Nat, program : Nat]
      /\ cable'.kind = (IF left = 0 THEN "idle" ELSE cable.kind) /\ cable'.left = left
      /\ cable'.running = "none" /\ cable'.program = cable.program
  <2>1. (IF left = 0 THEN "idle" ELSE cable.kind) \in StatusKinds \cup {"idle"}
    BY <1>4
  <2> HIDE DEF left
  <2> QED
    BY <1>2, <1>4, <1>5, <2>1
<1>7. CASE cable.kind = "sysex"
  <2> DEFINE open == left # 0
  <2>0. open = (b.kind # "eox") /\ b.kind \in {"data", "eox"}
    BY <1>7
  <2>1. d.sysex = TRUE /\ left \in 0 .. 1
    BY <1>7 DEF HearsInv, InSystemMessage
  <2> HIDE DEF b, left, open
  <2>2. Fed(d, b) = [d |-> [d EXCEPT !.sysex = open], events |-> << >>]
    BY <1>3, <2>0, <2>1 DEF Fed
  <2>3. decoder' = [d EXCEPT !.sysex = (left # 0)] /\ decoded' = decoded \o << >>
    BY <1>2, <2>2 DEF open
  <2>4. decoded' = decoded
    BY <1>3, <2>3, ST!ConcatEmptySeq
  <2>5. decoder' \in DecoderType /\ decoder'.sysex = (left # 0) /\ decoder'.program = d.program
    BY <1>3, <2>3 DEF DecoderType
  <2>6. left # 0 => left \in 1 .. 2
    BY <2>1
  <2> QED
    BY <1>2, <1>3, <1>6, <1>7, <2>4, <2>5, <2>6
       DEF HearsInv, StreamTypeOK, BetweenMessages, InChannelMessage, InSystemMessage,
           DecodesWhatWasSent, ChannelKinds, CommonKinds
<1>8. CASE cable.kind \in CommonKinds
  <2>1. d.sysex = FALSE /\ d.remaining = cable.left /\ d.remaining > 0 /\ b.kind = "data"
    BY <1>8 DEF HearsInv, InSystemMessage, CommonKinds
  <2> HIDE DEF b
  <2>2. Fed(d, b) = [d |-> [d EXCEPT !.remaining = @ - 1], events |-> << >>]
    BY <1>3, <2>1, FedCommon
  <2>3. decoder' = [d EXCEPT !.remaining = left] /\ decoded' = decoded \o << >>
    BY <1>2, <2>1, <2>2
  <2>4. decoded' = decoded
    BY <1>3, <2>3, ST!ConcatEmptySeq
  <2> HIDE DEF left
  <2>5. decoder' \in DecoderType /\ decoder'.sysex = FALSE /\ decoder'.program = d.program
        /\ decoder'.remaining = left
    BY <1>3, <1>5, <2>1, <2>3 DEF DecoderType
  <2>6. left # 0 => left > 0
    BY <1>5
  <2> QED
    BY <1>1, <1>2, <1>3, <1>6, <1>8, <2>4, <2>5, <2>6
       DEF HearsInv, StreamTypeOK, BetweenMessages, InChannelMessage, InSystemMessage,
           DecodesWhatWasSent, ChannelKinds, CommonKinds
<1> QED
  BY <1>7, <1>8

(* While no torn SysEx is open, every step but the loss of a SysEx's tail  *)
(* leaves the decoder in line with the sender.                             *)
LEMMA HearingStep ==
  ASSUME HearsInv, torn = FALSE, [StreamNext]_streamVars
  PROVE  /\ ~(LoseTail /\ cable.kind = "sysex") => HearsInv' /\ torn' = FALSE
         /\ LoseTail /\ cable.kind = "sysex" => DeafInv' /\ torn' = TRUE
<1>0. /\ ~(LoseTail /\ cable.kind = "sysex") => torn' = FALSE
      /\ LoseTail /\ cable.kind = "sysex" => torn' = TRUE
  <2>1. LoseTail => (torn' = (torn \/ cable.kind = "sysex"))
    BY DEF LoseTail
  <2>2. SendData => torn' = FALSE
    BY DEF SendData
  <2>3. SendRealtime \/ UNCHANGED streamVars \/ (\E kind \in ChannelKinds \cup {"sysex"} \cup DOMAIN Kinds2 : SendStatus(kind))
          => torn' = torn
    BY DEF SendRealtime, streamVars, SendStatus
  <2> QED
    BY <2>1, <2>2, <2>3 DEF StreamNext
<1>1. ASSUME NEW kind \in ChannelKinds \cup {"sysex"} \cup DOMAIN Kinds2, SendStatus(kind)
      PROVE  HearsInv'
  <2>1. kind \in StatusKinds
    BY MessageBytes DEF StatusKinds
  <2> QED
    BY <1>1, <2>1, StatusStep
<1>2. ASSUME SendData PROVE HearsInv'
  <2>0. cable \in [kind : StatusKinds \cup {"idle"}, left : Nat, running : RunningKinds,
                   count : Nat, program : Nat]
    BY DEF HearsInv, StreamTypeOK
  <2>1. CASE cable.kind = "idle"
    <3> DEFINE kind == cable.running
               n == cable.count + 1
               more == DataBytes(kind) - 1
    <3>1. kind \in ChannelKinds /\ n \in Nat
      BY <1>2, <2>0, <2>1 DEF SendData, RunningKinds
    <3>2. more \in Nat /\ more + 1 = DataBytes(kind) /\ more + 1 \in 1 .. DataBytes(kind)
          /\ BytesOf(kind) = DataBytes(kind) /\ kind # "sysex"
      BY <3>1 DEF ChannelKinds, DataBytes, BytesOf
    <3>3. Awaits(decoder, kind) /\ decoder.data = << >>
      BY <2>1, <3>1 DEF HearsInv, BetweenMessages, ChannelKinds
    <3>4. /\ cable' = [cable EXCEPT !.kind = IF more = 0 THEN "idle" ELSE kind, !.left = more,
                                    !.count = n, !.program = IF kind = "program" THEN n ELSE @]
          /\ sent' = IF kind = "note" /\ more = 0
                     THEN Append(sent, [of |-> n, with |-> n, program |-> cable.program]) ELSE sent
          /\ Feed([kind |-> "data", of |-> n])
      BY <1>2, <2>1, <3>2 DEF SendData
    <3> HIDE DEF kind, n, more
    <3> QED
      BY <1>2, <3>1, <3>2, <3>3, <3>4, ChannelByteStep DEF kind
  <2>2. CASE cable.kind \in ChannelKinds
    <3> DEFINE kind == cable.kind
               n == cable.count
               more == cable.left - 1
    <3>1. /\ Awaits(decoder, kind) /\ cable.running = kind
          /\ cable.left \in 1 .. DataBytes(kind)
          /\ decoder.data = IF cable.left = DataBytes(kind) THEN << >>
                            ELSE <<[kind |-> "data", of |-> n]>>
      BY <2>2 DEF HearsInv, InChannelMessage
    <3>2. n \in Nat /\ more \in Nat /\ more + 1 = cable.left /\ kind # "idle" /\ kind # "sysex"
      BY <2>0, <2>2, <3>1 DEF ChannelKinds, DataBytes
    <3>3. /\ cable' = [cable EXCEPT !.kind = IF more = 0 THEN "idle" ELSE kind, !.left = more,
                                    !.count = n, !.program = IF kind = "program" THEN n ELSE @]
          /\ sent' = IF kind = "note" /\ more = 0
                     THEN Append(sent, [of |-> n, with |-> n, program |-> cable.program]) ELSE sent
          /\ Feed([kind |-> "data", of |-> n])
      BY <1>2, <3>2 DEF SendData
    <3>4. kind \in ChannelKinds
      BY <2>2
    <3> HIDE DEF kind, n, more
    <3> QED
      BY <1>2, <3>1, <3>2, <3>3, <3>4, ChannelByteStep
  <2>3. CASE cable.kind \in CommonKinds \cup {"sysex"}
    BY <1>2, <2>3, SystemByteStep
  <2> QED
    BY <2>0, <2>1, <2>2, <2>3 DEF StatusKinds
<1>3. ASSUME SendRealtime PROVE HearsInv'
  <2> DEFINE f == Fed(decoder, [kind |-> "realtime", of |-> 0])
  <2>1. decoder' = f.d /\ decoded' = decoded \o f.events /\ UNCHANGED <<cable, sent>>
    BY <1>3 DEF SendRealtime, Feed
  <2>2. f = [d |-> decoder, events |-> << >>]
    BY FedRealtime
  <2> HIDE DEF f
  <2>3. decoder' = decoder /\ decoded' = decoded \o << >>
    BY <2>1, <2>2
  <2>4. decoded \in Seq(StreamEvent)
    BY DEF HearsInv, StreamTypeOK
  <2>5. decoded' = decoded
    BY <2>3, <2>4, ST!ConcatEmptySeq
  <2> QED
    BY <2>1, <2>3, <2>5 DEF HearsInv, StreamTypeOK, BetweenMessages, InChannelMessage,
                            InSystemMessage, DecodesWhatWasSent
<1>4. ASSUME LoseTail, cable.kind # "sysex" PROVE HearsInv'
  <2>1. /\ cable.kind \notin {"idle", "sysex"} /\ UNCHANGED <<decoder, sent, decoded>>
        /\ cable' = [cable EXCEPT !.kind = "idle", !.left = 0, !.running = "none"]
    BY <1>4 DEF LoseTail
  <2>2. cable \in [kind : StatusKinds \cup {"idle"}, left : Nat, running : RunningKinds,
                   count : Nat, program : Nat]
    BY DEF HearsInv, StreamTypeOK
  <2>3. /\ cable' \in [kind : StatusKinds \cup {"idle"}, left : Nat, running : RunningKinds,
                       count : Nat, program : Nat]
        /\ cable'.kind = "idle" /\ cable'.running = "none" /\ cable'.program = cable.program
    BY <2>1, <2>2 DEF RunningKinds
  <2>4. decoder.sysex = FALSE
    <3>1. cable.kind \in ChannelKinds \/ cable.kind \in CommonKinds
      BY <2>1, <2>2 DEF StatusKinds
    <3> QED
      BY <3>1 DEF HearsInv, InChannelMessage, InSystemMessage, Awaits
  <2> QED
    BY <2>1, <2>3, <2>4 DEF HearsInv, StreamTypeOK, BetweenMessages, InChannelMessage,
         InSystemMessage, DecodesWhatWasSent, ChannelKinds, CommonKinds
<1>5. CASE LoseTail /\ cable.kind = "sysex"
  <2>1. /\ UNCHANGED <<decoder, sent, decoded>>
        /\ cable' = [cable EXCEPT !.kind = "idle", !.left = 0, !.running = "none"]
    BY <1>5 DEF LoseTail
  <2>2. cable \in [kind : StatusKinds \cup {"idle"}, left : Nat, running : RunningKinds,
                   count : Nat, program : Nat]
    BY DEF HearsInv, StreamTypeOK
  <2>3. /\ cable' \in [kind : StatusKinds \cup {"idle"}, left : Nat, running : RunningKinds,
                       count : Nat, program : Nat]
        /\ cable'.kind = "idle" /\ cable'.program = cable.program
    BY <2>1, <2>2 DEF RunningKinds
  <2>4. decoder.sysex = TRUE
    BY <1>5 DEF HearsInv, InSystemMessage
  <2>5. DeafInv'
    BY <2>1, <2>3, <2>4 DEF HearsInv, DeafInv, StreamTypeOK, DecodesWhatWasSent, ChannelKinds,
         CommonKinds
  <2> QED
    BY <1>0, <1>5, <2>5
<1>6. ASSUME UNCHANGED streamVars PROVE HearsInv'
  BY <1>6 DEF streamVars, HearsInv, StreamTypeOK, BetweenMessages, InChannelMessage,
              InSystemMessage, DecodesWhatWasSent
<1>7. ~(LoseTail /\ cable.kind = "sysex") => HearsInv'
  BY <1>1, <1>2, <1>3, <1>4, <1>6 DEF StreamNext
<1> QED
  BY <1>0, <1>5, <1>7

(* A byte into an open SysEx ends it or does nothing. *)
LEMMA DeafFeed ==
  ASSUME DeafInv, NEW b, b.kind \in StatusKinds \cup {"data", "eox", "realtime"}, Feed(b)
  PROVE  /\ decoded' = decoded
         /\ decoder' = IF b.kind = "eox" THEN [decoder EXCEPT !.sysex = FALSE] ELSE decoder
<1>1. decoder \in DecoderType /\ decoder.sysex = TRUE /\ decoded \in Seq(StreamEvent)
  BY DEF DeafInv, StreamTypeOK
<1>2. Fed(decoder, b) = [d |-> IF b.kind = "eox" THEN [decoder EXCEPT !.sysex = FALSE] ELSE decoder,
                         events |-> << >>]
  <2>1. CASE b.kind = "realtime"
    BY <2>1, FedRealtime
  <2>2. CASE b.kind # "realtime"
    <3>1. Fed(decoder, b) = [d |-> [decoder EXCEPT !.sysex = b.kind # "eox"], events |-> << >>]
      BY <1>1, <2>2 DEF Fed
    <3>2. CASE b.kind = "eox"
      BY <3>1, <3>2
    <3>3. CASE b.kind # "eox"
      <4>1. (b.kind # "eox") = TRUE
        BY <3>3
      <4>2. [decoder EXCEPT !.sysex = TRUE] = decoder
        BY <1>1 DEF DecoderType
      <4> QED
        BY <3>1, <3>3, <4>1, <4>2
    <3> QED
      BY <3>2, <3>3
  <2> QED
    BY <2>1, <2>2
<1>3. decoded' = decoded \o << >>
  BY <1>2 DEF Feed
<1>4. decoded' = decoded
  BY <1>1, <1>3, ST!ConcatEmptySeq
<1> QED
  BY <1>2, <1>4 DEF Feed

(* Until a SysEx ends, the decoder stays as it is. *)
LEMMA DeafStep ==
  ASSUME DeafInv, torn = TRUE, [StreamNext]_streamVars
  PROVE  (torn' = TRUE /\ DeafInv') \/ (torn' = FALSE /\ HearsInv')
<1> DEFINE C == [kind : StatusKinds \cup {"idle"}, left : Nat, running : RunningKinds,
                 count : Nat, program : Nat]
<1>0. /\ decoder \in DecoderType /\ decoder.sysex = TRUE /\ cable \in C
      /\ sent \in Seq(StreamEvent) /\ decoded \in Seq(StreamEvent) /\ decoded = sent
      /\ decoder.program = cable.program
  BY DEF DeafInv, StreamTypeOK, DecodesWhatWasSent
<1>1. ASSUME NEW kind \in ChannelKinds \cup {"sysex"} \cup DOMAIN Kinds2, SendStatus(kind)
      PROVE  torn' = TRUE /\ DeafInv'
  <2>1. kind \in StatusKinds /\ kind # "eox" /\ BytesOf(kind) \in Nat /\ kind # "idle"
    BY MessageBytes DEF StatusKinds, ChannelKinds, CommonKinds
  <2>2. /\ cable' = [cable EXCEPT !.kind = IF BytesOf(kind) = 0 THEN "idle" ELSE kind,
                                  !.left = BytesOf(kind), !.count = @ + 1,
                                  !.running = IF kind \in ChannelKinds THEN kind ELSE "none"]
        /\ Feed([kind |-> kind, of |-> cable'.count]) /\ UNCHANGED <<torn, sent>>
    BY <1>1 DEF SendStatus
  <2>3. decoder' = decoder /\ decoded' = decoded
    <3> DEFINE b == [kind |-> kind, of |-> cable'.count]
    <3>1. b.kind = kind /\ Feed(b)
      BY <2>2
    <3> HIDE DEF b
    <3> QED
      BY <2>1, <3>1, DeafFeed
  <2>4. /\ cable' \in C /\ cable'.program = cable.program
        /\ cable'.kind = (IF BytesOf(kind) = 0 THEN "idle" ELSE kind) /\ cable'.left = BytesOf(kind)
        /\ cable'.running = (IF kind \in ChannelKinds THEN kind ELSE "none")
    <3>1. (IF BytesOf(kind) = 0 THEN "idle" ELSE kind) \in StatusKinds \cup {"idle"}
          /\ (IF kind \in ChannelKinds THEN kind ELSE "none") \in RunningKinds
      BY <2>1 DEF RunningKinds
    <3>2. cable.count + 1 \in Nat
      BY <1>0
    <3> QED
      BY <1>0, <2>1, <2>2, <3>1, <3>2
  <2>5. cable'.kind # "idle" => cable'.left > 0
    BY <2>1, <2>4
  <2>6. /\ cable'.kind \in ChannelKinds => cable'.running = cable'.kind
        /\ cable'.kind \in CommonKinds \cup {"sysex"} => cable'.running = "none"
    BY <2>4 DEF ChannelKinds, CommonKinds
  <2> QED
    BY <1>0, <2>2, <2>3, <2>4, <2>5, <2>6 DEF DeafInv, StreamTypeOK, DecodesWhatWasSent
<1>2. CASE SendData
  <2> DEFINE kind == IF cable.kind = "idle" THEN cable.running ELSE cable.kind
             count == IF cable.kind = "idle" THEN cable.count + 1 ELSE cable.count
             left == (IF cable.kind = "idle" THEN BytesOf(kind) ELSE cable.left) - 1
             ends == kind = "sysex" /\ left = 0
             b == [kind |-> IF ends THEN "eox" ELSE "data", of |-> count]
  <2>1. cable.kind = "idle" => cable.running # "none"
    BY <1>2 DEF SendData
  <2>2. kind \in StatusKinds /\ count \in Nat /\ left \in Nat
        /\ (kind \in ChannelKinds => cable.running = kind)
        /\ (kind \notin ChannelKinds => cable.running = "none")
    <3>1. CASE cable.kind = "idle"
      <4>1. kind \in ChannelKinds /\ BytesOf(kind) \in Nat /\ BytesOf(kind) > 0
        BY <1>0, <2>1, <3>1, MessageBytes DEF RunningKinds, ChannelKinds
      <4> QED
        BY <1>0, <3>1, <4>1 DEF StatusKinds
    <3>2. CASE cable.kind # "idle"
      <4>1. kind \in StatusKinds /\ cable.left > 0
        BY <1>0, <3>2 DEF DeafInv
      <4>2. kind = cable.kind
        BY <3>2
      <4> QED
        BY <1>0, <3>2, <4>1, <4>2 DEF DeafInv, StatusKinds
    <3> QED
      BY <3>1, <3>2
  <2>3. /\ cable' = [cable EXCEPT !.kind = IF left = 0 THEN "idle" ELSE kind, !.left = left,
                                  !.count = count, !.program = IF FALSE THEN count ELSE @]
        /\ torn' = ~ends /\ sent' = sent /\ Feed(b)
    BY <1>2 DEF SendData
  <2>4. b.kind \in {"data", "eox"} /\ (b.kind = "eox" <=> ends)
    OBVIOUS
  <2> HIDE DEF b, ends, left, count
  <2>5. decoded' = decoded
        /\ decoder' = IF ends THEN [decoder EXCEPT !.sysex = FALSE] ELSE decoder
    BY <2>3, <2>4, DeafFeed
  <2>6. /\ cable' \in C /\ cable'.kind = (IF left = 0 THEN "idle" ELSE kind) /\ cable'.left = left
        /\ cable'.running = cable.running /\ cable'.program = cable.program
    <3>1. (IF left = 0 THEN "idle" ELSE kind) \in StatusKinds \cup {"idle"}
      BY <2>2
    <3> HIDE DEF kind
    <3> QED
      BY <1>0, <2>2, <2>3, <3>1
  <2> HIDE DEF kind
  <2>7. CASE ends
    <3>1. left = 0 /\ kind = "sysex" /\ kind \notin ChannelKinds
      BY <2>7 DEF ends, ChannelKinds
    <3>2. cable'.kind = "idle" /\ cable'.running = "none"
      BY <2>2, <2>6, <3>1
    <3>3. decoder' \in DecoderType /\ decoder'.sysex = FALSE /\ decoder'.program = decoder.program
      BY <1>0, <2>5, <2>7 DEF DecoderType
    <3> QED
      BY <1>0, <2>3, <2>5, <2>6, <2>7, <3>2, <3>3
         DEF HearsInv, StreamTypeOK, BetweenMessages, InChannelMessage, InSystemMessage,
             DecodesWhatWasSent, ChannelKinds, CommonKinds
  <2>8. CASE ~ends
    <3>1. decoder' = decoder
      BY <2>5, <2>8
    <3>2. cable'.kind # "idle" => cable'.left > 0
      BY <2>2, <2>6
    <3>3. /\ cable'.kind \in ChannelKinds => cable'.running = cable'.kind
          /\ cable'.kind \in CommonKinds \cup {"sysex"} => cable'.running = "none"
      BY <2>2, <2>6 DEF ChannelKinds, CommonKinds
    <3> QED
      BY <1>0, <2>3, <2>5, <2>6, <2>8, <3>1, <3>2, <3>3
         DEF DeafInv, StreamTypeOK, DecodesWhatWasSent
  <2> QED
    BY <2>7, <2>8
<1>3. CASE SendRealtime
  <2> DEFINE b == [kind |-> "realtime", of |-> 0]
  <2>1. Feed(b) /\ UNCHANGED <<cable, torn, sent>> /\ b.kind = "realtime"
    BY <1>3 DEF SendRealtime
  <2> HIDE DEF b
  <2>2. decoder' = decoder /\ decoded' = decoded
    BY <2>1, DeafFeed
  <2> QED
    BY <2>1, <2>2 DEF DeafInv, StreamTypeOK, DecodesWhatWasSent
<1>4. CASE LoseTail
  <2>1. /\ UNCHANGED <<decoder, sent, decoded>> /\ torn' = TRUE
        /\ cable' = [cable EXCEPT !.kind = "idle", !.left = 0, !.running = "none"]
    BY <1>4 DEF LoseTail
  <2>2. cable' \in C /\ cable'.kind = "idle" /\ cable'.program = cable.program
    BY <1>0, <2>1 DEF RunningKinds
  <2> QED
    BY <1>0, <2>1, <2>2 DEF DeafInv, StreamTypeOK, DecodesWhatWasSent, ChannelKinds, CommonKinds
<1>5. CASE UNCHANGED streamVars
  BY <1>5 DEF streamVars, DeafInv, StreamTypeOK, DecodesWhatWasSent
<1> QED
  BY <1>1, <1>2, <1>3, <1>4, <1>5 DEF StreamNext

(* Every step keeps the invariant. *)
LEMMA StreamInvStep == StreamInv /\ [StreamNext]_streamVars => StreamInv'
<1> SUFFICES ASSUME StreamInv, [StreamNext]_streamVars PROVE StreamInv'
  OBVIOUS
<1>1. CASE torn = FALSE
  <2>1. HearsInv
    BY <1>1 DEF StreamInv
  <2> QED
    BY <1>1, <2>1, HearingStep DEF StreamInv
<1>2. CASE torn = TRUE
  <2>1. DeafInv
    BY <1>2 DEF StreamInv
  <2> QED
    BY <1>2, <2>1, DeafStep DEF StreamInv
<1> QED
  BY <1>1, <1>2 DEF StreamInv

(* For every number of messages and real-time bytes, in every order and    *)
(* wherever a message was torn, the events MidiStreamDecoder returns are   *)
(* the notes sent whole, with the program that was in force, except those  *)
(* between the loss of a SysEx's tail and the next F7, of which it returns *)
(* none.                                                                   *)
THEOREM StreamDecoded == StreamSpec => []DecodesWhatWasSent
<1>1. StreamInit => StreamInv
  <2>1. StreamInit => StreamTypeOK
    BY DEF StreamInit, StreamTypeOK, DecoderType, RunningKinds
  <2>2. StreamInit => HearsInv
    BY <2>1 DEF StreamInit, HearsInv, BetweenMessages, InChannelMessage, InSystemMessage,
                DecodesWhatWasSent, ChannelKinds, CommonKinds
  <2>3. StreamInit => torn = FALSE
    BY DEF StreamInit
  <2> QED
    BY <2>2, <2>3 DEF StreamInv
<1>2. StreamInv => DecodesWhatWasSent
  BY DEF StreamInv, HearsInv, DeafInv
<1> QED
  BY <1>1, <1>2, StreamInvStep, PTL DEF StreamSpec

-----------------------------------------------------------------------------
(* ChannelPolicy: the two policies select alike. *)

Generators == {"none", "pan", "other", "beyond"}
Selection == [rpnMsb : Selectors, rpnLsb : Selectors, sf2 : BOOLEAN, base : {0, 100},
              gen : Generators, msb : Data, lsb : Data, nrpn : BOOLEAN]
Params == [bend : Data \X Data, fine : Int, coarse : Int, pan : Int]

PolicyTypeOK ==
  /\ fw = [sel |-> fw.sel, bank |-> fw.bank, program |-> fw.program]
  /\ fw.sel \in Selection /\ mcu \in Selection
  /\ fwParams \in Params /\ mcuParams \in Params

(* The firmware's increments, which the harness has not, move the high     *)
(* half of the value; nothing else may differ.                             *)
SelectionsAgree == mcu = [fw.sel EXCEPT !.msb = mcu.msb]

(* The inductive invariant. *)
PolicyInv == PolicyTypeOK /\ SelectionsAgree /\ PoliciesAgree

(* The constants as numbers. *)
LEMMA PolicyNumbers ==
  /\ DataMod \in Nat /\ DataMod > 2 /\ CentsMax \in Data /\ Null \in Nat
  /\ 0 \in Data /\ 2 \in Data /\ Data \subseteq Nat
  /\ Centre \in Int /\ DataMod \div 2 \in Int
<1>1. DataMod \in Nat /\ DataMod > 2 /\ CentsMax \in Data
  BY PolicyAssumption DEF Data
<1>2. DataMod * DataMod \in Int
  BY <1>1
<1>3. \A x \in Int : x \div 2 \in Int
  BY DivMod
<1> QED
  BY <1>1, <1>2, <1>3 DEF Data, Null, Centre

(* A reset selects alike, too. *)
LEMMA ResetAgrees ==
  /\ ResetSelection \in Selection /\ ResetParams \in Params
  /\ ResetSelection = [ResetSelection EXCEPT !.msb = ResetSelection.msb]
<1>1. Null \in Selectors /\ 0 \in Data /\ 2 \in Data
  BY PolicyNumbers DEF Selectors
<1>2. ResetSelection \in Selection
  BY <1>1 DEF ResetSelection, Selection, Generators
<1>3. ResetParams \in Params
  BY <1>1 DEF ResetParams, Params
<1> QED
  BY <1>2, <1>3 DEF Selection

(* What selects before the step selects after it, in both policies. *)
LEMMA SelectStep ==
  ASSUME PolicyInv, NEW s \in Selection, NEW m \in Selection,
         m = [s EXCEPT !.msb = m.msb],
         fw' = [fw EXCEPT !.sel = s], mcu' = m,
         fwParams' \in Params, mcuParams' \in Params, lastControl' # "msb"
  PROVE  PolicyInv'
<1>1. fw' = [sel |-> s, bank |-> fw.bank, program |-> fw.program]
  BY DEF PolicyInv, PolicyTypeOK
<1> QED
  BY <1>1 DEF PolicyInv, PolicyTypeOK, SelectionsAgree, PoliciesAgree

(* CC98 selects in both policies alike. *)
LEMMA NrpnLsbAgrees ==
  ASSUME NEW s \in Selection, NEW m \in Selection, m = [s EXCEPT !.msb = m.msb],
         NEW pick \in {"pan", "other", "raise"}
  PROVE  /\ SelectNrpnLsb(s, pick) \in Selection /\ SelectNrpnLsb(m, pick) \in Selection
         /\ SelectNrpnLsb(m, pick)
              = [SelectNrpnLsb(s, pick) EXCEPT !.msb = SelectNrpnLsb(m, pick).msb]
<1>0. m.base = s.base
  BY DEF Selection
<1> DEFINE g == IF pick = "raise" THEN "none" ELSE IF s.base = 0 THEN pick ELSE "beyond"
           u == IF pick = "raise" THEN 100 ELSE 0
<1>1. g \in Generators /\ u \in {0, 100}
  BY DEF Generators
<1>2. /\ SelectNrpnLsb(s, pick) = [s EXCEPT !.gen = g, !.base = u, !.nrpn = TRUE]
      /\ SelectNrpnLsb(m, pick) = [m EXCEPT !.gen = g, !.base = u, !.nrpn = TRUE]
  BY <1>0 DEF SelectNrpnLsb
<1> HIDE DEF g, u
<1>3. SelectNrpnLsb(s, pick) \in Selection
  BY <1>1, <1>2, ZenonT(60) DEF Selection
<1>4. SelectNrpnLsb(m, pick) \in Selection /\ SelectNrpnLsb(m, pick).msb = m.msb
  BY <1>1, <1>2, ZenonT(60) DEF Selection
<1>5. [m EXCEPT !.gen = g, !.base = u, !.nrpn = TRUE]
        = [[s EXCEPT !.gen = g, !.base = u, !.nrpn = TRUE] EXCEPT !.msb = m.msb]
  BY DEF Selection
<1> QED
  BY <1>2, <1>3, <1>4, <1>5

(* CC99 does. *)
LEMMA NrpnMsbAgrees ==
  ASSUME NEW s \in Selection, NEW m \in Selection, m = [s EXCEPT !.msb = m.msb],
         NEW sf2 \in BOOLEAN
  PROVE  /\ SelectNrpnMsb(s, sf2) \in Selection /\ SelectNrpnMsb(m, sf2) \in Selection
         /\ SelectNrpnMsb(m, sf2)
              = [SelectNrpnMsb(s, sf2) EXCEPT !.msb = SelectNrpnMsb(m, sf2).msb]
<1>0. m.gen = s.gen
  BY DEF Selection
<1> DEFINE g == IF sf2 THEN s.gen ELSE "none"
<1>1. g \in Generators
  BY DEF Generators, Selection
<1>2. /\ SelectNrpnMsb(s, sf2) = [s EXCEPT !.sf2 = sf2, !.nrpn = TRUE, !.gen = g]
      /\ SelectNrpnMsb(m, sf2) = [m EXCEPT !.sf2 = sf2, !.nrpn = TRUE, !.gen = g]
  BY <1>0 DEF SelectNrpnMsb, Selection
<1> HIDE DEF g
<1>3. SelectNrpnMsb(s, sf2) \in Selection
  BY <1>1, <1>2, ZenonT(60) DEF Selection
<1>4. SelectNrpnMsb(m, sf2) \in Selection /\ SelectNrpnMsb(m, sf2).msb = m.msb
  BY <1>1, <1>2, ZenonT(60) DEF Selection
<1>5. [m EXCEPT !.sf2 = sf2, !.nrpn = TRUE, !.gen = g]
        = [[s EXCEPT !.sf2 = sf2, !.nrpn = TRUE, !.gen = g] EXCEPT !.msb = m.msb]
  BY DEF Selection
<1> QED
  BY <1>2, <1>3, <1>4, <1>5

(* CC100 and CC101 do. *)
LEMMA RpnAgrees ==
  ASSUME NEW s \in Selection, NEW m \in Selection, m = [s EXCEPT !.msb = m.msb],
         NEW half \in {"msb", "lsb"}, NEW value \in Selectors
  PROVE  /\ SelectRpn(s, half, value) \in Selection /\ SelectRpn(m, half, value) \in Selection
         /\ SelectRpn(m, half, value)
              = [SelectRpn(s, half, value) EXCEPT !.msb = SelectRpn(m, half, value).msb]
<1>1. CASE half = "msb"
  BY <1>1 DEF SelectRpn, Selection
<1>2. CASE half = "lsb"
  BY <1>2 DEF SelectRpn, Selection
<1> QED
  BY <1>1, <1>2

(* A data entry leaves the parameters well-formed. *)
LEMMA AppliedType ==
  ASSUME NEW p \in Params, NEW s \in Selection, NEW msb \in Data, NEW bend \in Data \X Data
  PROVE  PolicyApplied(p, s, msb, bend) \in Params
<1>1. Offset(msb, s.lsb) \in Int /\ msb - DataMod \div 2 \in Int
  <2>0. msb \in Data /\ s.lsb \in Data
    BY DEF Selection
  <2>1. msb \in Int /\ s.lsb \in Int
    BY <2>0 DEF Data
  <2>2. DataMod \in Int /\ Centre \in Int /\ DataMod \div 2 \in Int
    BY PolicyNumbers
  <2>3. msb * DataMod \in Int
    BY <2>1, <2>2
  <2> QED
    BY <2>1, <2>2, <2>3 DEF Offset
<1>2. /\ [p EXCEPT !.bend = bend] \in Params
      /\ [p EXCEPT !.fine = Offset(msb, s.lsb)] \in Params
      /\ [p EXCEPT !.coarse = msb - DataMod \div 2] \in Params
      /\ [p EXCEPT !.pan = Offset(msb, s.lsb)] \in Params
  BY <1>1 DEF Params
<1>3. \/ PolicyApplied(p, s, msb, bend) = [p EXCEPT !.bend = bend]
      \/ PolicyApplied(p, s, msb, bend) = [p EXCEPT !.fine = Offset(msb, s.lsb)]
      \/ PolicyApplied(p, s, msb, bend) = [p EXCEPT !.coarse = msb - DataMod \div 2]
      \/ PolicyApplied(p, s, msb, bend) = [p EXCEPT !.pan = Offset(msb, s.lsb)]
      \/ PolicyApplied(p, s, msb, bend) = p
  BY DEF PolicyApplied
<1> QED
  BY <1>2, <1>3

(* The clamped cents are a data byte, and the cents themselves unless they *)
(* are beyond the clamp.                                                   *)
LEMMA ClampedCents ==
  ASSUME NEW x \in Data
  PROVE  Clamped(x) \in Data /\ (Clamped(x) = x \/ x > CentsMax)
BY PolicyNumbers DEF Clamped, Data

(* What a data entry writes to the parameter that is selected. *)
LEMMA AppliedValue ==
  ASSUME NEW p \in Params, NEW s, NEW msb, NEW bend
  PROVE  /\ Selected(s) = "bend" => PolicyApplied(p, s, msb, bend)["bend"] = bend
         /\ Selected(s) = "fine" => PolicyApplied(p, s, msb, bend)["fine"] = Offset(msb, s.lsb)
         /\ Selected(s) = "coarse" => PolicyApplied(p, s, msb, bend)["coarse"] = msb - DataMod \div 2
         /\ Selected(s) = "pan" => PolicyApplied(p, s, msb, bend)["pan"] = Offset(msb, s.lsb)
         /\ Selected(s) \in {"bend", "fine", "coarse", "pan", "nothing"}
<1>1. Selected(s) \in {"bend", "fine", "coarse", "pan", "nothing"}
  BY DEF Selected
<1>2. CASE Selected(s) = "bend"
  BY <1>2 DEF PolicyApplied, Params
<1>3. CASE Selected(s) = "fine"
  BY <1>3 DEF PolicyApplied, Params
<1>4. CASE Selected(s) = "coarse"
  BY <1>4 DEF PolicyApplied, Params
<1>5. CASE Selected(s) = "pan"
  BY <1>5 DEF PolicyApplied, Params
<1> QED
  BY <1>1, <1>2, <1>3, <1>4, <1>5

(* CC6: both policies write the same value. *)
LEMMA EntryMsbStep ==
  ASSUME PolicyInv, NEW value \in Data, EntryMsb(value)
  PROVE  PolicyInv'
<1> DEFINE s == [fw.sel EXCEPT !.msb = value]
           fb == <<value, Clamped(s.lsb)>>
           mb == <<value, mcu.lsb>>
<1>1. /\ fw' = [fw EXCEPT !.sel = s]
      /\ fwParams' = PolicyApplied(fwParams, s, s.msb, <<s.msb, Clamped(s.lsb)>>)
      /\ mcu' = [mcu EXCEPT !.msb = value]
      /\ mcuParams' = PolicyApplied(mcuParams, mcu, value, mb)
  BY DEF EntryMsb, FirmwareEntry, McuEntry
<1>2. fw.sel \in Selection /\ mcu \in Selection /\ fwParams \in Params /\ mcuParams \in Params
      /\ mcu = [fw.sel EXCEPT !.msb = mcu.msb]
      /\ fw = [sel |-> fw.sel, bank |-> fw.bank, program |-> fw.program]
  BY DEF PolicyInv, PolicyTypeOK, SelectionsAgree
<1>3. s \in Selection /\ s.msb = value /\ s.lsb = fw.sel.lsb /\ mcu.lsb = s.lsb /\ s.lsb \in Data
  BY <1>2 DEF Selection
<1>4. mcu' \in Selection /\ mcu' = s
  BY <1>1, <1>2 DEF Selection
<1>5. Selected(mcu) = Selected(s)
  BY <1>2 DEF Selected, Selection
<1>6. fw' = [sel |-> s, bank |-> fw.bank, program |-> fw.program]
  BY <1>1, <1>2
<1>7. fwParams' = PolicyApplied(fwParams, s, value, fb)
  BY <1>1, <1>3
<1>8. fb \in Data \X Data /\ mb \in Data \X Data /\ (fb = mb \/ s.lsb > CentsMax)
  BY <1>3, ClampedCents
<1> HIDE DEF s, fb, mb
<1>9. fwParams' \in Params /\ mcuParams' \in Params
  BY <1>1, <1>2, <1>3, <1>7, <1>8, AppliedType
<1>10. PolicyTypeOK'
  BY <1>3, <1>4, <1>6, <1>9 DEF PolicyTypeOK
<1>11. SelectionsAgree'
  <2>1. fw'.sel = s
    BY <1>6
  <2>2. s = [s EXCEPT !.msb = s.msb]
    BY <1>3 DEF Selection
  <2> QED
    BY <1>4, <2>1, <2>2 DEF SelectionsAgree
<1>12. PoliciesAgree'
  <2> DEFINE p == Selected(s)
  <2>1. fw'.sel = s /\ Selected(fw'.sel) = p /\ Selected(mcu') = p
    BY <1>4, <1>6
  <2>2. p \in {"bend", "fine", "coarse", "pan", "nothing"}
    BY <1>2, AppliedValue
  <2>3. p = "bend" => fwParams'["bend"] = fb /\ mcuParams'["bend"] = mb
    BY <1>1, <1>2, <1>5, <1>7, AppliedValue
  <2>4. p = "fine" => fwParams'["fine"] = mcuParams'["fine"]
    BY <1>1, <1>2, <1>3, <1>5, <1>7, AppliedValue
  <2>5. p = "coarse" => fwParams'["coarse"] = mcuParams'["coarse"]
    BY <1>1, <1>2, <1>5, <1>7, AppliedValue
  <2>6. p = "pan" => fwParams'["pan"] = mcuParams'["pan"]
    BY <1>1, <1>2, <1>3, <1>5, <1>7, AppliedValue
  <2> HIDE DEF p
  <2> QED
    BY <1>8, <2>1, <2>2, <2>3, <2>4, <2>5, <2>6 DEF PoliciesAgree
<1> QED
  BY <1>10, <1>11, <1>12 DEF PolicyInv

(* CC38, CC96 and CC97 keep the selections in step. *)
LEMMA EntryHalfStep ==
  ASSUME PolicyInv,
         \/ \E value \in Data : EntryLsb(value)
         \/ \E step \in {-1, 1} : EntryStep(step)
  PROVE  PolicyInv'
<1>1. fw.sel \in Selection /\ mcu \in Selection /\ fwParams \in Params /\ mcuParams \in Params
      /\ mcu = [fw.sel EXCEPT !.msb = mcu.msb]
  BY DEF PolicyInv, PolicyTypeOK, SelectionsAgree
<1>2. ASSUME NEW value \in Data, EntryLsb(value) PROVE PolicyInv'
  <2> DEFINE s == [fw.sel EXCEPT !.lsb = value]
             m == [mcu EXCEPT !.lsb = value]
             fb == <<s.msb, Clamped(s.lsb)>>
             mb == <<m.msb, m.lsb>>
  <2>1. /\ fw' = [fw EXCEPT !.sel = s] /\ fwParams' = PolicyApplied(fwParams, s, s.msb, fb)
        /\ mcu' = m /\ mcuParams' \in {PolicyApplied(mcuParams, m, m.msb, mb), mcuParams}
        /\ lastControl' = "lsb"
    BY <1>2 DEF EntryLsb, FirmwareEntry, McuEntry, Controlled
  <2>2. s \in Selection /\ m \in Selection
    BY <1>1 DEF Selection
  <2>3. m = [s EXCEPT !.msb = m.msb]
    BY <1>1 DEF Selection
  <2>4. s.msb \in Data /\ s.lsb \in Data /\ m.msb \in Data /\ m.lsb \in Data
    BY <2>2 DEF Selection
  <2> HIDE DEF s, m
  <2>5. fb \in Data \X Data /\ mb \in Data \X Data
    BY <2>4, ClampedCents
  <2> HIDE DEF fb, mb
  <2>6. fwParams' \in Params
    BY <1>1, <2>1, <2>2, <2>4, <2>5, AppliedType
  <2>7. mcuParams' \in Params
    <3>1. PolicyApplied(mcuParams, m, m.msb, mb) \in Params
      BY <1>1, <2>2, <2>4, <2>5, AppliedType
    <3> QED
      BY <1>1, <2>1, <3>1
  <2> QED
    BY <2>1, <2>2, <2>3, <2>6, <2>7, SelectStep
<1>3. ASSUME NEW step \in {-1, 1}, EntryStep(step) PROVE PolicyInv'
  <2> DEFINE v == IF fw.sel.msb + step \in Data THEN fw.sel.msb + step ELSE fw.sel.msb
             s == [fw.sel EXCEPT !.msb = v]
             fb == <<s.msb, Clamped(s.lsb)>>
  <2>1. /\ fw' = [fw EXCEPT !.sel = s] /\ fwParams' = PolicyApplied(fwParams, s, s.msb, fb)
        /\ mcu' = mcu /\ mcuParams' = mcuParams /\ lastControl' = "step"
    BY <1>3 DEF EntryStep, FirmwareEntry, Controlled
  <2>2. v \in Data
    BY <1>1 DEF Selection
  <2> HIDE DEF v
  <2>3. s \in Selection /\ mcu = [s EXCEPT !.msb = mcu.msb]
    BY <1>1, <2>2 DEF Selection
  <2>4. s.msb \in Data /\ s.lsb \in Data
    BY <2>3 DEF Selection
  <2> HIDE DEF s
  <2>5. fb \in Data \X Data
    BY <2>4, ClampedCents
  <2> HIDE DEF fb
  <2>6. fwParams' \in Params
    BY <1>1, <2>1, <2>3, <2>4, <2>5, AppliedType
  <2> QED
    BY <1>1, <2>1, <2>3, <2>6, SelectStep
<1> QED
  BY <1>2, <1>3

(* Every controller keeps the policies together. *)
LEMMA PolicyInvStep == PolicyInv /\ [PolicyNext]_policyChannelVars => PolicyInv'
<1> SUFFICES ASSUME PolicyInv, [PolicyNext]_policyChannelVars PROVE PolicyInv'
  OBVIOUS
<1>0. fw.sel \in Selection /\ mcu \in Selection /\ fwParams \in Params /\ mcuParams \in Params
      /\ mcu = [fw.sel EXCEPT !.msb = mcu.msb]
      /\ fw = [sel |-> fw.sel, bank |-> fw.bank, program |-> fw.program]
  BY DEF PolicyInv, PolicyTypeOK, SelectionsAgree
<1>1. ASSUME NEW pick \in {"pan", "other", "raise"}, NrpnLsb(pick) PROVE PolicyInv'
  <2> DEFINE s == SelectNrpnLsb(fw.sel, pick)
             m == SelectNrpnLsb(mcu, pick)
  <2>1. fw' = [fw EXCEPT !.sel = s] /\ mcu' = m /\ lastControl' = "select"
        /\ UNCHANGED <<fwParams, mcuParams>>
    BY <1>1 DEF NrpnLsb, Select, Controlled
  <2>2. s \in Selection /\ m \in Selection /\ m = [s EXCEPT !.msb = m.msb]
    BY <1>0, NrpnLsbAgrees
  <2> HIDE DEF s, m
  <2> QED
    BY <1>0, <2>1, <2>2, SelectStep
<1>2. ASSUME NEW sf2 \in BOOLEAN, NrpnMsb(sf2) PROVE PolicyInv'
  <2> DEFINE s == SelectNrpnMsb(fw.sel, sf2)
             m == SelectNrpnMsb(mcu, sf2)
  <2>1. fw' = [fw EXCEPT !.sel = s] /\ mcu' = m /\ lastControl' = "select"
        /\ UNCHANGED <<fwParams, mcuParams>>
    BY <1>2 DEF NrpnMsb, Select, Controlled
  <2>2. s \in Selection /\ m \in Selection /\ m = [s EXCEPT !.msb = m.msb]
    BY <1>0, NrpnMsbAgrees
  <2> HIDE DEF s, m
  <2> QED
    BY <1>0, <2>1, <2>2, SelectStep
<1>3. ASSUME NEW half \in {"msb", "lsb"}, NEW value \in Selectors, Rpn(half, value)
      PROVE  PolicyInv'
  <2> DEFINE s == SelectRpn(fw.sel, half, value)
             m == SelectRpn(mcu, half, value)
  <2>1. fw' = [fw EXCEPT !.sel = s] /\ mcu' = m /\ lastControl' = "select"
        /\ UNCHANGED <<fwParams, mcuParams>>
    BY <1>3 DEF Rpn, Select, Controlled
  <2>2. s \in Selection /\ m \in Selection /\ m = [s EXCEPT !.msb = m.msb]
    BY <1>0, RpnAgrees
  <2> HIDE DEF s, m
  <2> QED
    BY <1>0, <2>1, <2>2, SelectStep
<1>4. ASSUME NEW value \in Data, EntryMsb(value) \/ EntryLsb(value) PROVE PolicyInv'
  BY <1>4, EntryMsbStep, EntryHalfStep
<1>5. ASSUME NEW step \in {-1, 1}, EntryStep(step) PROVE PolicyInv'
  BY <1>5, EntryHalfStep
<1>6. ASSUME NEW half \in 1 .. 2, NEW value \in 0 .. 1, BankSelect(half, value) PROVE PolicyInv'
  <2>1. /\ fw' = IF percussion THEN fw ELSE [fw EXCEPT !.bank[half] = value]
        /\ lastControl' = "bank" /\ UNCHANGED <<fwParams, mcu, mcuParams>>
    BY <1>6 DEF BankSelect, Controlled
  <2>2. fw' = [sel |-> fw.sel, bank |-> fw'.bank, program |-> fw.program]
    BY <1>0, <2>1
  <2> QED
    BY <1>0, <2>1, <2>2 DEF PolicyInv, PolicyTypeOK, SelectionsAgree, PoliciesAgree
<1>7. CASE ProgramChange(1)
  <2>1. /\ fw' = [fw EXCEPT !.program = 1]
        /\ lastControl' = "program" /\ UNCHANGED <<fwParams, mcu, mcuParams>>
    BY <1>7 DEF ProgramChange, Controlled
  <2>2. fw' = [sel |-> fw.sel, bank |-> fw.bank, program |-> fw'.program]
    BY <1>0, <2>1
  <2> QED
    BY <1>0, <2>1, <2>2 DEF PolicyInv, PolicyTypeOK, SelectionsAgree, PoliciesAgree
<1>8. CASE ResetAllControllers
  <2>1. /\ fw' = Address(ResetBank, 0) /\ mcu' = ResetSelection /\ lastControl' = "reset"
        /\ fwParams' = ResetParams /\ mcuParams' = ResetParams
    BY <1>8 DEF ResetAllControllers, Controlled
  <2> QED
    BY <2>1, ResetAgrees DEF PolicyInv, PolicyTypeOK, SelectionsAgree, PoliciesAgree, Address
<1>9. CASE UNCHANGED policyChannelVars
  BY <1>9 DEF policyChannelVars, PolicyInv, PolicyTypeOK, SelectionsAgree, PoliciesAgree
<1> QED
  BY <1>1, <1>2, <1>3, <1>4, <1>5, <1>6, <1>7, <1>8, <1>9 DEF PolicyNext

(* For every width of a data byte and every clamp of the cents, after any  *)
(* sequence of selections, data entries and increments a data entry MSB    *)
(* writes the same value in midi_policy.c and in McuModel, cents beyond    *)
(* the firmware's clamp aside.                                             *)
THEOREM PoliciesStayTogether == PolicySpec => []PoliciesAgree
<1>1. PolicyInit => PolicyInv
  BY ResetAgrees DEF PolicyInit, PolicyInv, PolicyTypeOK, SelectionsAgree, PoliciesAgree, Address
<1>2. PolicyInv => PoliciesAgree
  BY DEF PolicyInv
<1> QED
  BY <1>1, <1>2, PolicyInvStep, PTL DEF PolicySpec

-----------------------------------------------------------------------------
(* CompiledRuntime: the exclusive bitmaps. *)

CompiledSlot ==
  [stage : {"free", "active", "held", "released"}, note : CompiledNotes \cup {"none"},
   class : {0} \cup Classes, gen : Nat, inst : Nat, stamp : Nat, sent : {0, 1}]

RuntimeRecord ==
  [slots : [CompiledVoices -> CompiledSlot], free : Seq(CompiledVoices),
   bits : [Classes -> SUBSET CompiledVoices], stamp : Nat]

(* The bitmaps are the classes of the voices, the stack the free ones. *)
BitsExact(r) ==
  \A c \in Classes :
    r.bits[c] = {v \in CompiledVoices : r.slots[v].stage # "free" /\ r.slots[v].class = c}

StackExact(r) ==
  /\ \A i, j \in 1 .. Len(r.free) : r.free[i] = r.free[j] => i = j
  /\ \A v \in CompiledVoices :
       r.slots[v].stage = "free" <=> \E i \in 1 .. Len(r.free) : r.free[i] = v

OpenSlot(s) == s.stage \in {"active", "held"}

(* Of a class one note sounds on. *)
OneNote(slot) ==
  \A v, w \in CompiledVoices :
    (OpenSlot(slot[v]) /\ OpenSlot(slot[w]) /\ slot[v].class # 0
      /\ slot[v].class = slot[w].class) => slot[v].inst = slot[w].inst

(* Of the classes cs it is note inst. *)
OnlyNote(slot, cs, inst) ==
  \A v \in CompiledVoices :
    (OpenSlot(slot[v]) /\ slot[v].class \in cs) => slot[v].inst = inst

RuntimeExact(r) ==
  r \in RuntimeRecord /\ BitsExact(r) /\ StackExact(r) /\ OneNote(r.slots)

(* The inductive invariant. *)
CompiledInv ==
  RuntimeExact(Runtime) /\ controls \in {0, 1} /\ noteCount \in Nat

(* Class 0 is none. *)
LEMMA ClassesNonzero ==
  /\ 0 \notin Classes
  /\ \A n \in CompiledNotes : Range(ZoneClasses[n]) \ {0} \subseteq Classes
<1> DEFINE all == UNION {Range(ZoneClasses[n]) : n \in CompiledNotes}
<1>1. Classes = all \ {0}
  BY DEF Classes
<1>2. \A n \in CompiledNotes : Range(ZoneClasses[n]) \subseteq all
  OBVIOUS
<1> HIDE DEF all
<1> QED
  BY <1>1, <1>2

(* It is ExclusiveIndexExact and more. *)
LEMMA CompiledInvGives == CompiledInv => ExclusiveIndexExact
<1> SUFFICES ASSUME CompiledInv PROVE ExclusiveIndexExact
  OBVIOUS
<1>0. /\ Runtime.slots = slots /\ Runtime.free = freeStack /\ Runtime.bits = exclusive
  BY DEF Runtime
<1>1. /\ slots \in [CompiledVoices -> CompiledSlot] /\ freeStack \in Seq(CompiledVoices)
  BY <1>0 DEF CompiledInv, RuntimeExact, RuntimeRecord
<1>2. ASSUME NEW c \in Classes
      PROVE  exclusive[c] = {v \in CompiledVoices : slots[v].stage # "free" /\ slots[v].class = c}
  BY <1>0 DEF CompiledInv, RuntimeExact, BitsExact
<1>3. ASSUME NEW c \in Classes, NEW v \in exclusive[c], NEW w \in exclusive[c],
             {slots[v].stage, slots[w].stage} \subseteq {"active", "held"}
      PROVE  slots[v].inst = slots[w].inst
  <2>1. /\ v \in CompiledVoices /\ w \in CompiledVoices
        /\ slots[v].class = c /\ slots[w].class = c /\ c # 0
    BY <1>2, <1>3, ClassesNonzero
  <2>2. OpenSlot(slots[v]) /\ OpenSlot(slots[w])
    BY <1>3 DEF OpenSlot
  <2> QED
    BY <1>0, <2>1, <2>2 DEF CompiledInv, RuntimeExact, OneNote
<1>4. IsInjective(freeStack)
  BY <1>0, <1>1 DEF CompiledInv, RuntimeExact, StackExact, IsInjective
<1>5. Range(freeStack) = {v \in CompiledVoices : slots[v].stage = "free"}
  <2>1. DOMAIN freeStack = 1 .. Len(freeStack)
    BY <1>1
  <2>2. \A v \in CompiledVoices :
          slots[v].stage = "free" <=> \E i \in 1 .. Len(freeStack) : freeStack[i] = v
    BY <1>0 DEF CompiledInv, RuntimeExact, StackExact
  <2>3. \A i \in 1 .. Len(freeStack) : freeStack[i] \in CompiledVoices
    BY <1>1
  <2> QED
    BY <2>1, <2>2, <2>3 DEF Range
<1> QED
  BY <1>2, <1>3, <1>4, <1>5 DEF ExclusiveIndexExact

(* The classes of a note are classes. *)
LEMMA ZoneClassesTyped ==
  ASSUME NEW n \in CompiledNotes
  PROVE  /\ ZoneClasses[n] \in Seq({0} \cup Classes) /\ Len(ZoneClasses[n]) \in Nat
         /\ \A k \in 1 .. Len(ZoneClasses[n]) : ZoneClasses[n][k] \in Range(ZoneClasses[n])
<1>1. ZoneClasses[n] \in Seq(Nat)
  BY CompiledAssumption
<1>2. \A k \in 1 .. Len(ZoneClasses[n]) :
        ZoneClasses[n][k] \in Range(ZoneClasses[n]) /\ ZoneClasses[n][k] \in Nat
  BY <1>1 DEF Range
<1>3. \A k \in 1 .. Len(ZoneClasses[n]) : ZoneClasses[n][k] \in {0} \cup Classes
  BY <1>2, ClassesNonzero
<1> QED
  BY <1>1, <1>2, <1>3, ST!IsASeq

(* Reclaiming a voice that is not free. *)
LEMMA ReclaimKeeps ==
  ASSUME NEW r, RuntimeExact(r), NEW v \in CompiledVoices, r.slots[v].stage # "free",
         NEW q, q = Reclaim(r, v)
  PROVE  /\ RuntimeExact(q) /\ q.free = Append(r.free, v) /\ q.stamp = r.stamp
         /\ \A cs, inst : OnlyNote(r.slots, cs, inst) => OnlyNote(q.slots, cs, inst)
<1> DEFINE c == r.slots[v].class
           m == MarkExclusive(r, v, FALSE)
<1>1. /\ r \in RuntimeRecord /\ r.slots \in [CompiledVoices -> CompiledSlot]
      /\ r.free \in Seq(CompiledVoices) /\ r.bits \in [Classes -> SUBSET CompiledVoices]
      /\ r.slots[v] \in CompiledSlot /\ c \in {0} \cup Classes /\ 0 \notin Classes
  <2>1. /\ r \in RuntimeRecord /\ r.slots \in [CompiledVoices -> CompiledSlot]
        /\ r.free \in Seq(CompiledVoices) /\ r.bits \in [Classes -> SUBSET CompiledVoices]
    BY DEF RuntimeExact, RuntimeRecord
  <2>2. r.slots[v] \in CompiledSlot
    BY <2>1
  <2>3. c \in {0} \cup Classes
    BY <2>2 DEF CompiledSlot
  <2> QED
    BY <2>1, <2>2, <2>3, ClassesNonzero
<1>2. /\ m \in RuntimeRecord /\ m.slots = r.slots /\ m.free = r.free /\ m.stamp = r.stamp
      /\ \A d \in Classes : m.bits[d] = IF d = c THEN r.bits[d] \ {v} ELSE r.bits[d]
  BY <1>1 DEF MarkExclusive, RuntimeRecord
<1>3. q = [m EXCEPT !.slots[v].stage = "free", !.free = Append(@, v)]
  BY DEF Reclaim
<1> HIDE DEF m
<1>4. /\ q.slots = [r.slots EXCEPT ![v].stage = "free"] /\ q.free = Append(r.free, v)
      /\ q.bits = m.bits /\ q.stamp = m.stamp
  BY <1>2, <1>3 DEF RuntimeRecord
<1>5. /\ q.slots \in [CompiledVoices -> CompiledSlot]
      /\ \A w \in CompiledVoices : /\ q.slots[w].class = r.slots[w].class
                                   /\ q.slots[w].inst = r.slots[w].inst
                                   /\ w # v => q.slots[w] = r.slots[w]
      /\ q.slots[v].stage = "free"
  <2> DEFINE e == [r.slots[v] EXCEPT !.stage = "free"]
  <2>1. /\ e \in CompiledSlot /\ e.class = r.slots[v].class /\ e.inst = r.slots[v].inst
        /\ e.stage = "free"
    BY <1>1 DEF CompiledSlot
  <2>2. q.slots = [r.slots EXCEPT ![v] = e]
    BY <1>4
  <2> HIDE DEF e
  <2> QED
    BY <1>1, <2>1, <2>2
<1>6. /\ q.free \in Seq(CompiledVoices) /\ Len(q.free) = Len(r.free) + 1 /\ Len(r.free) \in Nat
      /\ \A i \in 1 .. Len(r.free) : q.free[i] = r.free[i]
      /\ q.free[Len(r.free) + 1] = v
  BY <1>1, <1>4, AppendTop
<1>7. q \in RuntimeRecord
  <2>1. q = [slots |-> q.slots, free |-> q.free, bits |-> q.bits, stamp |-> q.stamp]
    BY <1>2, <1>3 DEF RuntimeRecord
  <2> QED
    BY <1>2, <1>4, <1>5, <1>6, <2>1 DEF RuntimeRecord
<1>8. BitsExact(q)
  <2> SUFFICES ASSUME NEW d \in Classes
               PROVE  q.bits[d] = {w \in CompiledVoices :
                                     q.slots[w].stage # "free" /\ q.slots[w].class = d}
    BY DEF BitsExact
  <2>1. r.bits[d] = {w \in CompiledVoices : r.slots[w].stage # "free" /\ r.slots[w].class = d}
    BY DEF BitsExact, RuntimeExact
  <2>2. q.bits[d] = r.bits[d] \ {v}
    BY <1>2, <1>4, <2>1
  <2> QED
    BY <1>5, <2>1, <2>2
<1>9. StackExact(q)
  <2>1. \A i \in 1 .. Len(r.free) : r.free[i] # v /\ r.free[i] \in CompiledVoices
    BY <1>1 DEF RuntimeExact, StackExact
  <2>2. \A i, j \in 1 .. Len(r.free) : r.free[i] = r.free[j] => i = j
    BY DEF RuntimeExact, StackExact
  <2>3. \A i, j \in 1 .. Len(q.free) : q.free[i] = q.free[j] => i = j
    BY <1>6, <2>1, <2>2, SMTT(60)
  <2>4. \A w \in CompiledVoices :
          r.slots[w].stage = "free" <=> \E i \in 1 .. Len(r.free) : r.free[i] = w
    BY DEF RuntimeExact, StackExact
  <2>5. ASSUME NEW w \in CompiledVoices
        PROVE  q.slots[w].stage = "free" <=> \E i \in 1 .. Len(q.free) : q.free[i] = w
    <3>1. CASE w = v
      <4>1. Len(r.free) + 1 \in 1 .. Len(q.free)
        BY <1>6
      <4> QED
        BY <1>5, <1>6, <3>1, <4>1
    <3>2. CASE w # v
      <4>1. (\E i \in 1 .. Len(q.free) : q.free[i] = w)
              <=> \E i \in 1 .. Len(r.free) : r.free[i] = w
        BY <1>6, <3>2
      <4> QED
        BY <1>5, <2>4, <3>2, <4>1
    <3> QED
      BY <3>1, <3>2
  <2> QED
    BY <2>3, <2>5 DEF StackExact
<1>10. ~OpenSlot(q.slots[v])
  BY <1>5 DEF OpenSlot
<1>11. OneNote(q.slots)
  BY <1>5, <1>10 DEF OneNote, RuntimeExact
<1>12. \A cs, inst : OnlyNote(r.slots, cs, inst) => OnlyNote(q.slots, cs, inst)
  BY <1>5, <1>10 DEF OnlyNote
<1> QED
  BY <1>2, <1>4, <1>7, <1>8, <1>9, <1>11, <1>12 DEF RuntimeExact
(* The scan ends at a voice. *)
LEMMA VictimIsVoice ==
  ASSUME NEW r
  PROVE  Victim(r) \in CompiledVoices
<1> DEFINE n == CompiledVoiceCount - 1
           V == [k \in 0 .. n |-> CompiledVoices]
           G == [k \in 1 .. n |-> [x \in CompiledVoices |-> IF Displaces(r, k, x) THEN k ELSE x]]
           Best(f) == f = [v \in 0 .. n |->
                             IF v = 0 THEN 0 ELSE IF Displaces(r, v, f[v - 1]) THEN v ELSE f[v - 1]]
<1>1. n \in Nat /\ CompiledVoices = 0 .. n
  BY CompiledAssumption DEF CompiledVoices
<1> HIDE DEF n
<1>2. PICK f : Runs(f, 0, G, n) /\ \A k \in 0 .. n : f[k] \in V[k]
  <2>1. 0 \in V[0] /\ \A k \in 1 .. n : \A x \in V[k - 1] : G[k][x] \in V[k]
    BY <1>1
  <2> HIDE DEF V, G
  <2> QED
    BY <1>1, <2>1, RunInExists
<1>3. Best(f)
  <2>1. ASSUME NEW k \in 1 .. n
        PROVE  G[k][f[k - 1]] = IF Displaces(r, k, f[k - 1]) THEN k ELSE f[k - 1]
    <3>1. k - 1 \in 0 .. n
      BY <1>1
    <3>2. f[k - 1] \in CompiledVoices
      BY <1>2, <3>1
    <3> QED
      BY <3>2
  <2>2. ASSUME NEW k \in 0 .. n
        PROVE  (IF k = 0 THEN 0 ELSE G[k][f[k - 1]])
                 = IF k = 0 THEN 0 ELSE IF Displaces(r, k, f[k - 1]) THEN k ELSE f[k - 1]
    <3>1. k # 0 => k \in 1 .. n
      BY <1>1
    <3> QED
      BY <2>1, <3>1
  <2> HIDE DEF G
  <2> QED
    BY <1>2, <2>2 DEF Runs
<1> DEFINE best == CHOOSE h : Best(h)
<1>4. Best(best)
  BY <1>3
<1>5. Victim(r) = best[n]
  BY DEF Victim, n
<1> HIDE DEF best
<1>6. \A k \in 0 .. n : best[k] \in V[k]
  <2>1. best[0] \in V[0]
    BY <1>1, <1>4
  <2>2. ASSUME NEW k \in 1 .. n, best[k - 1] \in V[k - 1] PROVE best[k] \in V[k]
    <3>1. k \in 0 .. n /\ k - 1 \in 0 .. n /\ k # 0
      BY <1>1
    <3>2. best[k] = IF Displaces(r, k, best[k - 1]) THEN k ELSE best[k - 1]
      BY <1>4, <3>1
    <3> QED
      BY <1>1, <2>2, <3>1, <3>2
  <2> HIDE DEF V, Best
  <2> QED
    BY <1>1, <2>1, <2>2, RunStaysIn
<1> QED
  BY <1>1, <1>5, <1>6

(* A voice is taken off the stack, or stolen onto it first.  It is free    *)
(* and on the stack no more; everything else is right.                     *)
LEMMA AllocatedVoice ==
  ASSUME NEW r, RuntimeExact(r), NEW a, a = Allocated(r)
  PROVE  /\ a.voice \in CompiledVoices
         /\ a.runtime \in RuntimeRecord /\ a.runtime.stamp = r.stamp
         /\ BitsExact(a.runtime) /\ OneNote(a.runtime.slots)
         /\ a.runtime.slots[a.voice].stage = "free"
         /\ \A i, j \in 1 .. Len(a.runtime.free) :
              a.runtime.free[i] = a.runtime.free[j] => i = j
         /\ \A v \in CompiledVoices :
              (a.runtime.slots[v].stage = "free" /\ v # a.voice)
                <=> \E i \in 1 .. Len(a.runtime.free) : a.runtime.free[i] = v
         /\ \A cs, inst : OnlyNote(r.slots, cs, inst) => OnlyNote(a.runtime.slots, cs, inst)
<1> DEFINE q == IF r.free = << >> THEN Reclaim(r, Victim(r)) ELSE r
<1>1. /\ RuntimeExact(q) /\ q.free # << >> /\ q.stamp = r.stamp
      /\ \A cs, inst : OnlyNote(r.slots, cs, inst) => OnlyNote(q.slots, cs, inst)
  <2>1. CASE r.free # << >>
    BY <2>1
  <2>2. CASE r.free = << >>
    <3>1. Victim(r) \in CompiledVoices
      BY VictimIsVoice
    <3>2. r.slots[Victim(r)].stage # "free"
      <4>1. Len(r.free) = 0
        BY <2>2
      <4> QED
        BY <3>1, <4>1 DEF RuntimeExact, StackExact
    <3>3. r.free \in Seq(CompiledVoices)
      BY DEF RuntimeExact, RuntimeRecord
    <3> DEFINE p == Reclaim(r, Victim(r))
    <3>4. /\ RuntimeExact(p) /\ p.free = Append(r.free, Victim(r)) /\ p.stamp = r.stamp
          /\ \A cs, inst : OnlyNote(r.slots, cs, inst) => OnlyNote(p.slots, cs, inst)
      BY <3>1, <3>2, ReclaimKeeps
    <3>5. p.free # << >>
      BY <3>3, <3>4, <3>1
    <3> QED
      BY <2>2, <3>4, <3>5
  <2> QED
    BY <2>1, <2>2
<1>2. a = [runtime |-> [q EXCEPT !.free = Front(@)], voice |-> Last(q.free)]
  BY DEF Allocated
<1> HIDE DEF q
<1>3. /\ q \in RuntimeRecord /\ q.free \in Seq(CompiledVoices)
      /\ q.slots \in [CompiledVoices -> CompiledSlot]
  BY <1>1 DEF RuntimeExact, RuntimeRecord
<1> DEFINE n == Len(q.free)
<1>4. /\ n \in Nat \ {0} /\ Front(q.free) \in Seq(CompiledVoices)
      /\ Len(Front(q.free)) = n - 1
      /\ \A i \in 1 .. (n - 1) : Front(q.free)[i] = q.free[i]
      /\ Last(q.free) = q.free[n] /\ Last(q.free) \in CompiledVoices
  BY <1>1, <1>3, FrontLast
<1>5. /\ a.voice = q.free[n] /\ a.voice \in CompiledVoices
      /\ a.runtime = [q EXCEPT !.free = Front(q.free)]
  BY <1>2, <1>4
<1>6. /\ a.runtime \in RuntimeRecord /\ a.runtime.slots = q.slots /\ a.runtime.bits = q.bits
      /\ a.runtime.stamp = q.stamp /\ a.runtime.free = Front(q.free)
  BY <1>3, <1>4, <1>5 DEF RuntimeRecord
<1>7. BitsExact(a.runtime) /\ OneNote(a.runtime.slots)
  BY <1>1, <1>6 DEF RuntimeExact, BitsExact
<1>8. /\ \A i, j \in 1 .. n : q.free[i] = q.free[j] => i = j
      /\ \A v \in CompiledVoices : q.slots[v].stage = "free" <=> \E i \in 1 .. n : q.free[i] = v
  BY <1>1 DEF RuntimeExact, StackExact
<1>9. a.runtime.slots[a.voice].stage = "free"
  BY <1>4, <1>5, <1>6, <1>8
<1>10. /\ Len(a.runtime.free) = n - 1
       /\ \A i \in 1 .. (n - 1) : a.runtime.free[i] = q.free[i]
  BY <1>4, <1>6
<1>11. \A i, j \in 1 .. Len(a.runtime.free) : a.runtime.free[i] = a.runtime.free[j] => i = j
  <2>1. \A i \in 1 .. (n - 1) : i \in 1 .. n
    BY <1>4
  <2> QED
    BY <1>8, <1>10, <2>1
<1>12. ASSUME NEW v \in CompiledVoices
       PROVE  (a.runtime.slots[v].stage = "free" /\ v # a.voice)
                <=> \E i \in 1 .. Len(a.runtime.free) : a.runtime.free[i] = v
  <2>1. (\E i \in 1 .. n : q.free[i] = v) <=> (v = q.free[n] \/ \E i \in 1 .. (n - 1) : q.free[i] = v)
    BY <1>4
  <2>2. \A i \in 1 .. (n - 1) : q.free[i] # q.free[n]
    BY <1>4, <1>8
  <2> QED
    BY <1>5, <1>6, <1>8, <1>10, <2>1, <2>2
<1> QED
  BY <1>1, <1>5, <1>6, <1>7, <1>9, <1>11, <1>12
(* One layer starts, and stays alone with its note in its class. *)
LEMMA StartZoneKeeps ==
  ASSUME NEW r, RuntimeExact(r), NEW class \in {0} \cup Classes, NEW n \in CompiledNotes,
         NEW inst \in Nat, NEW cs, OnlyNote(r.slots, cs, inst), class # 0 => class \in cs,
         controls \in {0, 1}, NEW q, q = StartZone(r, class, n, inst)
  PROVE  RuntimeExact(q) /\ OnlyNote(q.slots, cs, inst)
<1> DEFINE a == Allocated(r)
           v == a.voice
           b == a.runtime
           new == [stage |-> "active", note |-> n, class |-> class, gen |-> b.slots[v].gen + 1,
                   inst |-> inst, stamp |-> r.stamp + 1, sent |-> controls]
           m == [b EXCEPT !.stamp = @ + 1, !.slots[v] = new]
<1>1. /\ v \in CompiledVoices /\ b \in RuntimeRecord /\ b.stamp = r.stamp
      /\ BitsExact(b) /\ OneNote(b.slots) /\ b.slots[v].stage = "free"
      /\ \A i, j \in 1 .. Len(b.free) : b.free[i] = b.free[j] => i = j
      /\ \A w \in CompiledVoices :
           (b.slots[w].stage = "free" /\ w # v) <=> \E i \in 1 .. Len(b.free) : b.free[i] = w
      /\ OnlyNote(b.slots, cs, inst)
  BY AllocatedVoice
<1>2. q = MarkExclusive(m, v, TRUE)
  BY DEF StartZone
<1>3. 0 \notin Classes
  BY ClassesNonzero
<1> HIDE DEF a, v, b
<1>4. /\ b.slots \in [CompiledVoices -> CompiledSlot] /\ b.free \in Seq(CompiledVoices)
      /\ b.bits \in [Classes -> SUBSET CompiledVoices] /\ b.stamp \in Nat
  BY <1>1 DEF RuntimeRecord
<1>5. new \in CompiledSlot /\ new.stage = "active" /\ new.class = class /\ new.inst = inst
  <2>1. b.slots[v].gen \in Nat
    <3>1. b.slots[v] \in CompiledSlot
      BY <1>1, <1>4
    <3> QED
      BY <3>1 DEF CompiledSlot
  <2> QED
    BY <1>1, <1>4, <2>1 DEF CompiledSlot
<1> HIDE DEF new
<1>6. /\ m \in RuntimeRecord /\ m.slots = [b.slots EXCEPT ![v] = new]
      /\ m.free = b.free /\ m.bits = b.bits
  <2>1. /\ m.slots = [b.slots EXCEPT ![v] = new] /\ m.free = b.free /\ m.bits = b.bits
        /\ m.stamp = b.stamp + 1
    BY <1>1 DEF RuntimeRecord
  <2>2. m = [slots |-> m.slots, free |-> m.free, bits |-> m.bits, stamp |-> m.stamp]
    <3> DEFINE p == [b EXCEPT !.stamp = @ + 1]
    <3>1. p = [slots |-> p.slots, free |-> p.free, bits |-> p.bits, stamp |-> p.stamp]
      BY <1>1 DEF RuntimeRecord
    <3>2. m = [p EXCEPT !.slots[v] = new]
      OBVIOUS
    <3> HIDE DEF p, m
    <3> QED
      BY <3>1, <3>2
  <2>3. m.slots \in [CompiledVoices -> CompiledSlot] /\ m.stamp \in Nat
    BY <1>1, <1>4, <1>5, <2>1
  <2> HIDE DEF m
  <2> QED
    BY <1>4, <2>1, <2>2, <2>3 DEF RuntimeRecord
<1> HIDE DEF m
<1>7. /\ m.slots \in [CompiledVoices -> CompiledSlot] /\ m.slots[v] = new
      /\ \A w \in CompiledVoices : w # v => m.slots[w] = b.slots[w]
  BY <1>1, <1>4, <1>5, <1>6
<1>8. /\ q \in RuntimeRecord /\ q.slots = m.slots /\ q.free = m.free
      /\ \A d \in Classes : q.bits[d] = IF d = class THEN b.bits[d] \cup {v} ELSE b.bits[d]
  <2>1. m.slots[v].class = class /\ m.bits \in [Classes -> SUBSET CompiledVoices]
    BY <1>4, <1>5, <1>6, <1>7
  <2>2. CASE class = 0
    BY <1>2, <1>3, <1>6, <2>1, <2>2 DEF MarkExclusive
  <2>3. CASE class # 0
    <3>1. q = [m EXCEPT !.bits[class] = @ \cup {v}] /\ class \in Classes
      BY <1>2, <2>1, <2>3 DEF MarkExclusive
    <3>2. q.slots = m.slots /\ q.free = m.free /\ q.stamp = m.stamp
          /\ q.bits = [m.bits EXCEPT ![class] = @ \cup {v}]
      BY <1>6, <3>1 DEF RuntimeRecord
    <3>3. q = [slots |-> q.slots, free |-> q.free, bits |-> q.bits, stamp |-> q.stamp]
      BY <1>6, <3>1 DEF RuntimeRecord
    <3>4. /\ q.bits \in [Classes -> SUBSET CompiledVoices]
          /\ \A d \in Classes : q.bits[d] = IF d = class THEN b.bits[d] \cup {v} ELSE b.bits[d]
      <4> DEFINE x == m.bits[class] \cup {v}
      <4>1. x \in SUBSET CompiledVoices /\ x = b.bits[class] \cup {v}
        BY <1>1, <1>6, <2>1, <3>1
      <4>2. q.bits = [m.bits EXCEPT ![class] = x]
        BY <3>2
      <4> HIDE DEF x
      <4> QED
        BY <1>6, <2>1, <3>1, <4>1, <4>2
    <3>5. m.slots \in [CompiledVoices -> CompiledSlot] /\ m.free \in Seq(CompiledVoices)
          /\ m.stamp \in Nat
      BY <1>6 DEF RuntimeRecord
    <3> QED
      BY <3>2, <3>3, <3>4, <3>5 DEF RuntimeRecord
  <2> QED
    BY <2>2, <2>3
<1>9. BitsExact(q)
  <2> SUFFICES ASSUME NEW d \in Classes
               PROVE  q.bits[d] = {w \in CompiledVoices :
                                     q.slots[w].stage # "free" /\ q.slots[w].class = d}
    BY DEF BitsExact
  <2>1. b.bits[d] = {w \in CompiledVoices : b.slots[w].stage # "free" /\ b.slots[w].class = d}
    BY <1>1 DEF BitsExact
  <2> QED
    <3>1. q.bits[d] = IF d = class THEN b.bits[d] \cup {v} ELSE b.bits[d]
      BY <1>8
    <3>2. ASSUME NEW w \in CompiledVoices
          PROVE  w \in q.bits[d] <=> (q.slots[w].stage # "free" /\ q.slots[w].class = d)
      <4>1. CASE w = v
        BY <1>1, <1>5, <1>7, <1>8, <2>1, <3>1, <4>1
      <4>2. CASE w # v
        BY <1>7, <1>8, <2>1, <3>1, <4>2
      <4> QED
        BY <4>1, <4>2
    <3>3. q.bits[d] \subseteq CompiledVoices
      BY <1>1, <2>1, <3>1
    <3> QED
      BY <3>2, <3>3
<1>10. StackExact(q)
  <2>1. \A i, j \in 1 .. Len(q.free) : q.free[i] = q.free[j] => i = j
    BY <1>1, <1>6, <1>8
  <2>2. ASSUME NEW w \in CompiledVoices
        PROVE  q.slots[w].stage = "free" <=> (b.slots[w].stage = "free" /\ w # v)
    BY <1>5, <1>7, <1>8
  <2> QED
    BY <1>1, <1>6, <1>8, <2>1, <2>2 DEF StackExact
<1>11. OnlyNote(q.slots, cs, inst)
  BY <1>1, <1>5, <1>7, <1>8 DEF OnlyNote
<1>12. OneNote(q.slots)
  <2> SUFFICES ASSUME NEW x \in CompiledVoices, NEW y \in CompiledVoices,
                      OpenSlot(q.slots[x]), OpenSlot(q.slots[y]), q.slots[x].class # 0,
                      q.slots[x].class = q.slots[y].class
               PROVE  q.slots[x].inst = q.slots[y].inst
    BY DEF OneNote
  <2>1. CASE x = v \/ y = v
    <3>1. q.slots[x].class \in cs /\ q.slots[y].class \in cs
      BY <1>5, <1>7, <1>8, <2>1
    <3> QED
      BY <1>11, <3>1 DEF OnlyNote
  <2>2. CASE x # v /\ y # v
    BY <1>1, <1>7, <1>8, <2>2 DEF OneNote
  <2> QED
    BY <2>1, <2>2
<1> QED
  BY <1>8, <1>9, <1>10, <1>11, <1>12 DEF RuntimeExact

(* So do all layers of a note. *)
LEMMA StartZonesKeeps ==
  ASSUME NEW r, RuntimeExact(r), NEW n \in CompiledNotes, NEW inst \in Nat,
         OnlyNote(r.slots, Range(ZoneClasses[n]) \ {0}, inst), controls \in {0, 1}
  PROVE  RuntimeExact(StartZones(r, ZoneClasses[n], n, inst))
<1> DEFINE classes == ZoneClasses[n]
           cs == Range(classes) \ {0}
           m == Len(classes)
           W == {x \in RuntimeRecord : RuntimeExact(x) /\ OnlyNote(x.slots, cs, inst)}
           V == [k \in 0 .. m |-> W]
           G == [k \in 1 .. m |-> [x \in W |-> StartZone(x, classes[k], n, inst)]]
           After(f) == f = [k \in 0 .. m |->
                              IF k = 0 THEN r ELSE StartZone(f[k - 1], classes[k], n, inst)]
<1>1. /\ m \in Nat
      /\ \A k \in 1 .. m : classes[k] \in {0} \cup Classes /\ (classes[k] # 0 => classes[k] \in cs)
  BY ZoneClassesTyped
<1> HIDE DEF m
<1>2. ASSUME NEW x \in W, NEW k \in 1 .. m
      PROVE  StartZone(x, classes[k], n, inst) \in W
  <2> DEFINE c == classes[k]
             q == StartZone(x, c, n, inst)
  <2>1. c \in {0} \cup Classes /\ (c # 0 => c \in cs)
    BY <1>1
  <2> HIDE DEF c, classes, cs
  <2>2. RuntimeExact(q) /\ OnlyNote(q.slots, cs, inst)
    BY <2>1, StartZoneKeeps
  <2> QED
    BY <2>2 DEF RuntimeExact, c
<1>3. r \in W
  BY DEF RuntimeExact
<1> HIDE DEF W
<1>4. PICK f : Runs(f, r, G, m) /\ \A k \in 0 .. m : f[k] \in V[k]
  <2>1. r \in V[0] /\ \A k \in 1 .. m : \A x \in V[k - 1] : G[k][x] \in V[k]
    <3>1. \A k \in 1 .. m : k \in 0 .. m /\ k - 1 \in 0 .. m
      BY <1>1
    <3> QED
      BY <1>1, <1>2, <1>3, <3>1
  <2> HIDE DEF V, G
  <2> QED
    BY <1>1, <2>1, RunInExists
<1>5. After(f)
  <2>1. ASSUME NEW k \in 0 .. m
        PROVE  (IF k = 0 THEN r ELSE G[k][f[k - 1]])
                 = IF k = 0 THEN r ELSE StartZone(f[k - 1], classes[k], n, inst)
    <3>1. k # 0 => k \in 1 .. m /\ k - 1 \in 0 .. m
      BY <1>1
    <3>2. k # 0 => f[k - 1] \in W
      BY <1>4, <3>1
    <3> QED
      BY <3>1, <3>2
  <2> HIDE DEF G
  <2> QED
    BY <1>4, <2>1 DEF Runs
<1> DEFINE after == CHOOSE g : After(g)
<1>6. After(after)
  BY <1>5
<1>7. StartZones(r, classes, n, inst) = after[m]
  BY DEF StartZones, m
<1> HIDE DEF after
<1>8. \A k \in 0 .. m : after[k] \in V[k]
  <2>1. after[0] \in V[0]
    BY <1>1, <1>3, <1>6
  <2>2. ASSUME NEW k \in 1 .. m, after[k - 1] \in V[k - 1] PROVE after[k] \in V[k]
    <3>1. k \in 0 .. m /\ k - 1 \in 0 .. m /\ k # 0
      BY <1>1
    <3>2. after[k] = StartZone(after[k - 1], classes[k], n, inst)
      BY <1>6, <3>1
    <3> QED
      BY <1>2, <2>2, <3>1, <3>2
  <2> HIDE DEF V, After
  <2> QED
    BY <1>1, <2>1, <2>2, RunStaysIn
<1>9. after[m] \in W
  BY <1>1, <1>8
<1> QED
  BY <1>7, <1>9 DEF W
(* A loop over voices that changes stages as the invariant allows. *)
LEMMA LoopKeeps ==
  ASSUME CompiledInv, NEW new \in [CompiledVoices -> CompiledSlot],
         \A v \in CompiledVoices :
           /\ new[v].class = slots[v].class /\ new[v].inst = slots[v].inst
           /\ new[v].stage = "free" <=> slots[v].stage = "free"
           /\ OpenSlot(new[v]) => OpenSlot(slots[v]),
         slots' = new, UNCHANGED <<freeStack, exclusive, stamps>>
  PROVE  RuntimeExact(Runtime)'
<1>1. /\ Runtime.slots = slots /\ Runtime.free = freeStack /\ Runtime.bits = exclusive
      /\ Runtime.stamp = stamps
      /\ Runtime'.slots = new /\ Runtime'.free = freeStack /\ Runtime'.bits = exclusive
      /\ Runtime'.stamp = stamps
  BY DEF Runtime
<1>2. Runtime' \in RuntimeRecord
  <2>1. /\ freeStack \in Seq(CompiledVoices) /\ exclusive \in [Classes -> SUBSET CompiledVoices]
        /\ stamps \in Nat
    BY <1>1 DEF CompiledInv, RuntimeExact, RuntimeRecord
  <2> QED
    BY <2>1 DEF RuntimeRecord, Runtime
<1>3. BitsExact(Runtime')
  BY <1>1 DEF CompiledInv, RuntimeExact, BitsExact
<1>4. StackExact(Runtime')
  BY <1>1 DEF CompiledInv, RuntimeExact, StackExact
<1>5. OneNote(Runtime'.slots)
  BY <1>1 DEF CompiledInv, RuntimeExact, OneNote
<1>6. RuntimeExact(Runtime')
  BY <1>2, <1>3, <1>4, <1>5 DEF RuntimeExact
<1> QED
  BY <1>6 DEF RuntimeExact, RuntimeRecord, BitsExact, StackExact, OneNote, CompiledSlot, OpenSlot
(* What the loops make of a slot. *)
LEMMA SlotChanges ==
  ASSUME NEW s \in CompiledSlot
  PROVE  /\ ReleaseSlot(s) \in CompiledSlot /\ ReleaseSlot(s).class = s.class
         /\ ReleaseSlot(s).inst = s.inst /\ (ReleaseSlot(s).stage = "free" <=> s.stage = "free")
         /\ ~OpenSlot(ReleaseSlot(s))
         /\ StopSlot(s) \in CompiledSlot /\ StopSlot(s).class = s.class
         /\ StopSlot(s).inst = s.inst /\ (StopSlot(s).stage = "free" <=> s.stage = "free")
         /\ ~OpenSlot(StopSlot(s))
         /\ HoldSlot(s) \in CompiledSlot /\ HoldSlot(s).class = s.class
         /\ HoldSlot(s).inst = s.inst /\ HoldSlot(s).stage = "held"
<1>1. /\ ReleaseSlot(s) \in CompiledSlot /\ ReleaseSlot(s).class = s.class
      /\ ReleaseSlot(s).inst = s.inst
      /\ ReleaseSlot(s).stage = IF s.stage = "free" THEN "free" ELSE "released"
  BY DEF ReleaseSlot, CompiledSlot
<1>2. /\ StopSlot(s) \in CompiledSlot /\ StopSlot(s).class = s.class /\ StopSlot(s).inst = s.inst
      /\ StopSlot(s).stage = IF s.stage = "free" THEN "free" ELSE "released"
  BY DEF StopSlot, CompiledSlot
<1>3. /\ HoldSlot(s) \in CompiledSlot /\ HoldSlot(s).class = s.class /\ HoldSlot(s).inst = s.inst
      /\ HoldSlot(s).stage = "held"
  BY DEF HoldSlot, CompiledSlot
<1> QED
  BY <1>1, <1>2, <1>3 DEF OpenSlot

(* After the classes are hushed nothing of them sounds on. *)
LEMMA NoteOnKeeps ==
  ASSUME CompiledInv, NEW n \in CompiledNotes, CompiledNoteOn(n)
  PROVE  CompiledInv'
<1> DEFINE cs == Range(ZoneClasses[n]) \ {0}
           hushed == [Runtime EXCEPT !.slots = ReleaseClasses(cs)]
           new == ReleaseClasses(cs)
           inst == noteCount + 1
           q == StartZones(hushed, ZoneClasses[n], n, inst)
<1>1. /\ Runtime.slots = slots /\ Runtime.free = freeStack /\ Runtime.bits = exclusive
      /\ Runtime.stamp = stamps
      /\ hushed.slots = new /\ hushed.free = freeStack /\ hushed.bits = exclusive
      /\ hushed.stamp = stamps
      /\ hushed = [slots |-> new, free |-> freeStack, bits |-> exclusive, stamp |-> stamps]
  BY DEF Runtime
<1>2. /\ slots \in [CompiledVoices -> CompiledSlot] /\ freeStack \in Seq(CompiledVoices)
      /\ exclusive \in [Classes -> SUBSET CompiledVoices] /\ stamps \in Nat /\ inst \in Nat
      /\ controls \in {0, 1}
  BY <1>1 DEF CompiledInv, RuntimeExact, RuntimeRecord
<1>3. /\ new \in [CompiledVoices -> CompiledSlot]
      /\ \A v \in CompiledVoices :
           /\ new[v].class = slots[v].class /\ new[v].inst = slots[v].inst
           /\ new[v].stage = "free" <=> slots[v].stage = "free"
           /\ OpenSlot(new[v]) => OpenSlot(slots[v])
      /\ \A v \in CompiledVoices, c \in cs : v \in exclusive[c] => ~OpenSlot(new[v])
  <2> DEFINE vs == UNION {exclusive[c] : c \in cs}
  <2>1. new = [v \in CompiledVoices |-> IF v \in vs THEN ReleaseSlot(slots[v]) ELSE slots[v]]
    BY DEF ReleaseClasses, ForSlots
  <2>2. \A c \in cs : exclusive[c] \subseteq vs
    OBVIOUS
  <2>3. \A v \in CompiledVoices : slots[v] \in CompiledSlot
    BY <1>2
  <2> HIDE DEF vs, new, cs
  <2> QED
    BY <2>1, <2>2, <2>3, SlotChanges
<1>4. RuntimeExact(hushed)
  <2> HIDE DEF new
  <2>1. hushed \in RuntimeRecord
    BY <1>1, <1>2, <1>3 DEF RuntimeRecord
  <2> HIDE DEF hushed
  <2>2. BitsExact(hushed)
    BY <1>1, <1>3 DEF CompiledInv, RuntimeExact, BitsExact
  <2>3. StackExact(hushed)
    BY <1>1, <1>3 DEF CompiledInv, RuntimeExact, StackExact
  <2>4. OneNote(hushed.slots)
    BY <1>1, <1>3 DEF CompiledInv, RuntimeExact, OneNote
  <2> QED
    BY <2>1, <2>2, <2>3, <2>4 DEF RuntimeExact
<1>5. OnlyNote(hushed.slots, cs, inst)
  <2> HIDE DEF new
  <2> SUFFICES ASSUME NEW v \in CompiledVoices, OpenSlot(new[v]), new[v].class \in cs
               PROVE  FALSE
    BY <1>1 DEF OnlyNote
  <2> DEFINE c == slots[v].class
  <2>1. c \in cs /\ c \in Classes
    BY <1>3, ClassesNonzero
  <2>2. slots[v].stage # "free"
    BY <1>3 DEF OpenSlot
  <2>3. v \in exclusive[c]
    BY <1>1, <2>1, <2>2 DEF CompiledInv, RuntimeExact, BitsExact
  <2> QED
    BY <1>3, <2>1, <2>3
<1> HIDE DEF hushed
<1>6. RuntimeExact(q)
  <2> HIDE DEF inst
  <2> QED
    BY <1>2, <1>4, <1>5, StartZonesKeeps
<1>7. Assigned(q) /\ noteCount' = inst /\ controls' = controls
  BY DEF CompiledNoteOn, hushed
<1> HIDE DEF q
<1>8. Runtime' = q
  <2>1. q = [slots |-> q.slots, free |-> q.free, bits |-> q.bits, stamp |-> q.stamp]
    BY <1>6 DEF RuntimeExact, RuntimeRecord
  <2> QED
    BY <1>7, <2>1 DEF Assigned, Runtime
<1>9. RuntimeExact(Runtime')
  BY <1>6, <1>8
<1>10. RuntimeExact(Runtime)'
  BY <1>9 DEF RuntimeExact, RuntimeRecord, BitsExact, StackExact, OneNote, CompiledSlot, OpenSlot
<1> QED
  BY <1>2, <1>7, <1>10 DEF CompiledInv

(* A completion. *)
LEMMA CompleteKeeps ==
  ASSUME CompiledInv, NEW v \in CompiledVoices, CompiledComplete(v)
  PROVE  CompiledInv'
<1> DEFINE q == Reclaim(Runtime, v)
<1>1. Runtime.slots = slots
  BY DEF Runtime
<1>2. RuntimeExact(q)
  BY <1>1, ReclaimKeeps DEF CompiledInv, CompiledComplete
<1>3. Assigned(q) /\ UNCHANGED <<controls, noteCount>>
  BY DEF CompiledComplete
<1> HIDE DEF q
<1>4. Runtime' = q
  <2>1. q = [slots |-> q.slots, free |-> q.free, bits |-> q.bits, stamp |-> q.stamp]
    BY <1>2 DEF RuntimeExact, RuntimeRecord
  <2> QED
    BY <1>3, <2>1 DEF Assigned, Runtime
<1>5. RuntimeExact(Runtime')
  BY <1>2, <1>4
<1>6. RuntimeExact(Runtime)'
  BY <1>5 DEF RuntimeExact, RuntimeRecord, BitsExact, StackExact, OneNote, CompiledSlot, OpenSlot
<1> QED
  BY <1>3, <1>6 DEF CompiledInv

(* The other actions are loops over the voices. *)
LEMMA CompiledLoopsKeep ==
  ASSUME CompiledInv,
         \/ \E n \in CompiledNotes : CompiledNoteOff(n)
         \/ \E down \in BOOLEAN : CompiledSustain(down)
         \/ \E value \in {0, 1} : CompiledControl(value)
         \/ CompiledSoundOff
  PROVE  CompiledInv'
<1>1. slots \in [CompiledVoices -> CompiledSlot]
  BY DEF CompiledInv, RuntimeExact, RuntimeRecord, Runtime
<1>2. \A v \in CompiledVoices : slots[v] \in CompiledSlot
  BY <1>1
<1>3. UNCHANGED <<freeStack, exclusive, stamps, noteCount>> /\ controls' \in {0, 1}
  BY DEF CompiledNoteOff, CompiledSustain, CompiledControl, CompiledSoundOff, CompiledInv
<1>4. /\ slots' \in [CompiledVoices -> CompiledSlot]
      /\ \A v \in CompiledVoices :
           /\ slots'[v].class = slots[v].class /\ slots'[v].inst = slots[v].inst
           /\ slots'[v].stage = "free" <=> slots[v].stage = "free"
           /\ OpenSlot(slots'[v]) => OpenSlot(slots[v])
  <2>1. CASE \E n \in CompiledNotes : CompiledNoteOff(n)
    <3>1. PICK n \in CompiledNotes : CompiledNoteOff(n)
      BY <2>1
    <3> DEFINE down == {v \in CompiledVoices : slots[v].stage = "active" /\ slots[v].note = n}
               oldest == {v \in down : \A w \in down : slots[v].inst <= slots[w].inst}
    <3>2. \A v \in oldest : slots[v].stage = "active"
      OBVIOUS
    <3>3. slots' = IF pedal THEN ForSlots(oldest, HoldSlot) ELSE ForSlots(oldest, ReleaseSlot)
      BY <3>1 DEF CompiledNoteOff
    <3> HIDE DEF oldest
    <3>4. CASE pedal
      <4>1. slots' = [v \in CompiledVoices |-> IF v \in oldest THEN HoldSlot(slots[v]) ELSE slots[v]]
        BY <3>3, <3>4 DEF ForSlots
      <4> QED
        BY <1>1, <1>2, <3>2, <4>1, SlotChanges DEF OpenSlot
    <3>5. CASE ~pedal
      <4>1. slots' = [v \in CompiledVoices |-> IF v \in oldest THEN ReleaseSlot(slots[v]) ELSE slots[v]]
        BY <3>3, <3>5 DEF ForSlots
      <4> QED
        BY <1>1, <1>2, <4>1, SlotChanges
    <3> QED
      BY <3>4, <3>5
  <2>2. CASE \E down \in BOOLEAN : CompiledSustain(down)
    <3>1. PICK down \in BOOLEAN : CompiledSustain(down)
      BY <2>2
    <3> DEFINE vs == {v \in CompiledVoices : slots[v].stage = "held"}
    <3>2. \/ slots' = slots
          \/ slots' = [v \in CompiledVoices |-> IF v \in vs THEN ReleaseSlot(slots[v]) ELSE slots[v]]
      BY <3>1 DEF CompiledSustain, ForSlots
    <3> HIDE DEF vs
    <3>3. CASE slots' = slots
      BY <1>1, <3>3
    <3>4. CASE slots' = [v \in CompiledVoices |->
                           IF v \in vs THEN ReleaseSlot(slots[v]) ELSE slots[v]]
      BY <1>1, <1>2, <3>4, SlotChanges
    <3> QED
      BY <3>2, <3>3, <3>4
  <2>3. CASE \E value \in {0, 1} : CompiledControl(value)
    <3>1. PICK value \in {0, 1} : CompiledControl(value)
      BY <2>3
    <3>2. slots' = [v \in CompiledVoices |-> IF slots[v].stage = "free" THEN slots[v]
                                             ELSE [slots[v] EXCEPT !.sent = value]]
      BY <3>1 DEF CompiledControl
    <3>3. \A v \in CompiledVoices :
            LET t == [slots[v] EXCEPT !.sent = value]
            IN t \in CompiledSlot /\ t.class = slots[v].class /\ t.inst = slots[v].inst
               /\ t.stage = slots[v].stage
      BY <1>2 DEF CompiledSlot
    <3> QED
      BY <1>1, <1>2, <3>2, <3>3 DEF OpenSlot
  <2>4. CASE CompiledSoundOff
    <3>1. slots' = [v \in CompiledVoices |-> IF v \in CompiledVoices THEN StopSlot(slots[v]) ELSE slots[v]]
      BY <2>4 DEF CompiledSoundOff, ForSlots
    <3> QED
      BY <1>1, <1>2, <3>1, SlotChanges
  <2> QED
    BY <2>1, <2>2, <2>3, <2>4
<1>5. RuntimeExact(Runtime)'
  BY <1>3, <1>4, LoopKeeps
<1> QED
  BY <1>3, <1>5 DEF CompiledInv
(* Initially every voice is on the stack. *)
LEMMA CompiledInitInv == CompiledInit => CompiledInv
<1> SUFFICES ASSUME CompiledInit PROVE CompiledInv
  OBVIOUS
<1> DEFINE N == CompiledVoiceCount
<1>1. N \in Nat /\ N > 0 /\ CompiledVoices = 0 .. (N - 1)
  BY CompiledAssumption DEF CompiledVoices
<1>2. /\ freeStack = [i \in 1 .. N |-> N - i] /\ slots = [v \in CompiledVoices |-> FreeSlot]
      /\ exclusive = [c \in Classes |-> {}] /\ stamps = 0 /\ controls = 0 /\ noteCount = 0
  BY DEF CompiledInit
<1> HIDE DEF N
<1>3. /\ freeStack \in Seq(CompiledVoices) /\ Len(freeStack) = N
      /\ \A i \in 1 .. N : freeStack[i] = N - i
  <2>1. \A i \in 1 .. N : N - i \in CompiledVoices
    BY <1>1
  <2> QED
    BY <1>1, <1>2, <2>1, ST!IsASeq
<1>4. FreeSlot \in CompiledSlot /\ FreeSlot.stage = "free"
  BY DEF FreeSlot, CompiledSlot
<1>5. /\ Runtime = [slots |-> slots, free |-> freeStack, bits |-> exclusive, stamp |-> stamps]
      /\ Runtime.slots = slots /\ Runtime.free = freeStack /\ Runtime.bits = exclusive
  BY DEF Runtime
<1>6. Runtime \in RuntimeRecord
  <2>1. /\ slots \in [CompiledVoices -> CompiledSlot]
        /\ exclusive \in [Classes -> SUBSET CompiledVoices] /\ stamps \in Nat
    BY <1>2, <1>4
  <2> QED
    BY <1>3, <1>5, <2>1 DEF RuntimeRecord
<1>7. BitsExact(Runtime)
  BY <1>2, <1>4, <1>5 DEF BitsExact
<1>8. StackExact(Runtime)
  <2>1. \A i, j \in 1 .. N : freeStack[i] = freeStack[j] => i = j
    BY <1>1, <1>3
  <2>2. ASSUME NEW v \in CompiledVoices PROVE \E i \in 1 .. N : freeStack[i] = v
    <3>1. N - v \in 1 .. N /\ N - (N - v) = v
      BY <1>1
    <3> QED
      BY <1>3, <3>1
  <2>3. \A v \in CompiledVoices : slots[v].stage = "free"
    BY <1>2, <1>4
  <2> QED
    BY <1>3, <1>5, <2>1, <2>2, <2>3 DEF StackExact
<1>9. OneNote(Runtime.slots)
  BY <1>2, <1>4, <1>5 DEF OneNote, OpenSlot
<1> QED
  BY <1>2, <1>6, <1>7, <1>8, <1>9 DEF CompiledInv, RuntimeExact

(* The bitmaps of the compiled runtime follow its voices, the stack holds  *)
(* the free ones once, and of an exclusive class only the latest note      *)
(* sounds on, for every number of voices and every set of zones.           *)
THEOREM BitmapsFollowVoices == CompiledSpec => []ExclusiveIndexExact
<1>1. CompiledInv /\ [CompiledNext]_compiledVars => CompiledInv'
  <2> SUFFICES ASSUME CompiledInv, [CompiledNext]_compiledVars PROVE CompiledInv'
    OBVIOUS
  <2>1. CASE \E n \in CompiledNotes : CompiledNoteOn(n)
    BY <2>1, NoteOnKeeps
  <2>2. CASE \E v \in CompiledVoices : CompiledComplete(v)
    BY <2>2, CompleteKeeps
  <2>3. CASE UNCHANGED compiledVars
    BY <2>3 DEF compiledVars, CompiledInv, Runtime, RuntimeExact, RuntimeRecord, BitsExact,
                StackExact, OneNote, CompiledSlot, OpenSlot
  <2> QED
    BY <2>1, <2>2, <2>3, CompiledLoopsKeep DEF CompiledNext
<1> QED
  BY <1>1, CompiledInitInv, CompiledInvGives, PTL DEF CompiledSpec

-----------------------------------------------------------------------------
(* ModulationClock: the voice, sounding and released. *)

(* The stages before the release, and the type of a voice in them. *)
Moving == {"delay", "attack", "hold", "decay", "sustain"}
Levels == 0 .. Full
Moves == [level : Levels, lfo : [on : BOOLEAN, phase : Nat]]
Published == [Groups -> Moves]
Clocks(stages) ==
  [stage : stages, tick : Nat, wait : Nat, level : Levels, from : Levels, phase : Nat,
   lfoWait : Nat, published : Published]
Live == Clocks(Moving)
Released == Clocks({"release"})

(* A gain or a pitch that is not periodic is computed from nothing that    *)
(* moves.                                                                  *)
Quiet(v, c) == \A g \in {"gain", "pitch"} : g \notin c.periodic => v.published[g] = Still

(* FoldIsReplay with the types it needs. *)
ModulationInv ==
  /\ config \in Configs
  /\ ~fault =>
       /\ \/ /\ folded \in Live /\ ticked \in Live
             /\ Quiet(folded, config) /\ Quiet(ticked, config)
          \/ folded \in Released /\ ticked \in Released
       /\ FoldIsReplay

-----------------------------------------------------------------------------
(* ModulationClock: levels. *)

(* C's division of a number by a positive one. *)
LEMMA QuotientType ==
  ASSUME NEW a \in Int, NEW b \in Nat \ {0}
  PROVE  /\ Quotient(a, b) \in Int
         /\ a < b => Quotient(a, b) <= 0
<1>1. a = b * (a \div b) + (a % b) /\ a \div b \in Int /\ a % b \in 0 .. (b - 1)
  BY DivMod
<1>2. /\ (-a) \div b \in Int /\ -a = b * ((-a) \div b) + ((-a) % b)
      /\ (-a) % b \in 0 .. (b - 1)
  <2>1. -a \in Int
    OBVIOUS
  <2> QED
    BY <2>1, DivMod
<1>3. Quotient(a, b) \in Int
  BY <1>1, <1>2 DEF Quotient
<1>4. ASSUME a < b, a >= 0 PROVE a \div b = 0
  <2>1. a \in 0 .. (b - 1) /\ a = b * 0 + a
    BY <1>4
  <2> DEFINE q == a \div b
             r == a % b
  <2>2. q \in Int /\ r \in 0 .. (b - 1) /\ a = b * q + r /\ b \in Nat /\ b > 0
    BY <1>1
  <2> HIDE DEF q, r
  <2>3. q <= 0
    <3> SUFFICES ASSUME q >= 1 PROVE FALSE
      BY <2>2
    <3>1. b * q >= b
      BY <2>2, Z3
    <3> QED
      BY <1>4, <2>2, <3>1
  <2>4. q >= 0
    <3> SUFFICES ASSUME q <= -1 PROVE FALSE
      BY <2>2
    <3>1. b * q <= -b
      BY <2>2, Z3
    <3> QED
      BY <1>4, <2>2, <3>1
  <2>5. q = 0
    BY <2>2, <2>3, <2>4
  <2> QED
    BY <2>5 DEF q
<1>5. ASSUME a < 0 PROVE (-a) \div b >= 0
  <2> DEFINE q == (-a) \div b
             r == (-a) % b
  <2>1. q \in Int /\ r \in 0 .. (b - 1) /\ -a = b * q + r /\ b \in Nat /\ b > 0
    BY <1>2
  <2> HIDE DEF q, r
  <2>2. q >= 0
    <3> SUFFICES ASSUME q <= -1 PROVE FALSE
      BY <2>1
    <3>1. b * q <= -b
      BY <2>1, Z3
    <3> QED
      BY <1>5, <2>1, <3>1
  <2> QED
    BY <2>2 DEF q
<1>6. a < b => Quotient(a, b) <= 0
  BY <1>2, <1>4, <1>5 DEF Quotient
<1> QED
  BY <1>3, <1>6

(* linear_level stays in range, and on the way down does not rise. *)
LEMMA LevelType ==
  ASSUME NEW start \in Levels, NEW target \in Levels, NEW tick \in Nat, NEW duration \in Nat
  PROVE  /\ LinearLevel(start, target, tick, duration) \in Levels
         /\ target = 0 => LinearLevel(start, target, tick, duration) <= start
<1> DEFINE t == Larger(1, tick)
           d == Larger(1, duration)
           x == (target - start) * t
           h == d \div 2
           q == Quotient(x + h, d)
           value == start + q
<1>1. t \in Nat /\ t >= 1 /\ d \in Nat \ {0} /\ Full \in Nat /\ start \in Int /\ target \in Int
  BY ModulationAssumption DEF Larger, Levels
<1> HIDE DEF t, d
<1>2. x \in Int /\ (target = 0 => x <= 0)
  <2> DEFINE y == target - start
  <2>1. y \in Int /\ (target = 0 => y <= 0)
    BY <1>1 DEF Levels
  <2> HIDE DEF y
  <2>2. y * t \in Int /\ (y <= 0 => y * t <= 0)
    BY <1>1, <2>1, Z3
  <2> QED
    BY <2>1, <2>2 DEF y
<1>3. h \in Nat /\ h < d
  <2>1. d = 2 * h + (d % 2) /\ h \in Int /\ d % 2 \in 0 .. 1
    <3>1. d \in Int
      BY <1>1
    <3> QED
      BY <3>1, Z3
  <2> QED
    BY <1>1, <2>1
<1> HIDE DEF x, h
<1>4. q \in Int /\ (target = 0 => q <= 0)
  <2> DEFINE z == x + h
  <2>1. z \in Int /\ (target = 0 => z < d)
    BY <1>1, <1>2, <1>3
  <2> HIDE DEF z
  <2>2. Quotient(z, d) \in Int /\ (z < d => Quotient(z, d) <= 0)
    BY <1>1, <2>1, QuotientType
  <2> QED
    BY <2>1, <2>2 DEF z
<1> HIDE DEF q
<1>5. /\ LinearLevel(start, target, tick, duration)
           = IF tick >= duration THEN target ELSE Smaller(Full, Larger(0, value))
  BY DEF LinearLevel, q, x, h, t, d
<1>6. value \in Int /\ (target = 0 => value <= start)
  BY <1>1, <1>4
<1> HIDE DEF value
<1> QED
  BY <1>1, <1>5, <1>6 DEF Smaller, Larger, Levels

(* What the note's configuration holds. *)
LEMMA ConfigType ==
  ASSUME NEW c \in Configs
  PROVE  /\ c.delay \in Nat /\ c.attack \in Nat /\ c.hold \in Nat /\ c.decay \in Nat
         /\ c.release \in Nat /\ c.sustain \in Levels /\ c.lfoDelay \in Nat /\ c.lfoStep \in Nat
         /\ c.subTick \in BOOLEAN
<1>1. c.subTick \in BOOLEAN
  BY Zenon DEF Configs
<1>2. /\ c.delay \in Nat /\ c.attack \in Nat /\ c.hold \in Nat /\ c.decay \in Nat
      /\ c.release \in Nat /\ c.sustain \in Levels /\ c.lfoDelay \in Nat /\ c.lfoStep \in Nat
  BY DEF Configs, Levels
<1> QED
  BY <1>1, <1>2, Zenon

-----------------------------------------------------------------------------
(* ModulationClock: one tick of the envelope, stage by stage. *)

(* A delay or a hold counts down, and a voice whose wait is over moves on. *)
LEMMA WaitTick ==
  ASSUME NEW c, NEW v \in Live, v.stage \in {"delay", "hold"}, NEW x \in Nat
  PROVE  EnvelopeTick([v EXCEPT !.wait = x], c)
           = IF x <= 1 THEN AfterWait([v EXCEPT !.wait = 0]) ELSE [v EXCEPT !.wait = x - 1]
<1> DEFINE u == [v EXCEPT !.wait = x]
           w == [u EXCEPT !.wait = Larger(0, @ - 1)]
<1>1. u.stage = v.stage /\ u.wait = x
  BY DEF Live, Clocks
<1>2. EnvelopeTick(u, c) = IF w.wait = 0 THEN AfterWait(w) ELSE w
  BY <1>1 DEF EnvelopeTick
<1>3. Larger(0, x - 1) = IF x <= 1 THEN 0 ELSE x - 1
  BY DEF Larger
<1>4. w = [v EXCEPT !.wait = Larger(0, x - 1)]
  BY <1>1 DEF Live, Clocks
<1>5. w.wait = Larger(0, x - 1)
  BY <1>4 DEF Live, Clocks
<1> HIDE DEF u, w
<1> QED
  BY <1>2, <1>3, <1>4, <1>5 DEF u

(* The length of an attack or a decay. *)
Limit(v, c) == IF v.stage = "attack" THEN c.attack ELSE c.decay
RampLevel(v, c, x) ==
  IF v.stage = "attack" THEN LinearLevel(0, Full, x, c.attack)
  ELSE LinearLevel(Full, c.sustain, x, c.decay)

(* A voice that is x ticks into its stage, at level y. *)
AtTick(v, x, y) == [v EXCEPT !.tick = x, !.level = y]

(* An attack or a decay on its way. *)
LEMMA RampWithin ==
  ASSUME NEW c, NEW v \in Live, v.stage \in {"attack", "decay"}, NEW x \in Nat, x < Limit(v, c)
  PROVE  Ramped([v EXCEPT !.tick = x], c) = AtTick(v, x, RampLevel(v, c, x))
<1> DEFINE u == [v EXCEPT !.tick = x]
<1>1. u.stage = v.stage /\ u.tick = x
  BY DEF Live, Clocks
<1>2. Ramped(u, c) = [u EXCEPT !.level = RampLevel(v, c, x)]
  <2> HIDE DEF u
  <2>1. CASE v.stage = "attack"
    BY <1>1, <2>1 DEF Ramped, Limit, RampLevel
  <2>2. CASE v.stage # "attack"
    BY <1>1, <2>2 DEF Ramped, Limit, RampLevel
  <2> QED
    BY <2>1, <2>2
<1>3. ASSUME NEW y PROVE [u EXCEPT !.level = y] = AtTick(v, x, y)
  BY DEF Live, Clocks, AtTick
<1> QED
  BY <1>2, <1>3

(* Its next tick forgets the level it had. *)
LEMMA RampTick ==
  ASSUME NEW c, NEW v \in Live, v.stage \in {"attack", "decay"}, NEW x \in Nat, NEW y
  PROVE  EnvelopeTick(AtTick(v, x, y), c) = Ramped([v EXCEPT !.tick = x + 1], c)
<1> USE DEF AtTick
<1> DEFINE u == AtTick(v, x, y)
           a == [u EXCEPT !.tick = @ + 1]
           b == [v EXCEPT !.tick = x + 1]
<1>1. u.stage = v.stage /\ u.tick = x
  BY DEF Live, Clocks
<1>2. a.stage = v.stage /\ a.tick = x + 1 /\ b.stage = v.stage /\ b.tick = x + 1
  BY <1>1 DEF Live, Clocks
<1>3. EnvelopeTick(u, c) = Ramped(a, c)
  BY <1>1 DEF EnvelopeTick
<1>4. ASSUME NEW z PROVE [a EXCEPT !.level = z] = [b EXCEPT !.level = z]
  BY <1>1 DEF Live, Clocks
<1>5. ASSUME NEW z, NEW g, NEW h
      PROVE  [a EXCEPT !.level = z, !.tick = 0, !.wait = g, !.stage = h]
               = [b EXCEPT !.level = z, !.tick = 0, !.wait = g, !.stage = h]
  BY <1>1 DEF Live, Clocks
<1>6. ASSUME NEW z, NEW h
      PROVE  [a EXCEPT !.level = z, !.tick = 0, !.stage = h]
               = [b EXCEPT !.level = z, !.tick = 0, !.stage = h]
  BY <1>1 DEF Live, Clocks
<1> HIDE DEF a, b, u
<1>7. Ramped(a, c) = Ramped(b, c)
  BY <1>2, <1>4, <1>5, <1>6 DEF Ramped
<1> QED
  BY <1>3, <1>7 DEF b, u

(* A sustained voice stays as it is. *)
LEMMA SustainTick ==
  ASSUME NEW c, NEW v \in Live, v.stage = "sustain"
  PROVE  EnvelopeTick(v, c) = v
  BY DEF EnvelopeTick

(* Over a voice's envelope, the LFO and what it last published. *)
Over(v, ph, w, p) == [v EXCEPT !.phase = ph, !.lfoWait = w, !.published = p]

SameLfo(u, v) == u.phase = v.phase /\ u.lfoWait = v.lfoWait /\ u.published = v.published

(* A ramp keeps the type, and leaves the LFO alone. *)
LEMMA RampedType ==
  ASSUME NEW c \in Configs, NEW v \in Live, v.stage \in {"attack", "decay"}
  PROVE  Ramped(v, c) \in Live /\ SameLfo(Ramped(v, c), v)
<1>1. /\ c.attack \in Nat /\ c.hold \in Nat /\ c.decay \in Nat /\ c.sustain \in Levels
      /\ Full \in Levels /\ 0 \in Levels /\ v.tick \in Nat
  BY ConfigType, ModulationAssumption DEF Live, Clocks, Levels
<1>2. /\ LinearLevel(0, Full, v.tick, c.attack) \in Levels
      /\ LinearLevel(Full, c.sustain, v.tick, c.decay) \in Levels
  BY <1>1, LevelType
<1>3. ASSUME NEW z \in Levels
      PROVE  [v EXCEPT !.level = z] \in Live /\ SameLfo([v EXCEPT !.level = z], v)
  BY DEF Live, Clocks, SameLfo
<1>4. ASSUME NEW z \in Levels, NEW g \in Nat, NEW h \in Moving
      PROVE  LET u == [v EXCEPT !.level = z, !.tick = 0, !.wait = g, !.stage = h]
             IN  u \in Live /\ SameLfo(u, v)
  BY DEF Live, Clocks, SameLfo
<1>5. ASSUME NEW z \in Levels, NEW h \in Moving
      PROVE  LET u == [v EXCEPT !.level = z, !.tick = 0, !.stage = h]
             IN  u \in Live /\ SameLfo(u, v)
  BY DEF Live, Clocks, SameLfo
<1>6. {"hold", "decay", "sustain"} \subseteq Moving
  BY DEF Moving
<1>7. CASE v.stage = "attack" /\ v.tick < c.attack
  BY <1>2, <1>3, <1>7 DEF Ramped
<1>8. CASE v.stage = "attack" /\ ~(v.tick < c.attack)
  <2> DEFINE h == IF c.hold # 0 THEN "hold" ELSE "decay"
             u == [v EXCEPT !.level = Full, !.tick = 0, !.wait = c.hold, !.stage = h]
  <2>1. Ramped(v, c) = u
    BY <1>8 DEF Ramped
  <2>2. h \in Moving
    BY <1>6
  <2> HIDE DEF h
  <2>3. u \in Live /\ SameLfo(u, v)
    BY <1>1, <1>4, <2>2
  <2> QED
    BY <2>1, <2>3
<1>9. CASE v.stage # "attack" /\ v.tick < c.decay
  BY <1>2, <1>3, <1>9 DEF Ramped
<1>10. CASE v.stage # "attack" /\ ~(v.tick < c.decay)
  <2> DEFINE u == [v EXCEPT !.level = c.sustain, !.tick = 0, !.stage = "sustain"]
  <2>1. Ramped(v, c) = u
    BY <1>10 DEF Ramped
  <2>2. u \in Live /\ SameLfo(u, v)
    BY <1>1, <1>5, <1>6
  <2> QED
    BY <2>1, <2>2
<1> QED
  BY <1>7, <1>8, <1>9, <1>10

(* So does a tick. *)
LEMMA TickType ==
  ASSUME NEW c \in Configs, NEW v \in Live
  PROVE  EnvelopeTick(v, c) \in Live /\ SameLfo(EnvelopeTick(v, c), v)
<1>1. v.stage \in Moving /\ v.wait \in Nat /\ v.tick \in Nat
  BY DEF Live, Clocks
<1>2. CASE v.stage \in {"delay", "hold"}
  <2>1. v = [v EXCEPT !.wait = v.wait]
    BY DEF Live, Clocks
  <2>2. EnvelopeTick(v, c) = IF v.wait <= 1 THEN AfterWait([v EXCEPT !.wait = 0])
                             ELSE [v EXCEPT !.wait = v.wait - 1]
    <3> DEFINE x == v.wait
    <3>1. EnvelopeTick([v EXCEPT !.wait = x], c)
            = IF x <= 1 THEN AfterWait([v EXCEPT !.wait = 0]) ELSE [v EXCEPT !.wait = x - 1]
      <4>1. x \in Nat
        BY <1>1
      <4> HIDE DEF x
      <4> QED
        BY <1>2, <4>1, WaitTick
    <3> QED
      BY <2>1, <3>1, Zenon
  <2>3. ASSUME NEW x \in Nat
        PROVE  [v EXCEPT !.wait = x] \in Live /\ SameLfo([v EXCEPT !.wait = x], v)
    BY DEF Live, Clocks, SameLfo
  <2>4. ASSUME NEW u \in Live
        PROVE  AfterWait(u) \in Live /\ SameLfo(AfterWait(u), u)
    BY DEF Live, Clocks, SameLfo, AfterWait, Moving
  <2>5. CASE v.wait <= 1
    <3>1. [v EXCEPT !.wait = 0] \in Live /\ SameLfo([v EXCEPT !.wait = 0], v)
      BY <2>3
    <3> QED
      BY <2>2, <2>4, <2>5, <3>1 DEF SameLfo
  <2>6. CASE ~(v.wait <= 1)
    <3>1. v.wait - 1 \in Nat
      BY <1>1, <2>6
    <3> QED
      BY <2>2, <2>3, <2>6, <3>1
  <2> QED
    BY <2>5, <2>6
<1>3. CASE v.stage \in {"attack", "decay"}
  <2> DEFINE u == [v EXCEPT !.tick = v.tick + 1]
  <2>1. EnvelopeTick(v, c) = Ramped(u, c)
    BY <1>3 DEF EnvelopeTick
  <2>2. u \in Live /\ SameLfo(u, v) /\ u.stage = v.stage
    BY <1>1 DEF Live, Clocks, SameLfo
  <2> HIDE DEF u
  <2>3. Ramped(u, c) \in Live /\ SameLfo(Ramped(u, c), u)
    BY <1>3, <2>2, RampedType
  <2> QED
    BY <2>1, <2>2, <2>3 DEF SameLfo
<1>4. CASE v.stage = "sustain"
  BY <1>4, SustainTick DEF SameLfo
<1> QED
  BY <1>1, <1>2, <1>3, <1>4 DEF Moving

-----------------------------------------------------------------------------
(* ModulationClock: ticks of the envelope, one after another. *)

(* e holds the voice after each of n ticks. *)
Ticking(e, v, c, n) ==
  /\ e[0] = v
  /\ \A k \in 1 .. n : e[k] = EnvelopeTick(e[k - 1], c)
  /\ \A k \in 0 .. n : e[k] \in Live /\ SameLfo(e[k], v)

(* There is such a list for any number of ticks. *)
LEMMA TickingExists ==
  ASSUME NEW c \in Configs, NEW v \in Live, NEW n \in Nat
  PROVE  \E e : Ticking(e, v, c, n)
<1> DEFINE L == {x \in Live : SameLfo(x, v)}
           V == [k \in 0 .. n |-> L]
           G == [k \in 1 .. n |-> [x \in L |-> EnvelopeTick(x, c)]]
<1>1. v \in L
  BY DEF SameLfo
<1>2. ASSUME NEW x \in L PROVE EnvelopeTick(x, c) \in L
  BY <1>2, TickType DEF SameLfo
<1>3. \A k \in 0 .. n : V[k] = L
  OBVIOUS
<1>4. \A k \in 1 .. n : \A x \in L : G[k][x] = EnvelopeTick(x, c)
  OBVIOUS
<1>5. \A x \in L : x \in Live /\ SameLfo(x, v)
  OBVIOUS
<1> HIDE DEF L, V, G
<1>6. v \in V[0]
  BY <1>1, <1>3
<1>7. \A k \in 1 .. n : \A x \in V[k - 1] : G[k][x] \in V[k]
  <2>1. ASSUME NEW k \in 1 .. n PROVE k - 1 \in 0 .. n /\ k \in 0 .. n
    OBVIOUS
  <2> QED
    BY <1>2, <1>3, <1>4, <2>1
<1>8. PICK e : Runs(e, v, G, n) /\ \A k \in 0 .. n : e[k] \in V[k]
  BY <1>6, <1>7, RunInExists
<1>9. e[0] = v /\ \A k \in 1 .. n : e[k] = G[k][e[k - 1]]
  <2>1. Runs(e, v, G, n)
    BY <1>8
  <2>2. 0 \in 0 .. n /\ \A k \in 1 .. n : k \in 0 .. n /\ k # 0
    OBVIOUS
  <2>3. \A k \in 0 .. n : e[k] = IF k = 0 THEN v ELSE G[k][e[k - 1]]
    BY <2>1, Zenon DEF Runs
  <2> QED
    BY <2>2, <2>3
<1>10. \A k \in 0 .. n : e[k] \in L
  BY <1>3, <1>8
<1>11. ASSUME NEW k \in 1 .. n PROVE e[k] = EnvelopeTick(e[k - 1], c)
  <2>1. k - 1 \in 0 .. n
    OBVIOUS
  <2> QED
    BY <1>4, <1>9, <1>10, <2>1
<1>12. Ticking(e, v, c, n)
  BY <1>5, <1>9, <1>10, <1>11 DEF Ticking
<1> QED
  BY <1>12

(* While a wait lasts. *)
LEMMA WaitRun ==
  ASSUME NEW c \in Configs, NEW v \in Live, NEW n \in Nat, NEW e, Ticking(e, v, c, n),
         NEW k \in 0 .. n, e[k].stage \in {"delay", "hold"}
  PROVE  \A b \in 0 .. (n - k) :
            b < e[k].wait => e[k + b] = [e[k] EXCEPT !.wait = e[k].wait - b]
<1> DEFINE u == e[k]
           T == {b \in Nat : b \in 0 .. (n - k) /\ b < u.wait
                              => e[k + b] = [u EXCEPT !.wait = u.wait - b]}
<1>1. u \in Live /\ u.wait \in Nat /\ u.stage \in {"delay", "hold"}
  BY DEF Ticking, Live, Clocks
<1>2. 0 \in T
  <2>1. [u EXCEPT !.wait = u.wait - 0] = u
    BY <1>1 DEF Live, Clocks
  <2>2. k + 0 = k
    OBVIOUS
  <2> QED
    BY <2>1, <2>2
<1>3. ASSUME NEW b \in Nat, b \in T PROVE b + 1 \in T
  <2> SUFFICES ASSUME b + 1 \in 0 .. (n - k), b + 1 < u.wait
               PROVE  e[k + (b + 1)] = [u EXCEPT !.wait = u.wait - (b + 1)]
    OBVIOUS
  <2> DEFINE x == u.wait - b
  <2>1. /\ b \in 0 .. (n - k) /\ b < u.wait /\ k + b + 1 \in 1 .. n
        /\ (k + b + 1) - 1 = k + b /\ k + (b + 1) = k + b + 1
        /\ x \in Nat /\ ~(x <= 1) /\ x - 1 = u.wait - (b + 1)
    BY <1>1
  <2>2. e[k + b] = [u EXCEPT !.wait = x]
    BY <1>3, <2>1
  <2>3. e[k + b + 1] = EnvelopeTick(e[k + b], c)
    <3> DEFINE j == k + b + 1
    <3>1. j \in 1 .. n /\ j - 1 = k + b
      BY <2>1
    <3> HIDE DEF j, u
    <3>2. e[j] = EnvelopeTick(e[j - 1], c)
      BY <3>1 DEF Ticking
    <3> QED
      BY <3>1, <3>2 DEF j
  <2> HIDE DEF x, u, T
  <2>4. EnvelopeTick([u EXCEPT !.wait = x], c) = [u EXCEPT !.wait = x - 1]
    <3>1. EnvelopeTick([u EXCEPT !.wait = x], c)
           = IF x <= 1 THEN AfterWait([u EXCEPT !.wait = 0]) ELSE [u EXCEPT !.wait = x - 1]
      <4>1. u \in Live /\ u.stage \in {"delay", "hold"} /\ x \in Nat
        BY <1>1, <2>1
      <4> QED
        BY <4>1, WaitTick
    <3> QED
      BY <2>1, <3>1
  <2> QED
    BY <2>1, <2>2, <2>3, <2>4
<1>4. Nat \subseteq T
  <2> HIDE DEF T
  <2> QED
    BY <1>2, <1>3, SetInduction
<1> HIDE DEF u
<1>5. \A b \in 0 .. (n - k) : b < u.wait => e[k + b] = [u EXCEPT !.wait = u.wait - b]
  BY <1>4
<1> QED
  BY <1>5 DEF u

(* While an attack or a decay lasts. *)
LEMMA RampRun ==
  ASSUME NEW c \in Configs, NEW v \in Live, NEW n \in Nat, NEW e, Ticking(e, v, c, n),
         NEW k \in 0 .. n, e[k].stage \in {"attack", "decay"}
  PROVE  \A b \in 1 .. (n - k) :
            b = 1 \/ e[k].tick + b <= Limit(e[k], c)
              => e[k + b] = Ramped([e[k] EXCEPT !.tick = e[k].tick + b], c)
<1> DEFINE u == e[k]
           T == {b \in Nat : b + 1 \in 1 .. (n - k) /\ (b = 0 \/ u.tick + b + 1 <= Limit(u, c))
                              => e[k + b + 1] = Ramped([u EXCEPT !.tick = u.tick + b + 1], c)}
<1>1. u \in Live /\ u.tick \in Nat /\ u.stage \in {"attack", "decay"} /\ Limit(u, c) \in Nat
  BY ConfigType DEF Ticking, Live, Clocks, Limit
<1>2. ASSUME NEW b \in Nat, b + 1 \in 1 .. (n - k) PROVE e[k + b + 1] = EnvelopeTick(e[k + b], c)
  <2> DEFINE j == k + b + 1
  <2>1. j \in 1 .. n /\ j - 1 = k + b
    BY <1>2
  <2> HIDE DEF j
  <2>2. e[j] = EnvelopeTick(e[j - 1], c)
    BY <2>1 DEF Ticking
  <2> QED
    BY <2>1, <2>2 DEF j
<1>3. 0 \in T
  <2> SUFFICES ASSUME 0 + 1 \in 1 .. (n - k)
               PROVE  e[k + 0 + 1] = Ramped([u EXCEPT !.tick = u.tick + 0 + 1], c)
    OBVIOUS
  <2>1. e[k + 0 + 1] = EnvelopeTick(e[k + 0], c) /\ k + 0 = k /\ u.tick + 0 + 1 = u.tick + 1
    BY <1>1, <1>2
  <2>2. AtTick(u, u.tick, u.level) = u
    BY <1>1 DEF Live, Clocks, AtTick
  <2>3. EnvelopeTick(AtTick(u, u.tick, u.level), c)
          = Ramped([u EXCEPT !.tick = u.tick + 1], c)
    <3> DEFINE x == u.tick
               y == u.level
    <3>1. x \in Nat
      BY <1>1
    <3> HIDE DEF x, y, u
    <3>2. EnvelopeTick(AtTick(u, x, y), c) = Ramped([u EXCEPT !.tick = x + 1], c)
      BY <1>1, <3>1, RampTick
    <3> QED
      BY <3>2 DEF x, y
  <2> QED
    BY <2>1, <2>2, <2>3
<1>4. ASSUME NEW b \in Nat, b \in T PROVE b + 1 \in T
  <2> SUFFICES ASSUME (b + 1) + 1 \in 1 .. (n - k), u.tick + (b + 1) + 1 <= Limit(u, c)
               PROVE  e[k + (b + 1) + 1] = Ramped([u EXCEPT !.tick = u.tick + (b + 1) + 1], c)
    OBVIOUS
  <2> DEFINE x == u.tick + b + 1
             y == RampLevel(u, c, x)
  <2>1. /\ b + 1 \in 1 .. (n - k) /\ u.tick + b + 1 <= Limit(u, c) /\ x \in Nat /\ x < Limit(u, c)
        /\ x + 1 = u.tick + (b + 1) + 1 /\ k + (b + 1) = k + b + 1 /\ b + 1 \in Nat
    BY <1>1
  <2>2. e[k + b + 1] = Ramped([u EXCEPT !.tick = x], c)
    BY <1>4, <2>1
  <2>3. e[k + (b + 1) + 1] = EnvelopeTick(e[k + b + 1], c)
    <3> DEFINE j == b + 1
    <3>1. j \in Nat /\ j + 1 \in 1 .. (n - k)
      BY <2>1
    <3> HIDE DEF j, u, T
    <3>2. e[k + j + 1] = EnvelopeTick(e[k + j], c)
      BY <1>2, <3>1
    <3> QED
      BY <2>1, <3>2 DEF j
  <2> HIDE DEF x, y, u, T
  <2>4. Ramped([u EXCEPT !.tick = x], c) = AtTick(u, x, RampLevel(u, c, x))
    <3>1. u \in Live /\ u.stage \in {"attack", "decay"} /\ x \in Nat /\ x < Limit(u, c)
      BY <1>1, <2>1
    <3> QED
      BY <3>1, RampWithin
  <2>5. EnvelopeTick(AtTick(u, x, y), c) = Ramped([u EXCEPT !.tick = x + 1], c)
    BY <1>1, <2>1, RampTick
  <2> QED
    BY <2>1, <2>2, <2>3, <2>4, <2>5 DEF y
<1>5. Nat \subseteq T
  <2> HIDE DEF T
  <2> QED
    BY <1>3, <1>4, SetInduction
<1> HIDE DEF u
<1>6. ASSUME NEW b \in 1 .. (n - k), b = 1 \/ u.tick + b <= Limit(u, c)
      PROVE  e[k + b] = Ramped([u EXCEPT !.tick = u.tick + b], c)
  <2> DEFINE a == b - 1
  <2>1. /\ a \in Nat /\ a + 1 \in 1 .. (n - k) /\ (a = 0 \/ u.tick + a + 1 <= Limit(u, c))
        /\ k + a + 1 = k + b /\ u.tick + a + 1 = u.tick + b
    BY <1>1, <1>6
  <2> HIDE DEF a
  <2>2. e[k + a + 1] = Ramped([u EXCEPT !.tick = u.tick + a + 1], c)
    BY <1>5, <2>1
  <2> QED
    BY <2>1, <2>2
<1> QED
  BY <1>6 DEF u

(* A sustain lasts. *)
LEMMA SustainRun ==
  ASSUME NEW c \in Configs, NEW v \in Live, NEW n \in Nat, NEW e, Ticking(e, v, c, n),
         NEW k \in 0 .. n, e[k].stage = "sustain"
  PROVE  e[n] = e[k]
<1> DEFINE T == {b \in Nat : k + b \in 0 .. n => e[k + b] = e[k]}
<1>1. 0 \in T
  OBVIOUS
<1>2. ASSUME NEW b \in Nat, b \in T PROVE b + 1 \in T
  <2> SUFFICES ASSUME k + (b + 1) \in 0 .. n PROVE e[k + (b + 1)] = e[k]
    OBVIOUS
  <2> DEFINE j == k + (b + 1)
  <2>1. j \in 1 .. n /\ j - 1 = k + b /\ k + b \in 0 .. n
    OBVIOUS
  <2>2. e[k + b] = e[k] /\ e[k] \in Live
    BY <1>2, <2>1 DEF Ticking
  <2> HIDE DEF j, T
  <2>3. e[j] = EnvelopeTick(e[j - 1], c)
    BY <2>1 DEF Ticking
  <2>4. EnvelopeTick(e[k], c) = e[k]
    BY <2>2, SustainTick
  <2> QED
    BY <2>1, <2>2, <2>3, <2>4 DEF j
<1>3. Nat \subseteq T
  <2> HIDE DEF T
  <2> QED
    BY <1>1, <1>2, SetInduction
<1>4. n - k \in Nat /\ k + (n - k) = n /\ n \in 0 .. n
  OBVIOUS
<1>5. n - k \in T
  BY <1>3, <1>4
<1> QED
  BY <1>4, <1>5

(* What is left of n ticks after k of them. *)
Rest(e, k, n) == [voice |-> e[k], left |-> n - k]

(* One round of the firmware's loop is some of the ticks that are left. *)
LEMMA FoldStepTicks ==
  ASSUME NEW c \in Configs, NEW v \in Live, NEW n \in Nat, NEW e, Ticking(e, v, c, n),
         NEW k \in 0 .. n, k < n
  PROVE  \E j \in (k + 1) .. n : FoldStep(Rest(e, k, n), c) = Rest(e, j, n)
<1> DEFINE u == e[k]
           l == n - k
           s == Rest(e, k, n)
           m == IF u.stage \in {"delay", "hold"} THEN u.wait
                ELSE (IF u.stage = "attack" THEN c.attack ELSE c.decay) - u.tick
           a == Smaller(l, Larger(1, m))
<1>1. u \in Live /\ u.tick \in Nat /\ u.wait \in Nat /\ u.stage \in Moving /\ Limit(u, c) \in Nat
  BY ConfigType DEF Ticking, Live, Clocks, Limit
<1>2. s.voice = u /\ s.left = l /\ l \in Nat /\ l # 0
  BY DEF Rest
<1>3. m \in Int /\ m = IF u.stage \in {"delay", "hold"} THEN u.wait ELSE Limit(u, c) - u.tick
  BY <1>1 DEF Limit
<1>4. a \in 1 .. l /\ (a = 1 \/ a <= m) /\ (m <= a \/ a = l)
  <2> HIDE DEF m, l
  <2> QED
    BY <1>2, <1>3 DEF Smaller, Larger
<1>5. k + a \in (k + 1) .. n /\ n - (k + a) = l - a /\ a \in 0 .. l /\ a \in 1 .. (n - k)
  <2> HIDE DEF a
  <2> QED
    BY <1>4
<1>6. CASE u.stage \in {"delay", "hold"}
  <2>1. FoldStep(s, c) = [voice |-> IF u.wait <= a THEN AfterWait([u EXCEPT !.wait = 0])
                                    ELSE [u EXCEPT !.wait = @ - a],
                          left |-> l - a]
    BY <1>2, <1>6 DEF FoldStep
  <2>2. m = u.wait
    BY <1>3, <1>6
  <2> HIDE DEF a, m, s, u, l
  <2>3. \A b \in 0 .. (n - k) : b < u.wait => e[k + b] = [u EXCEPT !.wait = u.wait - b]
    BY <1>6, WaitRun DEF u
  <2>4. CASE u.wait <= a
    <3> DEFINE b == a - 1
               x == u.wait - b
    <3>1. /\ b \in 0 .. (n - k) /\ k + a \in 1 .. n /\ (k + a) - 1 = k + b
          /\ (b < u.wait \/ (b = 0 /\ u.wait = 0))
      BY <1>1, <1>4, <1>5, <2>2, <2>4
    <3>2. x \in Nat /\ x <= 1
      BY <1>1, <1>4, <2>2, <2>4
    <3> HIDE DEF b
    <3>3. e[k + b] = [u EXCEPT !.wait = x]
      <4>1. CASE b < u.wait
        BY <2>3, <3>1, <4>1
      <4>2. CASE b = 0 /\ u.wait = 0
        <5>1. x = u.wait /\ k + b = k
          BY <1>1, <4>2
        <5>2. [u EXCEPT !.wait = u.wait] = u
          BY <1>1 DEF Live, Clocks
        <5> QED
          BY <5>1, <5>2 DEF u
      <4> QED
        BY <3>1, <4>1, <4>2
    <3> HIDE DEF x
    <3>4. e[k + a] = EnvelopeTick(e[k + b], c)
      <4> DEFINE j == k + a
      <4>1. j \in 1 .. n /\ j - 1 = k + b
        BY <3>1
      <4> HIDE DEF j
      <4>2. e[j] = EnvelopeTick(e[j - 1], c)
        BY <4>1 DEF Ticking
      <4> QED
        BY <4>1, <4>2 DEF j
    <3>5. EnvelopeTick([u EXCEPT !.wait = x], c) = AfterWait([u EXCEPT !.wait = 0])
      <4>1. u \in Live /\ x \in Nat /\ u.stage \in {"delay", "hold"}
        BY <1>1, <1>6, <3>2
      <4>2. EnvelopeTick([u EXCEPT !.wait = x], c)
             = IF x <= 1 THEN AfterWait([u EXCEPT !.wait = 0]) ELSE [u EXCEPT !.wait = x - 1]
        BY <4>1, WaitTick
      <4> QED
        BY <3>2, <4>2
    <3>6. FoldStep(s, c) = Rest(e, k + a, n)
      BY <1>5, <2>1, <2>4, <3>3, <3>4, <3>5 DEF Rest
    <3> QED
      BY <1>5, <3>6 DEF s
  <2>5. CASE ~(u.wait <= a)
    <3>1. e[k + a] = [u EXCEPT !.wait = u.wait - a]
      BY <1>1, <1>4, <1>5, <2>3, <2>5 DEF l
    <3>2. FoldStep(s, c) = Rest(e, k + a, n)
      BY <1>5, <2>1, <2>5, <3>1 DEF Rest
    <3> QED
      BY <1>5, <3>2 DEF s
  <2> QED
    BY <2>4, <2>5
<1>7. CASE u.stage \in {"attack", "decay"}
  <2>1. FoldStep(s, c) = [voice |-> Ramped([u EXCEPT !.tick = @ + a], c), left |-> l - a]
    BY <1>2, <1>7 DEF FoldStep
  <2>2. m = Limit(u, c) - u.tick
    BY <1>3, <1>7
  <2> HIDE DEF a, m, s, u, l
  <2>3. \A b \in 1 .. (n - k) : b = 1 \/ u.tick + b <= Limit(u, c)
            => e[k + b] = Ramped([u EXCEPT !.tick = u.tick + b], c)
    BY <1>7, RampRun DEF u
  <2>4. e[k + a] = Ramped([u EXCEPT !.tick = u.tick + a], c)
    <3>1. a = 1 \/ u.tick + a <= Limit(u, c)
      BY <1>1, <1>4, <2>2
    <3> QED
      BY <1>5, <2>3, <3>1
  <2>5. FoldStep(s, c) = Rest(e, k + a, n)
    BY <1>5, <2>1, <2>4 DEF Rest
  <2> QED
    BY <1>5, <2>5 DEF s
<1>8. CASE u.stage = "sustain"
  <2>1. FoldStep(s, c) = [s EXCEPT !.left = 0]
    BY <1>2, <1>8 DEF FoldStep
  <2>2. [s EXCEPT !.left = 0] = [voice |-> u, left |-> 0]
    BY DEF Rest
  <2>3. e[n] = u
    BY <1>8, SustainRun
  <2> HIDE DEF u, s
  <2>4. FoldStep(s, c) = Rest(e, n, n)
    BY <2>1, <2>2, <2>3 DEF Rest
  <2>5. n \in (k + 1) .. n
    OBVIOUS
  <2> QED
    BY <2>4, <2>5 DEF s
<1> QED
  BY <1>1, <1>6, <1>7, <1>8 DEF Moving

(* The firmware's loop is the ticks. *)
LEMMA ElapsedIsTicking ==
  ASSUME NEW c \in Configs, NEW v \in Live, NEW n \in Nat, NEW e, Ticking(e, v, c, n)
  PROVE  EnvelopeElapsed(v, c, n) = e[n]
<1> DEFINE R == [i \in 0 .. n |-> {Rest(e, k, n) : k \in i .. n}]
           G == [i \in 1 .. n |-> [s \in R[i - 1] |-> FoldStep(s, c)]]
           first == [voice |-> v, left |-> n]
           Made(f) == f = [i \in 0 .. n |-> IF i = 0 THEN first ELSE FoldStep(f[i - 1], c)]
           made == CHOOSE f : Made(f)
<1>1. first \in R[0]
  <2>1. first = Rest(e, 0, n) /\ 0 \in 0 .. n
    BY DEF Rest, Ticking
  <2> QED
    BY <2>1
<1>2. ASSUME NEW i \in 1 .. n, NEW s \in R[i - 1] PROVE FoldStep(s, c) \in R[i]
  <2>1. i - 1 \in 0 .. n /\ i \in 0 .. n
    OBVIOUS
  <2>2. PICK k \in (i - 1) .. n : s = Rest(e, k, n)
    BY <1>2, <2>1
  <2>3. CASE k < n
    <3>1. k \in 0 .. n
      BY <2>1
    <3>2. PICK j \in (k + 1) .. n : FoldStep(Rest(e, k, n), c) = Rest(e, j, n)
      BY <2>3, <3>1, FoldStepTicks
    <3>3. j \in i .. n
      BY <2>1
    <3> QED
      BY <2>1, <2>2, <3>2, <3>3
  <2>4. CASE ~(k < n)
    <3>1. k = n /\ n \in i .. n
      BY <2>1, <2>4
    <3>2. s.left = 0
      BY <2>2, <3>1 DEF Rest
    <3>3. FoldStep(s, c) = s
      BY <3>2 DEF FoldStep
    <3> QED
      BY <2>1, <2>2, <3>1, <3>3
  <2> QED
    BY <2>3, <2>4
<1>3. \A i \in 1 .. n : \A s \in R[i - 1] : G[i][s] = FoldStep(s, c)
  <2> HIDE DEF R
  <2> QED
    OBVIOUS
<1>4. R[n] = {Rest(e, n, n)}
  <2>1. n \in 0 .. n /\ n .. n = {n}
    OBVIOUS
  <2> QED
    BY <2>1
<1> HIDE DEF R, G, first
<1>5. PICK f : Runs(f, first, G, n) /\ \A i \in 0 .. n : f[i] \in R[i]
  <2>1. \A i \in 1 .. n : \A s \in R[i - 1] : G[i][s] \in R[i]
    BY <1>2, <1>3
  <2> QED
    BY <1>1, <2>1, RunInExists
<1>6. Made(f)
  <2>1. ASSUME NEW i \in 0 .. n
        PROVE  (IF i = 0 THEN first ELSE G[i][f[i - 1]])
                 = IF i = 0 THEN first ELSE FoldStep(f[i - 1], c)
    <3>1. CASE i = 0
      BY <3>1
    <3>2. CASE i # 0
      <4>1. i \in 1 .. n /\ i - 1 \in 0 .. n
        BY <3>2
      <4>2. f[i - 1] \in R[i - 1]
        BY <1>5, <4>1
      <4> QED
        BY <1>3, <3>2, <4>1, <4>2
    <3> QED
      BY <3>1, <3>2
  <2> QED
    BY <1>5, <2>1 DEF Runs
<1>7. Made(made)
  BY <1>6
<1>8. EnvelopeElapsed(v, c, n) = made[n].voice
  BY DEF EnvelopeElapsed, first
<1> HIDE DEF made
<1>9. \A i \in 0 .. n : made[i] \in R[i]
  <2>1. made[0] = first /\ \A i \in 1 .. n : made[i] = FoldStep(made[i - 1], c)
    <3>1. 0 \in 0 .. n /\ \A i \in 1 .. n : i \in 0 .. n /\ i # 0
      OBVIOUS
    <3>2. \A i \in 0 .. n : made[i] = IF i = 0 THEN first ELSE FoldStep(made[i - 1], c)
      BY <1>7, Zenon
    <3> QED
      BY <3>1, <3>2
  <2> HIDE DEF Made
  <2>2. made[0] \in R[0]
    BY <1>1, <2>1
  <2>3. \A i \in 1 .. n : made[i - 1] \in R[i - 1] => made[i] \in R[i]
    BY <1>2, <2>1
  <2> QED
    BY <2>2, <2>3, RunStaysIn
<1>10. made[n] = Rest(e, n, n)
  BY <1>4, <1>9
<1> QED
  BY <1>8, <1>10 DEF Rest

-----------------------------------------------------------------------------
(* ModulationClock: the LFO, beside the envelope. *)

LfoPhase(v, c, n) ==
  IF n <= v.lfoWait THEN v.phase ELSE (v.phase + c.lfoStep * (n - v.lfoWait)) % PhaseMod
LfoRest(v, n) == IF n <= v.lfoWait THEN v.lfoWait - n ELSE 0

(* What a group of a voice with that envelope and that LFO is computed from. *)
Said(w, ph, lw, c, g, on) ==
  IF on /\ g \in c.periodic THEN Moved(w.level, lw = 0, ph) ELSE Still

(* Published q: those groups computed anew, the others as in p. *)
Spoken(q, p, w, ph, lw, c, gs, on) ==
  \A g \in Groups : q[g] = IF g \in gs THEN Said(w, ph, lw, c, g, on) ELSE p[g]

(* Their types. *)
LEMMA LfoType ==
  ASSUME NEW c \in Configs, NEW v \in Live, NEW n \in Nat
  PROVE  LfoPhase(v, c, n) \in Nat /\ LfoRest(v, n) \in Nat
<1>1. v.phase \in Nat /\ v.lfoWait \in Nat /\ c.lfoStep \in Nat /\ PhaseMod \in Nat /\ PhaseMod > 0
  BY ConfigType, ModulationAssumption DEF Live, Clocks
<1>2. CASE n <= v.lfoWait
  BY <1>1, <1>2 DEF LfoPhase, LfoRest
<1>3. CASE ~(n <= v.lfoWait)
  <2> DEFINE z == c.lfoStep * (n - v.lfoWait)
  <2>1. z \in Int
    BY <1>1, <1>3
  <2> HIDE DEF z
  <2>2. v.phase + z \in Int
    BY <1>1, <2>1
  <2>3. (v.phase + z) % PhaseMod \in 0 .. (PhaseMod - 1)
    BY <1>1, <2>2, DivMod
  <2>4. (v.phase + z) % PhaseMod \in Nat
    BY <1>1, <2>3
  <2> QED
    BY <1>3, <2>4 DEF LfoPhase, LfoRest, z
<1> QED
  BY <1>2, <1>3

(* What is published. *)
LEMMA MovedType ==
  ASSUME NEW l \in Levels, NEW on \in BOOLEAN, NEW ph \in Nat
  PROVE  Moved(l, on, ph) \in Moves /\ Still \in Moves
<1>1. 0 \in Levels /\ 0 \in Nat /\ FALSE \in BOOLEAN
  BY ModulationAssumption DEF Levels
<1>2. \A z \in Levels, b \in BOOLEAN, x \in Nat :
        [level |-> z, lfo |-> [on |-> b, phase |-> x]] \in Moves
  <2> SUFFICES ASSUME NEW z \in Levels, NEW b \in BOOLEAN, NEW x \in Nat
               PROVE  [level |-> z, lfo |-> [on |-> b, phase |-> x]] \in Moves
    OBVIOUS
  <2> DEFINE q == [on |-> b, phase |-> x]
  <2>1. q \in [on : BOOLEAN, phase : Nat]
    BY Zenon
  <2> HIDE DEF q
  <2>2. [level |-> z, lfo |-> q] \in Moves
    BY <2>1, Zenon DEF Moves
  <2> QED
    BY <2>2, Zenon DEF q
<1> QED
  BY <1>1, <1>2, Zenon DEF Moved, Still

(* A refresh changes what is published of the groups it is given. *)
LEMMA RefreshedIs ==
  ASSUME NEW S, NEW v \in Clocks(S), NEW c, NEW gs, NEW on
  PROVE  \E q \in Published :
           /\ Refreshed(v, c, gs, on) = [v EXCEPT !.published = q]
           /\ Spoken(q, v.published, v, v.phase, v.lfoWait, c, gs, on)
<1> DEFINE q == [g \in Groups |-> IF g \in gs THEN Heard(v, c, g, on) ELSE v.published[g]]
<1>1. v.level \in Levels /\ v.phase \in Nat /\ v.published \in Published
  BY DEF Clocks
<1>2. ASSUME NEW g \in Groups PROVE Heard(v, c, g, on) \in Moves
  <2>1. (v.lfoWait = 0) \in BOOLEAN
    BY Zenon
  <2>2. Moved(v.level, v.lfoWait = 0, v.phase) \in Moves /\ Still \in Moves
    BY <1>1, <2>1, MovedType
  <2> QED
    BY <2>2, Zenon DEF Heard
<1>3. q \in Published
  <2>1. \A g \in Groups : v.published[g] \in Moves
    BY <1>1 DEF Published
  <2>2. \A g \in Groups : (IF g \in gs THEN Heard(v, c, g, on) ELSE v.published[g]) \in Moves
    BY <1>2, <2>1, Zenon
  <2> QED
    BY <2>2, Zenon DEF Published
<1>4. Refreshed(v, c, gs, on) = [v EXCEPT !.published = q]
  BY Zenon DEF Refreshed
<1>5. Spoken(q, v.published, v, v.phase, v.lfoWait, c, gs, on)
  BY Zenon DEF Spoken, Said, Heard
<1> HIDE DEF q
<1> QED
  BY <1>3, <1>4, <1>5, Zenon

(* It keeps the voice's clocks. *)
LEMMA RefreshedKeeps ==
  ASSUME NEW S, NEW v \in Clocks(S), NEW c, NEW gs, NEW on
  PROVE  LET w == Refreshed(v, c, gs, on)
         IN  /\ w \in Clocks(S) /\ SameClock(w, v)
             /\ Quiet(v, c) => Quiet(w, c)
<1>1. PICK q \in Published :
           /\ Refreshed(v, c, gs, on) = [v EXCEPT !.published = q]
           /\ Spoken(q, v.published, v, v.phase, v.lfoWait, c, gs, on)
  BY RefreshedIs, Zenon
<1> DEFINE w == [v EXCEPT !.published = q]
<1>2. w \in Clocks(S) /\ SameClock(w, v) /\ w.published = q
  BY DEF Clocks, SameClock
<1>3. ASSUME Quiet(v, c) PROVE Quiet(w, c)
  <2> HIDE DEF w
  <2>1. \A g \in Groups : g \notin c.periodic => Said(v, v.phase, v.lfoWait, c, g, on) = Still
    BY Zenon DEF Said
  <2>2. "gain" \in Groups /\ "pitch" \in Groups
    BY Zenon DEF Groups
  <2> QED
    BY <1>1, <1>2, <1>3, <2>1, <2>2, Zenon DEF Quiet, Spoken
<1> HIDE DEF w
<1> QED
  BY <1>1, <1>2, <1>3, Zenon DEF w

(* The LFO is no concern of the envelope. *)
LEMMA OverTick ==
  ASSUME NEW c, NEW w \in Live, NEW ph \in Nat, NEW lw \in Nat, NEW p \in Published
  PROVE  /\ Over(w, ph, lw, p) \in Live
         /\ EnvelopeTick(Over(w, ph, lw, p), c) = Over(EnvelopeTick(w, c), ph, lw, p)
<1> DEFINE o == Over(w, ph, lw, p)
<1>1. /\ o \in Live /\ o.stage = w.stage /\ o.wait = w.wait /\ o.tick = w.tick
      /\ o.level = w.level /\ o.from = w.from
  BY DEF Live, Clocks, Over
<1>2. w.stage \in Moving /\ w.wait \in Nat /\ w.tick \in Nat
  BY DEF Live, Clocks
<1>3. CASE w.stage \in {"delay", "hold"}
  <2> DEFINE x == Larger(0, w.wait - 1)
             a == [o EXCEPT !.wait = x]
             b == [w EXCEPT !.wait = x]
  <2>1. /\ EnvelopeTick(o, c) = IF a.wait = 0 THEN AfterWait(a) ELSE a
        /\ EnvelopeTick(w, c) = IF b.wait = 0 THEN AfterWait(b) ELSE b
    BY <1>1, <1>3 DEF EnvelopeTick
  <2> HIDE DEF x
  <2>2. a.wait = x /\ b.wait = x /\ a = Over(b, ph, lw, p)
    BY DEF Live, Clocks, Over
  <2>3. AfterWait(a) = Over(AfterWait(b), ph, lw, p)
    <3> DEFINE h == IF w.stage = "delay" THEN "attack" ELSE "decay"
    <3>1. AfterWait(a) = [a EXCEPT !.stage = h] /\ AfterWait(b) = [b EXCEPT !.stage = h]
      BY <1>1 DEF AfterWait, Live, Clocks, Over
    <3> HIDE DEF h
    <3>2. [a EXCEPT !.stage = h] = Over([b EXCEPT !.stage = h], ph, lw, p)
      BY DEF Live, Clocks, Over
    <3> HIDE DEF a, b
    <3> QED
      BY <3>1, <3>2
  <2> HIDE DEF a, b, o
  <2> QED
    BY <1>1, <2>1, <2>2, <2>3 DEF o
<1>4. CASE w.stage \in {"attack", "decay"}
  <2> DEFINE x == w.tick + 1
             a == [o EXCEPT !.tick = x]
             b == [w EXCEPT !.tick = x]
  <2>1. EnvelopeTick(o, c) = Ramped(a, c) /\ EnvelopeTick(w, c) = Ramped(b, c)
    BY <1>1, <1>4 DEF EnvelopeTick
  <2> HIDE DEF x
  <2>2. a.stage = w.stage /\ b.stage = w.stage /\ a.tick = x /\ b.tick = x
    BY DEF Live, Clocks, Over
  <2>3. ASSUME NEW z PROVE [a EXCEPT !.level = z] = Over([b EXCEPT !.level = z], ph, lw, p)
    BY DEF Live, Clocks, Over
  <2> HIDE DEF a, b
  <2>4. Ramped(a, c) = Over(Ramped(b, c), ph, lw, p)
    <3>1. CASE w.stage = "attack" /\ x < c.attack
      <4> DEFINE z == LinearLevel(0, Full, x, c.attack)
      <4>1. Ramped(a, c) = [a EXCEPT !.level = z] /\ Ramped(b, c) = [b EXCEPT !.level = z]
        BY <2>2, <3>1 DEF Ramped
      <4> HIDE DEF z
      <4> QED
        BY <2>3, <4>1
    <3>2. CASE w.stage = "attack" /\ ~(x < c.attack)
      <4> DEFINE h == IF c.hold # 0 THEN "hold" ELSE "decay"
      <4>1. /\ Ramped(a, c) = [a EXCEPT !.level = Full, !.tick = 0, !.wait = c.hold, !.stage = h]
            /\ Ramped(b, c) = [b EXCEPT !.level = Full, !.tick = 0, !.wait = c.hold, !.stage = h]
        BY <2>2, <3>2 DEF Ramped
      <4> HIDE DEF h
      <4>2. [a EXCEPT !.level = Full, !.tick = 0, !.wait = c.hold, !.stage = h]
              = Over([b EXCEPT !.level = Full, !.tick = 0, !.wait = c.hold, !.stage = h], ph, lw, p)
        BY DEF a, b, Live, Clocks, Over
      <4> QED
        BY <4>1, <4>2, Zenon
    <3>3. CASE w.stage # "attack" /\ x < c.decay
      <4> DEFINE z == LinearLevel(Full, c.sustain, x, c.decay)
      <4>1. Ramped(a, c) = [a EXCEPT !.level = z] /\ Ramped(b, c) = [b EXCEPT !.level = z]
        BY <2>2, <3>3 DEF Ramped
      <4> HIDE DEF z
      <4> QED
        BY <2>3, <4>1
    <3>4. CASE w.stage # "attack" /\ ~(x < c.decay)
      <4>1. /\ Ramped(a, c) = [a EXCEPT !.level = c.sustain, !.tick = 0, !.stage = "sustain"]
            /\ Ramped(b, c) = [b EXCEPT !.level = c.sustain, !.tick = 0, !.stage = "sustain"]
        BY <2>2, <3>4 DEF Ramped
      <4>2. [a EXCEPT !.level = c.sustain, !.tick = 0, !.stage = "sustain"]
              = Over([b EXCEPT !.level = c.sustain, !.tick = 0, !.stage = "sustain"], ph, lw, p)
        BY DEF a, b, Live, Clocks, Over
      <4> QED
        BY <4>1, <4>2, Zenon
    <3> QED
      BY <3>1, <3>2, <3>3, <3>4
  <2> HIDE DEF o
  <2> QED
    BY <1>1, <2>1, <2>4 DEF o
<1>5. CASE w.stage = "sustain"
  <2>1. EnvelopeTick(o, c) = o /\ EnvelopeTick(w, c) = w
    BY <1>1, <1>5, SustainTick
  <2> HIDE DEF o
  <2> QED
    BY <1>1, <2>1 DEF o
<1> HIDE DEF o
<1>6. EnvelopeTick(o, c) = Over(EnvelopeTick(w, c), ph, lw, p)
  BY <1>2, <1>3, <1>4, <1>5 DEF Moving, o
<1> QED
  BY <1>1, <1>6 DEF o

(* The LFO's steps. *)
LEMMA OverLfo ==
  ASSUME NEW c \in Configs, NEW v \in Live, NEW w \in Live, NEW k \in Nat, NEW p \in Published
  PROVE  LfoTick(Over(w, LfoPhase(v, c, k), LfoRest(v, k), p), c)
           = Over(w, LfoPhase(v, c, k + 1), LfoRest(v, k + 1), p)
<1> DEFINE ph == LfoPhase(v, c, k)
           lw == LfoRest(v, k)
           o == Over(w, ph, lw, p)
<1>1. /\ v.phase \in Nat /\ v.lfoWait \in Nat /\ c.lfoStep \in Nat
      /\ PhaseMod \in Nat /\ PhaseMod > 0 /\ ph \in Nat /\ lw \in Nat
  BY ConfigType, ModulationAssumption, LfoType DEF Live, Clocks
<1>2. CASE k < v.lfoWait
  <2>1. lw = v.lfoWait - k /\ lw # 0 /\ LfoRest(v, k + 1) = lw - 1 /\ LfoPhase(v, c, k + 1) = ph
    BY <1>1, <1>2 DEF LfoRest, LfoPhase
  <2> HIDE DEF ph, lw
  <2>2. o.lfoWait = lw /\ [o EXCEPT !.lfoWait = lw - 1] = Over(w, ph, lw - 1, p)
    BY DEF Live, Clocks, Over
  <2>3. LfoTick(o, c) = [o EXCEPT !.lfoWait = lw - 1]
    BY <2>1, <2>2 DEF LfoTick
  <2> QED
    BY <2>1, <2>2, <2>3 DEF ph, lw
<1>3. CASE ~(k < v.lfoWait)
  <2> DEFINE a == k - v.lfoWait
             y == c.lfoStep * a
             z == c.lfoStep * (k + 1 - v.lfoWait)
             q == (ph + c.lfoStep) % PhaseMod
  <2>1. lw = 0 /\ LfoRest(v, k + 1) = 0 /\ LfoPhase(v, c, k + 1) = (v.phase + z) % PhaseMod
    BY <1>1, <1>3 DEF LfoRest, LfoPhase
  <2>2. a \in Nat /\ k + 1 - v.lfoWait = a + 1
    BY <1>1, <1>3
  <2>3. y \in Int /\ z = y + c.lfoStep
    <3> HIDE DEF a
    <3>1. c.lfoStep * (a + 1) = c.lfoStep * a + c.lfoStep /\ c.lfoStep * a \in Int
      <4> DEFINE st == c.lfoStep
      <4>1. st \in Int
        BY <1>1
      <4> HIDE DEF st
      <4>2. st * (a + 1) = st * a + st /\ st * a \in Int
        BY <2>2, <4>1, Z3
      <4> QED
        BY <4>2 DEF st
    <3> QED
      BY <2>2, <3>1
  <2>4. q = (v.phase + z) % PhaseMod
    <3>1. CASE k = v.lfoWait
      <4>1. ph = v.phase /\ y = 0
        BY <1>1, <3>1 DEF LfoPhase
      <4> QED
        BY <1>1, <2>3, <4>1
    <3>2. CASE k # v.lfoWait
      <4>1. ph = (v.phase + y) % PhaseMod
        <5>1. ~(k <= v.lfoWait)
          BY <1>1, <1>3, <3>2
        <5> QED
          BY <5>1, Zenon DEF LfoPhase
      <4> HIDE DEF y, z, ph
      <4> DEFINE x == v.phase + y
      <4>2. x \in Int /\ c.lfoStep \in Int /\ x + c.lfoStep = v.phase + z
        BY <1>1, <2>3
      <4> HIDE DEF x
      <4>3. ((x % PhaseMod) + c.lfoStep) % PhaseMod = (x + c.lfoStep) % PhaseMod
        BY <1>1, <4>2, RemainderOfSum
      <4> QED
        BY <4>1, <4>2, <4>3 DEF x
    <3> QED
      BY <3>1, <3>2
  <2>5. LfoTick(o, c) = Over(w, q, 0, p)
    <3> HIDE DEF ph, lw
    <3>1. o.lfoWait = lw /\ o.phase = ph
      BY DEF Live, Clocks, Over
    <3>2. LfoTick(o, c) = [o EXCEPT !.phase = q]
      BY <2>1, <3>1 DEF LfoTick
    <3> HIDE DEF q
    <3>3. [o EXCEPT !.phase = q] = Over(w, q, lw, p)
      BY DEF Live, Clocks, Over
    <3> QED
      BY <2>1, <3>2, <3>3
  <2> HIDE DEF q, z, ph, lw
  <2> QED
    BY <2>1, <2>4, <2>5 DEF ph, lw
<1> QED
  BY <1>2, <1>3

(* What is published is what is there. *)
LEMMA OverRefreshed ==
  ASSUME NEW w \in Live, NEW ph \in Nat, NEW lw \in Nat, NEW p \in Published,
         NEW c, NEW gs, NEW on
  PROVE  \E q \in Published :
           /\ Refreshed(Over(w, ph, lw, p), c, gs, on) = Over(w, ph, lw, q)
           /\ Spoken(q, p, w, ph, lw, c, gs, on)
<1> DEFINE o == Over(w, ph, lw, p)
<1>1. o.level = w.level /\ o.lfoWait = lw /\ o.phase = ph /\ o.published = p /\ o \in Clocks(Moving)
  BY DEF Live, Clocks, Over
<1>2. ASSUME NEW q PROVE [o EXCEPT !.published = q] = Over(w, ph, lw, q)
  BY DEF Live, Clocks, Over
<1> HIDE DEF o
<1>3. PICK q \in Published :
           /\ Refreshed(o, c, gs, on) = [o EXCEPT !.published = q]
           /\ Spoken(q, o.published, o, o.phase, o.lfoWait, c, gs, on)
  BY <1>1, RefreshedIs, Zenon
<1>4. \A g \in Groups : Said(o, ph, lw, c, g, on) = Said(w, ph, lw, c, g, on)
  BY <1>1, Zenon DEF Said
<1>5. Spoken(q, p, w, ph, lw, c, gs, on)
  BY <1>1, <1>3, <1>4, Zenon DEF Spoken
<1>6. Refreshed(o, c, gs, on) = Over(w, ph, lw, q)
  BY <1>2, <1>3, Zenon
<1> QED
  BY <1>5, <1>6, Zenon DEF o

(* The LFO's steps at once. *)
LEMMA OverElapsed ==
  ASSUME NEW c \in Configs, NEW v \in Live, NEW w \in Live, SameLfo(w, v), NEW n \in Nat
  PROVE  LfoElapsed(w, c, n) = Over(w, LfoPhase(v, c, n), LfoRest(v, n), v.published)
<1>1. w.phase = v.phase /\ w.lfoWait = v.lfoWait /\ w.published = v.published
  BY DEF SameLfo
<1>2. ASSUME NEW y
      PROVE  [w EXCEPT !.lfoWait = y] = Over(w, w.phase, y, v.published)
  BY <1>1 DEF Live, Clocks, Over
<1>3. CASE n <= w.lfoWait
  <2> DEFINE y == w.lfoWait - n
  <2>1. LfoElapsed(w, c, n) = [w EXCEPT !.lfoWait = y]
    BY <1>3 DEF LfoElapsed
  <2>2. LfoPhase(v, c, n) = w.phase /\ LfoRest(v, n) = y
    BY <1>1, <1>3 DEF LfoPhase, LfoRest
  <2> HIDE DEF y
  <2>3. [w EXCEPT !.lfoWait = y] = Over(w, w.phase, y, v.published)
    BY <1>2
  <2> QED
    BY <2>1, <2>2, <2>3
<1>4. CASE ~(n <= w.lfoWait)
  <2> DEFINE x == (w.phase + c.lfoStep * (n - w.lfoWait)) % PhaseMod
  <2>1. LfoElapsed(w, c, n) = [w EXCEPT !.lfoWait = 0, !.phase = x]
    BY <1>4 DEF LfoElapsed
  <2>2. LfoPhase(v, c, n) = x /\ LfoRest(v, n) = 0
    BY <1>1, <1>4 DEF LfoPhase, LfoRest
  <2> HIDE DEF x
  <2>3. [w EXCEPT !.lfoWait = 0, !.phase = x] = Over(w, x, 0, v.published)
    BY <1>1 DEF Live, Clocks, Over
  <2> QED
    BY <2>1, <2>2, <2>3, Zenon
<1> QED
  BY <1>3, <1>4

-----------------------------------------------------------------------------
(* ModulationClock: the two ways of advancing a voice. *)

(* What the host's voice may publish after k ticks: its gain and pitch are *)
(* those of the envelope after them and the LFO before the last.           *)
Says(e, v, c, k) ==
  {p \in Published :
     k # 0 => \A g \in {"gain", "pitch"} :
                p[g] = Said(e[k], LfoPhase(v, c, k - 1), LfoRest(v, k - 1), c, g, TRUE)}

(* The voice after k ticks. *)
Sounds(e, v, c, k) ==
  {Over(e[k], LfoPhase(v, c, k), LfoRest(v, k), p) : p \in Says(e, v, c, k)}

(* Refreshed and with its LFO advanced, the envelope after k + 1 ticks is the voice. *)
LEMMA SoundStep ==
  ASSUME NEW c \in Configs, NEW v \in Live, NEW w \in Live, NEW k \in Nat, NEW p \in Published,
         NEW gs, NEW on
  PROVE  \E q \in Published :
           /\ LfoTick(Refreshed(Over(w, LfoPhase(v, c, k), LfoRest(v, k), p), c, gs, on), c)
                = Over(w, LfoPhase(v, c, k + 1), LfoRest(v, k + 1), q)
           /\ Spoken(q, p, w, LfoPhase(v, c, k), LfoRest(v, k), c, gs, on)
<1> DEFINE ph == LfoPhase(v, c, k)
           lw == LfoRest(v, k)
<1>1. ph \in Nat /\ lw \in Nat
  BY LfoType
<1> HIDE DEF ph, lw
<1>2. PICK q \in Published :
           /\ Refreshed(Over(w, ph, lw, p), c, gs, on) = Over(w, ph, lw, q)
           /\ Spoken(q, p, w, ph, lw, c, gs, on)
  BY <1>1, OverRefreshed, Zenon
<1>3. LfoTick(Over(w, ph, lw, q), c) = Over(w, LfoPhase(v, c, k + 1), LfoRest(v, k + 1), q)
  BY OverLfo DEF ph, lw
<1> QED
  BY <1>2, <1>3, Zenon DEF ph, lw

(* Every tick of the host makes one of the next of these voices. *)
LEMMA SoundTicks ==
  ASSUME NEW c \in Configs, NEW v \in Live, NEW n \in Nat, NEW e, Ticking(e, v, c, n),
         NEW k \in 0 .. n, NEW x \in Sounds(e, v, c, k), NEW index
  PROVE  /\ x \in Live
         /\ k < n => AdvanceModulation(x, c, index) \in Sounds(e, v, c, k + 1)
<1> DEFINE ph == LfoPhase(v, c, k)
           lw == LfoRest(v, k)
           w == e[k]
<1>1. w \in Live /\ k \in Nat
  BY DEF Ticking
<1>2. ph \in Nat /\ lw \in Nat
  BY <1>1, LfoType
<1>3. PICK p \in Published : x = Over(w, ph, lw, p)
  BY Zenon DEF Sounds, Says
<1> HIDE DEF ph, lw, w
<1>4. Over(w, ph, lw, p) \in Live /\ EnvelopeTick(Over(w, ph, lw, p), c) = Over(EnvelopeTick(w, c), ph, lw, p)
  BY <1>1, <1>2, OverTick
<1>5. ASSUME k < n PROVE AdvanceModulation(x, c, index) \in Sounds(e, v, c, k + 1)
  <2> DEFINE j == k + 1
             gs == HostGroups(index)
  <2>1. j \in 1 .. n /\ j - 1 = k /\ j # 0
    BY <1>5
  <2>2. "gain" \in gs /\ "pitch" \in gs /\ "gain" \in Groups /\ "pitch" \in Groups
    BY Zenon DEF HostGroups, Groups
  <2> HIDE DEF j, gs
  <2>3. e[j] = EnvelopeTick(w, c) /\ e[j] \in Live
    <3>1. e[j] = EnvelopeTick(e[j - 1], c) /\ e[j] \in Live
      BY <2>1 DEF Ticking
    <3> QED
      BY <2>1, <3>1 DEF w
  <2>4. AdvanceModulation(x, c, index) = LfoTick(Refreshed(Over(e[j], ph, lw, p), c, gs, TRUE), c)
    BY <1>3, <1>4, <2>3, Zenon DEF AdvanceModulation, gs
  <2>5. PICK q \in Published :
           /\ LfoTick(Refreshed(Over(e[j], ph, lw, p), c, gs, TRUE), c)
                = Over(e[j], LfoPhase(v, c, j), LfoRest(v, j), q)
           /\ Spoken(q, p, e[j], ph, lw, c, gs, TRUE)
    BY <1>1, <2>3, SoundStep DEF ph, lw, j
  <2>6. \A g \in {"gain", "pitch"} :
          q[g] = Said(e[j], LfoPhase(v, c, j - 1), LfoRest(v, j - 1), c, g, TRUE)
    BY <2>1, <2>2, <2>5, Zenon DEF ph, lw, Spoken
  <2>7. q \in Says(e, v, c, j)
    BY <2>6, Zenon DEF Says
  <2>8. AdvanceModulation(x, c, index) \in Sounds(e, v, c, j)
    BY <2>4, <2>5, <2>7, Zenon DEF Sounds
  <2> QED
    BY <2>8 DEF j
<1> QED
  BY <1>3, <1>4, <1>5

(* Replaying n ticks. *)
LEMMA ReplayedIs ==
  ASSUME NEW c \in Configs, NEW v \in Live, NEW n \in Nat, NEW e, Ticking(e, v, c, n),
         NEW u \in Sounds(e, v, c, 0), NEW index \in Nat
  PROVE  Replayed(u, c, n, index) \in Sounds(e, v, c, n)
<1> DEFINE R == [i \in 0 .. n |-> Sounds(e, v, c, i)]
           G == [i \in 1 .. n |-> [x \in Sounds(e, v, c, i - 1) |->
                   AdvanceModulation(x, c, index + i - 1)]]
           Made(f) == f = [i \in 0 .. n |-> IF i = 0 THEN u
                             ELSE AdvanceModulation(f[i - 1], c, index + i - 1)]
           made == CHOOSE f : Made(f)
<1>1. \A i \in 0 .. n : R[i] = Sounds(e, v, c, i)
  OBVIOUS
<1>2. u \in R[0]
  BY <1>1
<1>3. ASSUME NEW i \in 1 .. n, NEW x \in R[i - 1]
      PROVE  /\ G[i][x] = AdvanceModulation(x, c, index + i - 1)
             /\ AdvanceModulation(x, c, index + i - 1) \in R[i]
  <2> DEFINE k == i - 1
             y == index + i - 1
  <2>1. k \in 0 .. n /\ k < n /\ k + 1 = i /\ i \in 0 .. n
    OBVIOUS
  <2>2. x \in Sounds(e, v, c, i - 1) /\ R[i] = Sounds(e, v, c, i)
    BY <1>1, <1>3, <2>1
  <2>3. G[i][x] = AdvanceModulation(x, c, index + i - 1)
    BY <2>2
  <2> HIDE DEF k, R, G, y
  <2>4. x \in Sounds(e, v, c, k)
    BY <2>2 DEF k
  <2>5. AdvanceModulation(x, c, y) \in Sounds(e, v, c, k + 1)
    BY <2>1, <2>4, SoundTicks
  <2> QED
    BY <2>1, <2>2, <2>3, <2>5 DEF y
<1> HIDE DEF R, G
<1>4. PICK f : Runs(f, u, G, n) /\ \A i \in 0 .. n : f[i] \in R[i]
  <2>1. \A i \in 1 .. n : \A x \in R[i - 1] : G[i][x] \in R[i]
    BY <1>3
  <2> QED
    BY <1>2, <2>1, RunInExists
<1>5. Made(f)
  <2>1. ASSUME NEW i \in 0 .. n
        PROVE  (IF i = 0 THEN u ELSE G[i][f[i - 1]])
                 = IF i = 0 THEN u ELSE AdvanceModulation(f[i - 1], c, index + i - 1)
    <3>1. CASE i = 0
      BY <3>1
    <3>2. CASE i # 0
      <4>1. i \in 1 .. n /\ i - 1 \in 0 .. n
        BY <3>2
      <4>2. f[i - 1] \in R[i - 1]
        BY <1>4, <4>1
      <4> QED
        BY <1>3, <3>2, <4>1, <4>2
    <3> QED
      BY <3>1, <3>2
  <2> QED
    BY <1>4, <2>1 DEF Runs
<1>6. Made(made)
  BY <1>5
<1>7. Replayed(u, c, n, index) = made[n]
  BY DEF Replayed
<1> HIDE DEF made
<1>8. \A i \in 0 .. n : made[i] \in R[i]
  <2>1. made[0] = u /\ \A i \in 1 .. n : made[i] = AdvanceModulation(made[i - 1], c, index + i - 1)
    <3>1. 0 \in 0 .. n /\ \A i \in 1 .. n : i \in 0 .. n /\ i # 0
      OBVIOUS
    <3>2. \A i \in 0 .. n : made[i] = IF i = 0 THEN u
                              ELSE AdvanceModulation(made[i - 1], c, index + i - 1)
      BY <1>6, Zenon
    <3> QED
      BY <3>1, <3>2
  <2> HIDE DEF Made
  <2>2. made[0] \in R[0]
    BY <1>2, <2>1
  <2>3. \A i \in 1 .. n : made[i - 1] \in R[i - 1] => made[i] \in R[i]
    BY <1>3, <2>1
  <2> QED
    BY <2>2, <2>3, RunStaysIn
<1>9. n \in 0 .. n
  OBVIOUS
<1>10. made[n] \in Sounds(e, v, c, n)
  BY <1>1, <1>8, <1>9
<1> QED
  BY <1>7, <1>10

(* Folding n ticks. *)
LEMMA FoldedIs ==
  ASSUME NEW c \in Configs, NEW v \in Live, NEW n \in Nat, n # 0, NEW e, Ticking(e, v, c, n),
         c.periodic # {}, NEW gs, NEW on
  PROVE  \E q \in Published :
           /\ AdvanceElapsed(v, c, n, gs, on) = Over(e[n], LfoPhase(v, c, n), LfoRest(v, n), q)
           /\ Spoken(q, v.published, e[n], LfoPhase(v, c, n - 1), LfoRest(v, n - 1), c, gs, on)
<1> DEFINE k == n - 1
           w == e[n]
           p == v.published
           ph == LfoPhase(v, c, k)
           lw == LfoRest(v, k)
<1>1. k \in Nat /\ k + 1 = n /\ n \in 0 .. n
  OBVIOUS
<1>2. w \in Live /\ SameLfo(w, v) /\ p \in Published
  BY <1>1 DEF Ticking, Live, Clocks
<1>3. EnvelopeElapsed(v, c, n) = w
  BY ElapsedIsTicking
<1> HIDE DEF k, w, p
<1>4. LfoElapsed(w, c, k) = Over(w, ph, lw, p)
  BY <1>1, <1>2, OverElapsed DEF p
<1>5. AdvanceElapsed(v, c, n, gs, on) = LfoTick(Refreshed(Over(w, ph, lw, p), c, gs, on), c)
  BY <1>3, <1>4, Zenon DEF AdvanceElapsed, FoldedTo, k
<1>6. PICK q \in Published :
           /\ LfoTick(Refreshed(Over(w, ph, lw, p), c, gs, on), c)
                = Over(w, LfoPhase(v, c, k + 1), LfoRest(v, k + 1), q)
           /\ Spoken(q, p, w, ph, lw, c, gs, on)
  BY <1>1, <1>2, SoundStep
<1>7. AdvanceElapsed(v, c, n, gs, on) = Over(w, LfoPhase(v, c, n), LfoRest(v, n), q)
  BY <1>1, <1>5, <1>6, Zenon
<1> QED
  BY <1>6, <1>7, Zenon DEF k, w, p, ph, lw

(* A voice sounds like one it shares its clocks with. *)
LEMMA SameSound ==
  ASSUME NEW c \in Configs, NEW v \in Live, NEW u \in Live, SameClock(v, u), NEW n \in Nat,
         NEW e, Ticking(e, v, c, n)
  PROVE  u \in Sounds(e, v, c, 0)
<1> DEFINE p == u.published
<1>1. p \in Published /\ v.phase \in Nat /\ v.lfoWait \in Nat /\ 0 \in 0 .. n
  BY DEF Live, Clocks
<1>2. e[0] = v
  BY DEF Ticking
<1>3. LfoPhase(v, c, 0) = v.phase /\ LfoRest(v, 0) = v.lfoWait
  BY <1>1 DEF LfoPhase, LfoRest
<1>4. u = Over(v, v.phase, v.lfoWait, p)
  BY DEF Live, Clocks, SameClock, Over
<1>5. p \in Says(e, v, c, 0)
  BY <1>1, Zenon DEF Says
<1> HIDE DEF p
<1> QED
  BY <1>2, <1>3, <1>4, <1>5, Zenon DEF Sounds

(* The host's voice after n ticks: sounding, and quiet where nothing moves. *)
LEMMA ReplayedKeeps ==
  ASSUME NEW c \in Configs, NEW u \in Live, NEW n \in Nat, n # 0, NEW index \in Nat
  PROVE  Replayed(u, c, n, index) \in Live /\ Quiet(Replayed(u, c, n, index), c)
<1> DEFINE x == Replayed(u, c, n, index)
<1>1. PICK e : Ticking(e, u, c, n)
  BY TickingExists
<1>2. SameClock(u, u) /\ n \in 0 .. n
  BY DEF SameClock
<1>3. u \in Sounds(e, u, c, 0)
  BY <1>1, <1>2, SameSound
<1>4. x \in Sounds(e, u, c, n)
  BY <1>1, <1>3, ReplayedIs
<1> HIDE DEF x
<1>5. x \in Live
  BY <1>1, <1>2, <1>4, SoundTicks
<1>6. Quiet(x, c)
  <2> DEFINE ph == LfoPhase(u, c, n)
             lw == LfoRest(u, n)
  <2>1. PICK p \in Says(e, u, c, n) : x = Over(e[n], ph, lw, p)
    BY <1>4, Zenon DEF Sounds
  <2> HIDE DEF ph, lw
  <2>2. e[n] \in Live
    BY <1>1, <1>2 DEF Ticking
  <2>3. x.published = p
    BY <2>1, <2>2 DEF Over, Live, Clocks
  <2>4. \A g \in {"gain", "pitch"} : g \notin c.periodic => p[g] = Still
    BY <2>1, Zenon DEF Says, Said
  <2> QED
    BY <2>3, <2>4, Zenon DEF Quiet
<1> QED
  BY <1>5, <1>6 DEF x

(* They are the same, but for the filter. *)
LEMMA FoldIsReplayOfTicks ==
  ASSUME NEW c \in Configs, NEW v \in Live, NEW u \in Live, SameClock(v, u),
         NEW n \in Nat, n # 0, NEW index \in Nat, c.periodic # {}, NEW gs, NEW on,
         Quiet(v, c), on => \A g \in {"gain", "pitch"} : g \in c.periodic => g \in gs
  PROVE  LET w == AdvanceElapsed(v, c, n, gs, on)
             x == Replayed(u, c, n, index)
         IN  /\ w \in Live /\ SameClock(w, x) /\ Quiet(w, c)
             /\ on => \A g \in {"gain", "pitch"} : w.published[g] = x.published[g]
<1> DEFINE w == AdvanceElapsed(v, c, n, gs, on)
           x == Replayed(u, c, n, index)
           ph == LfoPhase(v, c, n)
           lw == LfoRest(v, n)
           a == LfoPhase(v, c, n - 1)
           b == LfoRest(v, n - 1)
<1>1. PICK e : Ticking(e, v, c, n)
  BY TickingExists
<1>2. n \in 0 .. n /\ e[n] \in Live
  <2>1. n \in 0 .. n
    OBVIOUS
  <2> QED
    BY <1>1, <2>1 DEF Ticking
<1>3. ph \in Nat /\ lw \in Nat
  BY LfoType
<1>4. PICK q \in Published :
           /\ w = Over(e[n], ph, lw, q)
           /\ Spoken(q, v.published, e[n], a, b, c, gs, on)
  BY <1>1, FoldedIs, Zenon
<1>5. x \in Sounds(e, v, c, n)
  BY <1>1, SameSound, ReplayedIs
<1>6. PICK p \in Says(e, v, c, n) : x = Over(e[n], ph, lw, p)
  BY <1>5, Zenon DEF Sounds
<1>7. p \in Published /\ \A g \in {"gain", "pitch"} : p[g] = Said(e[n], a, b, c, g, TRUE)
  BY <1>6, Zenon DEF Says
<1> HIDE DEF w, x, ph, lw, a, b
<1>8. w \in Live /\ SameClock(w, x) /\ w.published = q /\ x.published = p
  BY <1>2, <1>3, <1>4, <1>6, <1>7 DEF Over, Live, Clocks, SameClock
<1>9. "gain" \in Groups /\ "pitch" \in Groups
  BY Zenon DEF Groups
<1>10. Quiet(w, c)
  BY <1>4, <1>8, <1>9, Zenon DEF Quiet, Said, Spoken
<1>11. ASSUME on, NEW g \in {"gain", "pitch"} PROVE q[g] = p[g]
  <2>1. CASE g \in c.periodic
    BY <1>4, <1>7, <1>9, <1>11, <2>1, Zenon DEF Said, Spoken
  <2>2. CASE g \notin c.periodic
    BY <1>7, <1>8, <1>10, <2>2, Zenon DEF Quiet, Said
  <2> QED
    BY <2>1, <2>2
<1> QED
  BY <1>8, <1>10, <1>11, Zenon DEF w, x

-----------------------------------------------------------------------------
(* ModulationClock: a released voice. *)

(* The firmware's loop on a released voice: its first round takes all the  *)
(* ticks.                                                                  *)
LEMMA ReleasedElapsed ==
  ASSUME NEW c \in Configs, NEW v \in Released, NEW n \in Nat, n # 0
  PROVE  LET w == EnvelopeElapsed(v, c, n)
         IN  w \in Released /\ w.from = v.from /\ w.level <= w.from
<1> DEFINE z == LinearLevel(v.from, 0, v.tick + n, c.release)
           w == [v EXCEPT !.tick = v.tick + n, !.level = z]
           first == [voice |-> v, left |-> n]
           last == [voice |-> w, left |-> 0]
           R == [i \in 0 .. n |-> IF i = 0 THEN {first} ELSE {last}]
           G == [i \in 1 .. n |-> [s \in R[i - 1] |-> FoldStep(s, c)]]
           Made(f) == f = [i \in 0 .. n |-> IF i = 0 THEN first ELSE FoldStep(f[i - 1], c)]
           made == CHOOSE f : Made(f)
<1>1. v.from \in Levels /\ v.tick + n \in Nat /\ c.release \in Nat /\ 0 \in Levels /\ v.stage = "release"
  BY ConfigType, ModulationAssumption DEF Released, Clocks, Levels
<1>2. z \in Levels /\ z <= v.from
  BY <1>1, LevelType
<1>3. FoldStep(first, c) = last
  <2> HIDE DEF z
  <2>1. first.voice = v /\ first.left = n
    OBVIOUS
  <2> HIDE DEF first
  <2> QED
    BY <1>1, <2>1 DEF FoldStep, z
<1> HIDE DEF z
<1>4. w \in Released /\ w.from = v.from /\ w.level <= w.from
  BY <1>1, <1>2 DEF Released, Clocks
<1> HIDE DEF w
<1>5. FoldStep(last, c) = last
  BY DEF FoldStep
<1> HIDE DEF first, last
<1>6. R[0] = {first} /\ R[n] = {last}
  OBVIOUS
<1>7. ASSUME NEW i \in 1 .. n, NEW s \in R[i - 1] PROVE FoldStep(s, c) \in R[i]
  <2>1. i - 1 \in 0 .. n /\ R[i] = {last} /\ s \in {first, last}
    BY <1>7
  <2> QED
    BY <1>3, <1>5, <2>1
<1>8. \A i \in 1 .. n : \A s \in R[i - 1] : G[i][s] = FoldStep(s, c)
  <2> HIDE DEF R
  <2> QED
    OBVIOUS
<1> HIDE DEF R, G
<1>9. PICK f : Runs(f, first, G, n) /\ \A i \in 0 .. n : f[i] \in R[i]
  <2>1. first \in R[0]
    BY <1>6
  <2>2. \A i \in 1 .. n : \A s \in R[i - 1] : G[i][s] \in R[i]
    BY <1>7, <1>8
  <2> QED
    BY <2>1, <2>2, RunInExists
<1>10. Made(f)
  <2>1. ASSUME NEW i \in 0 .. n
        PROVE  (IF i = 0 THEN first ELSE G[i][f[i - 1]])
                 = IF i = 0 THEN first ELSE FoldStep(f[i - 1], c)
    <3>1. CASE i = 0
      BY <3>1
    <3>2. CASE i # 0
      <4>1. i \in 1 .. n /\ i - 1 \in 0 .. n
        BY <3>2
      <4>2. f[i - 1] \in R[i - 1]
        BY <1>9, <4>1
      <4> QED
        BY <1>8, <3>2, <4>1, <4>2
    <3> QED
      BY <3>1, <3>2
  <2> QED
    BY <1>9, <2>1 DEF Runs
<1>11. Made(made)
  BY <1>10
<1>12. EnvelopeElapsed(v, c, n) = made[n].voice
  BY DEF EnvelopeElapsed, first
<1> HIDE DEF made
<1>13. \A i \in 0 .. n : made[i] \in R[i]
  <2>1. made[0] = first /\ \A i \in 1 .. n : made[i] = FoldStep(made[i - 1], c)
    <3>1. 0 \in 0 .. n /\ \A i \in 1 .. n : i \in 0 .. n /\ i # 0
      OBVIOUS
    <3>2. \A i \in 0 .. n : made[i] = IF i = 0 THEN first ELSE FoldStep(made[i - 1], c)
      BY <1>11, Zenon
    <3> QED
      BY <3>1, <3>2
  <2> HIDE DEF Made
  <2>2. made[0] \in R[0]
    BY <1>6, <2>1
  <2>3. \A i \in 1 .. n : made[i - 1] \in R[i - 1] => made[i] \in R[i]
    BY <1>7, <2>1
  <2> QED
    BY <2>2, <2>3, RunStaysIn
<1>14. made[n] = last
  <2>1. n \in 0 .. n
    OBVIOUS
  <2> QED
    BY <1>6, <1>13, <2>1
<1>15. EnvelopeElapsed(v, c, n) = w
  BY <1>12, <1>14 DEF last
<1> QED
  BY <1>4, <1>15

SameEnvelope(u, v) == u.from = v.from /\ u.level = v.level

(* The LFO leaves the envelope as it is. *)
LEMMA ReleasedLfo ==
  ASSUME NEW c \in Configs, NEW v \in Released, NEW n \in Nat
  PROVE  /\ LfoElapsed(v, c, n) \in Released /\ SameEnvelope(LfoElapsed(v, c, n), v)
         /\ LfoTick(v, c) \in Released /\ SameEnvelope(LfoTick(v, c), v)
<1>1. /\ v.phase \in Nat /\ v.lfoWait \in Nat /\ c.lfoStep \in Nat
      /\ PhaseMod \in Nat /\ PhaseMod > 0 /\ v.level \in Levels
  BY ConfigType, ModulationAssumption DEF Released, Clocks
<1>2. ASSUME NEW x \in Nat
      PROVE  /\ [v EXCEPT !.lfoWait = x] \in Released /\ SameEnvelope([v EXCEPT !.lfoWait = x], v)
             /\ [v EXCEPT !.phase = x] \in Released /\ SameEnvelope([v EXCEPT !.phase = x], v)
             /\ [v EXCEPT !.lfoWait = 0, !.phase = x] \in Released
             /\ SameEnvelope([v EXCEPT !.lfoWait = 0, !.phase = x], v)
  BY DEF Released, Clocks, SameEnvelope
<1>3. ASSUME NEW x \in Int PROVE x % PhaseMod \in Nat
  <2>1. x % PhaseMod \in 0 .. (PhaseMod - 1)
    BY <1>1, DivMod
  <2> QED
    BY <1>1, <2>1
<1>4. LfoElapsed(v, c, n) \in Released /\ SameEnvelope(LfoElapsed(v, c, n), v)
  <2>1. CASE n <= v.lfoWait
    <3> DEFINE x == v.lfoWait - n
    <3>1. x \in Nat
      BY <1>1, <2>1
    <3>2. LfoElapsed(v, c, n) = [v EXCEPT !.lfoWait = x]
      BY <2>1 DEF LfoElapsed
    <3> HIDE DEF x
    <3> QED
      BY <1>2, <3>1, <3>2
  <2>2. CASE ~(n <= v.lfoWait)
    <3> DEFINE y == v.phase + c.lfoStep * (n - v.lfoWait)
               x == y % PhaseMod
    <3>1. y \in Int
      BY <1>1, <2>2
    <3>2. LfoElapsed(v, c, n) = [v EXCEPT !.lfoWait = 0, !.phase = x]
      BY <2>2 DEF LfoElapsed
    <3> HIDE DEF y
    <3>3. x \in Nat
      BY <1>3, <3>1
    <3> HIDE DEF x
    <3>4. LET u == [v EXCEPT !.lfoWait = 0, !.phase = x] IN u \in Released /\ SameEnvelope(u, v)
      BY <1>2, <3>3
    <3> QED
      BY <3>2, <3>4, Zenon
  <2> QED
    BY <2>1, <2>2
<1>5. LfoTick(v, c) \in Released /\ SameEnvelope(LfoTick(v, c), v)
  <2>1. CASE v.lfoWait # 0
    <3>1. v.lfoWait - 1 \in Nat
      BY <1>1, <2>1
    <3> QED
      BY <1>2, <2>1, <3>1 DEF LfoTick
  <2>2. CASE v.lfoWait = 0
    <3> DEFINE x == (v.phase + c.lfoStep) % PhaseMod
    <3>1. x \in Nat
      BY <1>1, <1>3
    <3>2. LfoTick(v, c) = [v EXCEPT !.phase = x]
      BY <2>2 DEF LfoTick
    <3> HIDE DEF x
    <3> QED
      BY <1>2, <3>1, <3>2
  <2> QED
    BY <2>1, <2>2
<1> QED
  BY <1>4, <1>5

(* The late visit. *)
LEMMA LateVisitLowers ==
  ASSUME NEW c \in Configs, NEW v \in Released, NEW n \in Nat, n # 0, NEW gs, NEW on
  PROVE  LET w == AdvanceElapsed(v, c, n, gs, on)
         IN  /\ w \in Released
             /\ c.periodic # {} => w.from = v.from /\ w.level <= w.from
<1>1. CASE c.periodic = {}
  <2> DEFINE w == Refreshed(v, c, gs, on)
  <2>1. w \in Released
    BY RefreshedKeeps DEF Released
  <2>2. AdvanceElapsed(v, c, n, gs, on) = w
    BY <1>1, Zenon DEF AdvanceElapsed, FoldedTo
  <2> HIDE DEF w
  <2> QED
    BY <1>1, <2>1, <2>2
<1>2. CASE c.periodic # {}
  <2> DEFINE a == EnvelopeElapsed(v, c, n)
             b == LfoElapsed(a, c, n - 1)
             d == Refreshed(b, c, gs, on)
             f == LfoTick(d, c)
  <2>1. a \in Released /\ a.from = v.from /\ a.level <= a.from
    BY ReleasedElapsed
  <2>2. f = AdvanceElapsed(v, c, n, gs, on)
    BY <1>2, Zenon DEF AdvanceElapsed, FoldedTo
  <2> HIDE DEF a
  <2>3. b \in Released /\ SameEnvelope(b, a)
    <3>1. n - 1 \in Nat
      OBVIOUS
    <3> QED
      BY <2>1, <3>1, ReleasedLfo
  <2> HIDE DEF b
  <2>4. d \in Released /\ SameEnvelope(d, b)
    BY <2>3, RefreshedKeeps DEF Released, SameClock, SameEnvelope
  <2> HIDE DEF d
  <2>5. f \in Released /\ SameEnvelope(f, d)
    <3>1. 0 \in Nat
      OBVIOUS
    <3> QED
      BY <2>4, <3>1, ReleasedLfo
  <2> HIDE DEF f
  <2> QED
    BY <2>1, <2>2, <2>3, <2>4, <2>5 DEF SameEnvelope
<1> QED
  BY <1>1, <1>2

-----------------------------------------------------------------------------
(* ModulationClock: every step. *)

(* A note starts sounding, quiet where nothing moves. *)
LEMMA StartedType ==
  ASSUME NEW c \in Configs, NEW on
  PROVE  Started(c, on) \in Live /\ Quiet(Started(c, on), c)
<1> DEFINE sub == c.delay = 0 /\ c.subTick
           h == IF c.delay # 0 THEN "delay"
                ELSE IF ~sub THEN "attack" ELSE IF c.hold # 0 THEN "hold" ELSE "decay"
           w == IF sub THEN c.hold ELSE c.delay
           l == IF sub THEN Full ELSE 0
           p == [g \in Groups |-> IF on /\ g \in c.periodic THEN Moved(l, FALSE, 0) ELSE Still]
           s == [stage |-> h, tick |-> 0, wait |-> w, level |-> l, from |-> 0,
                 phase |-> 0, lfoWait |-> c.lfoDelay, published |-> p]
<1>1. c.delay \in Nat /\ c.hold \in Nat /\ c.lfoDelay \in Nat
  BY ConfigType
<1>2. Started(c, on) = s
  BY Zenon DEF Started
<1>3. h \in Moving
  <2> HIDE DEF sub
  <2> QED
    BY DEF Moving
<1>4. w \in Nat
  <2> HIDE DEF sub
  <2> QED
    BY <1>1
<1>5. l \in Levels /\ 0 \in Levels
  <2> HIDE DEF sub
  <2> QED
    BY ModulationAssumption DEF Levels
<1> HIDE DEF sub, h, w, l
<1>6. p \in Published
  <2>1. Moved(l, FALSE, 0) \in Moves /\ Still \in Moves
    BY <1>5, MovedType
  <2> QED
    BY <2>1, Zenon DEF Published
<1>7. \A g \in {"gain", "pitch"} : g \notin c.periodic => p[g] = Still
  <2>1. "gain" \in Groups /\ "pitch" \in Groups
    BY Zenon DEF Groups
  <2> QED
    BY <2>1, Zenon
<1> HIDE DEF p
<1>8. s \in Live /\ s.published = p
  BY <1>1, <1>3, <1>4, <1>5, <1>6 DEF Live, Clocks
<1> HIDE DEF s
<1>9. Quiet(s, c)
  BY <1>7, <1>8, Zenon DEF Quiet
<1> QED
  BY <1>2, <1>8, <1>9

(* A sounding voice is not a released one. *)
LEMMA LiveStages ==
  /\ \A v \in Live : v.stage # "release"
  /\ \A v \in Released : v.stage = "release"
BY DEF Live, Released, Clocks, Moving

(* The invariant at the start. *)
LEMMA ModulationInit_Inv ==
  ASSUME ModulationInit
  PROVE  ModulationInv /\ ticks \in Nat
<1> DEFINE a == Started(config, TRUE)
           b == Started(config, FALSE)
<1>1. /\ config \in Configs /\ enabled \in BOOLEAN /\ ticked = a
      /\ folded = Started(config, enabled) /\ ticks = 0
  BY ModulationAssumption DEF ModulationInit
<1>2. a \in Live /\ Quiet(a, config) /\ b \in Live /\ Quiet(b, config)
  BY <1>1, StartedType
<1>3. SameClock(a, a) /\ SameClock(b, a)
  <2> DEFINE sub == config.delay = 0 /\ config.subTick
             h == IF config.delay # 0 THEN "delay"
                  ELSE IF ~sub THEN "attack" ELSE IF config.hold # 0 THEN "hold" ELSE "decay"
             w == IF sub THEN config.hold ELSE config.delay
             l == IF sub THEN Full ELSE 0
             P(on) == [g \in Groups |->
                         IF on /\ g \in config.periodic THEN Moved(l, FALSE, 0) ELSE Still]
             r(p) == [stage |-> h, tick |-> 0, wait |-> w, level |-> l, from |-> 0,
                      phase |-> 0, lfoWait |-> config.lfoDelay, published |-> p]
  <2>1. a = r(P(TRUE)) /\ b = r(P(FALSE))
    BY Zenon DEF Started
  <2> HIDE DEF sub, h, w, l, P
  <2>2. ASSUME NEW p, NEW q PROVE SameClock(r(p), r(q))
    BY DEF SameClock
  <2> HIDE DEF r, a, b
  <2> QED
    BY <2>1, <2>2, Zenon
<1> HIDE DEF a, b
<1>4. folded = a \/ (folded = b /\ ~enabled)
  <2>1. CASE enabled = TRUE
    BY <1>1, <2>1, Zenon DEF a
  <2>2. CASE enabled = FALSE
    BY <1>1, <2>2, Zenon DEF b
  <2> QED
    BY <1>1, <2>1, <2>2, Zenon
<1>5. folded \in Live /\ Quiet(folded, config) /\ SameClock(folded, ticked)
  BY <1>1, <1>2, <1>3, <1>4, Zenon
<1>6. folded.stage # "release"
  BY <1>5, LiveStages
<1>7. FoldIsReplay
  BY <1>1, <1>4, <1>5, <1>6, Zenon DEF FoldIsReplay
<1>8. ticks \in Nat
  BY <1>1
<1> QED
  BY <1>1, <1>2, <1>5, <1>7, <1>8, Zenon DEF ModulationInv

(* The groups a visit computes. *)
LEMMA VisitedGroups ==
  ASSUME NEW c, NEW n, NEW index, NEW marked, NEW on
  PROVE  on => \A g \in {"gain", "pitch"} :
                 g \in c.periodic => g \in FirmwareGroups(c, n, index, marked, on)
<1> SUFFICES ASSUME on, NEW g \in {"gain", "pitch"}, g \in c.periodic
             PROVE  g \in FirmwareGroups(c, n, index, marked, on)
  OBVIOUS
<1>1. g # "filter"
  OBVIOUS
<1> QED
  BY <1>1, Zenon DEF FirmwareGroups

(* A visit. *)
LEMMA VisitKeeps ==
  ASSUME ModulationInv, ticks \in Nat, NEW n \in 1 .. MaxElapsed, Visit(n)
  PROVE  ModulationInv' /\ ticks' \in Nat
<1> DEFINE gs == FirmwareGroups(config, n, ticks, dirty, enabled)
           w == AdvanceElapsed(folded, config, n, gs, enabled)
           x == Replayed(ticked, config, n, ticks)
<1>1. /\ ~fault /\ ~fault' /\ config' = config /\ enabled' = enabled /\ dirty' = {}
      /\ folded' = w /\ ticked' = x /\ folded.stage # "release" /\ ticks' = ticks + n
  BY DEF Visit
<1>2. n \in Nat /\ n # 0
  BY ModulationAssumption
<1>3. /\ config \in Configs /\ folded \in Live /\ ticked \in Live
      /\ Quiet(folded, config) /\ Quiet(ticked, config) /\ FoldIsReplay
  BY <1>1, LiveStages, Zenon DEF ModulationInv
<1>4. enabled => \A g \in {"gain", "pitch"} : g \in config.periodic => g \in gs
  BY VisitedGroups
<1> HIDE DEF gs
<1>5. x \in Live /\ Quiet(x, config)
  BY <1>2, <1>3, ReplayedKeeps
<1>6. /\ w \in Live /\ Quiet(w, config)
      /\ config.periodic # {} => SameClock(w, x)
      /\ enabled => \A g \in {"gain", "pitch"} : w.published[g] = x.published[g]
  <2>1. CASE config.periodic = {}
    <3>1. w = Refreshed(folded, config, gs, enabled)
      BY <2>1, Zenon DEF AdvanceElapsed, FoldedTo
    <3> HIDE DEF w, x
    <3>2. w \in Live /\ Quiet(w, config)
      BY <1>3, <3>1, RefreshedKeeps DEF Live
    <3>3. \A g \in {"gain", "pitch"} : w.published[g] = x.published[g]
      BY <1>5, <2>1, <3>2, Zenon DEF Quiet
    <3> QED
      BY <2>1, <3>2, <3>3
  <2>2. CASE config.periodic # {}
    <3>1. SameClock(folded, ticked)
      BY <1>1, <1>3, <2>2, Zenon DEF FoldIsReplay
    <3> QED
      BY <1>2, <1>3, <1>4, <2>2, <3>1, FoldIsReplayOfTicks
  <2> QED
    BY <2>1, <2>2, Zenon
<1> HIDE DEF w, x
<1>7. folded'.stage # "release"
  BY <1>1, <1>6, LiveStages, Zenon
<1>8. FoldIsReplay'
  BY <1>1, <1>6, <1>7, Zenon DEF FoldIsReplay
<1>9. ticks' \in Nat
  BY <1>1, <1>2
<1> QED
  BY <1>1, <1>3, <1>5, <1>6, <1>8, <1>9, Zenon DEF ModulationInv

(* A visit after the release. *)
LEMMA LateVisitKeeps ==
  ASSUME ModulationInv, ticks \in Nat, NEW n \in 1 .. MaxElapsed, LateVisit(n)
  PROVE  ModulationInv' /\ ticks' \in Nat
<1> DEFINE gs == FirmwareGroups(config, n, ticks, dirty, enabled)
           w == AdvanceElapsed(folded, config, n, gs, enabled)
<1>1. /\ ~fault /\ ~fault' /\ config' = config /\ ticked' = ticked /\ ticks' = ticks
      /\ folded' = w /\ folded.stage = "release"
  BY DEF LateVisit
<1>2. n \in Nat /\ n # 0
  BY ModulationAssumption
<1>3. config \in Configs /\ folded \in Released /\ ticked \in Released /\ FoldIsReplay
  BY <1>1, LiveStages, Zenon DEF ModulationInv
<1> HIDE DEF gs
<1>4. w \in Released /\ (config.periodic # {} => w.from = folded.from /\ w.level <= w.from)
  BY <1>2, <1>3, LateVisitLowers
<1> HIDE DEF w
<1>5. folded'.stage = "release"
  BY <1>1, <1>4, LiveStages, Zenon
<1>6. config.periodic # {} => folded.from = ticked.from
  BY <1>1, <1>3, Zenon DEF FoldIsReplay
<1>7. FoldIsReplay'
  BY <1>1, <1>4, <1>5, <1>6, Zenon DEF FoldIsReplay
<1> QED
  BY <1>1, <1>3, <1>4, <1>7, Zenon DEF ModulationInv

(* The release. *)
LEMMA ReleaseKeeps ==
  ASSUME ModulationInv, ticks \in Nat, ReleaseBoth
  PROVE  ModulationInv' /\ ticks' \in Nat
<1> DEFINE w == ReleaseEnvelope(folded)
           x == ReleaseEnvelope(ticked)
<1>1. /\ ~fault /\ ~fault' /\ config' = config /\ ticks' = ticks
      /\ folded' = w /\ ticked' = x /\ folded.stage # "release"
  BY DEF ReleaseBoth
<1>2. config \in Configs /\ folded \in Live /\ ticked \in Live /\ FoldIsReplay
  BY <1>1, LiveStages, Zenon DEF ModulationInv
<1>3. ASSUME NEW v \in Live
      PROVE  LET r == ReleaseEnvelope(v) IN r \in Released /\ r.from = v.level /\ r.level = v.level
  BY DEF ReleaseEnvelope, Live, Released, Clocks
<1>4. /\ w \in Released /\ w.from = folded.level /\ w.level = folded.level
      /\ x \in Released /\ x.from = ticked.level
  BY <1>2, <1>3
<1> HIDE DEF w, x
<1>5. folded.level \in Int
  BY <1>2, ModulationAssumption DEF Live, Clocks, Levels
<1>6. w.level <= w.from
  BY <1>4, <1>5
<1>7. config.periodic # {} => folded.level = ticked.level
  BY <1>1, <1>2, Zenon DEF FoldIsReplay, SameClock
<1>8. folded'.stage = "release"
  BY <1>1, <1>4, LiveStages, Zenon
<1>9. FoldIsReplay'
  BY <1>1, <1>4, <1>6, <1>7, <1>8, Zenon DEF FoldIsReplay
<1> QED
  BY <1>1, <1>2, <1>4, <1>9, Zenon DEF ModulationInv

(* A controller. *)
LEMMA ControllerKeeps ==
  ASSUME ModulationInv, ticks \in Nat, NEW groups, groups # {}, Controller(groups)
  PROVE  ModulationInv' /\ ticks' \in Nat
<1> DEFINE x == Refreshed(ticked, config, Groups, TRUE)
<1>1. /\ ~fault /\ ~fault' /\ config' = config /\ folded' = folded /\ ticked' = x /\ ticks' = ticks
      /\ dirty' # {}
  BY DEF Controller
<1>2. /\ config \in Configs /\ FoldIsReplay
      /\ \/ /\ folded \in Live /\ ticked \in Live
            /\ Quiet(folded, config) /\ Quiet(ticked, config)
         \/ folded \in Released /\ ticked \in Released
  BY <1>1, Zenon DEF ModulationInv
<1>3. /\ ticked \in Live => x \in Live /\ (Quiet(ticked, config) => Quiet(x, config))
      /\ ticked \in Released => x \in Released
      /\ SameClock(x, ticked)
  <2>1. CASE ticked \in Live
    <3>1. x \in Live /\ SameClock(x, ticked) /\ (Quiet(ticked, config) => Quiet(x, config))
      BY <2>1, RefreshedKeeps DEF Live
    <3>2. ticked \notin Released
      BY <2>1, LiveStages
    <3> QED
      BY <3>1, <3>2
  <2>2. CASE ticked \in Released
    <3>1. x \in Released /\ SameClock(x, ticked)
      BY <2>2, RefreshedKeeps DEF Released
    <3>2. ticked \notin Live
      BY <2>2, LiveStages
    <3> QED
      BY <3>1, <3>2
  <2> QED
    BY <1>2, <2>1, <2>2
<1> HIDE DEF x
<1>4. FoldIsReplay'
  BY <1>1, <1>2, <1>3, Zenon DEF FoldIsReplay, SameClock
<1> QED
  BY <1>1, <1>2, <1>3, <1>4, Zenon DEF ModulationInv

(* Every step keeps the invariant. *)
LEMMA ModulationNext_Inv ==
  ASSUME ModulationInv, ticks \in Nat, [ModulationNext]_modulationVars
  PROVE  ModulationInv' /\ ticks' \in Nat
<1>1. ASSUME NEW n \in 1 .. MaxElapsed, NEW g \in Groups, VisitFails(n, g)
      PROVE  ModulationInv' /\ ticks' \in Nat
  <2>1. fault' /\ config' = config /\ ticks' = ticks
    BY <1>1, Zenon DEF VisitFails
  <2> QED
    BY <2>1, Zenon DEF ModulationInv
<1>2. ASSUME NEW groups \in {{"pitch"}, Groups}, Controller(groups)
      PROVE  ModulationInv' /\ ticks' \in Nat
  <2>1. groups # {}
    BY DEF Groups
  <2> QED
    BY <1>2, <2>1, ControllerKeeps
<1>3. ASSUME TogglePeriodic PROVE ModulationInv' /\ ticks' \in Nat
  <2>1. /\ config' = config /\ folded' = folded /\ ticked' = ticked /\ ticks' = ticks
        /\ fault' = fault /\ dirty' # {} /\ ~fault
    BY <1>3 DEF TogglePeriodic, Groups
  <2> QED
    BY <2>1, Zenon DEF ModulationInv, FoldIsReplay
<1>4. ASSUME UNCHANGED modulationVars PROVE ModulationInv' /\ ticks' \in Nat
  BY <1>4, Zenon DEF ModulationInv, FoldIsReplay, modulationVars
<1> QED
  BY <1>1, <1>2, <1>3, <1>4, VisitKeeps, LateVisitKeeps, ReleaseKeeps DEF ModulationNext

(* However late the firmware visits a voice, and whatever the lengths of   *)
(* the note's stages, the few arithmetic steps of                          *)
(* advance_voice_modulation_elapsed leave the envelope and the LFO of a    *)
(* voice with a periodic group as the host's tick-by-tick replay leaves    *)
(* them, and while modulation is on and no controller waits, its gain and  *)
(* pitch are computed from the same.  A voice without a periodic group is  *)
(* not advanced, and no filter is compared: the two refresh it on other    *)
(* ticks.  After the release a late visit only lowers the envelope.        *)
THEOREM FoldingIsReplaying == ModulationSpec => []FoldIsReplay
<1>1. ModulationInit => ModulationInv /\ ticks \in Nat
  BY ModulationInit_Inv
<1>2. ModulationInv /\ ticks \in Nat /\ [ModulationNext]_modulationVars
        => ModulationInv' /\ (ticks \in Nat)'
  BY ModulationNext_Inv
<1>3. ModulationInv => FoldIsReplay
  BY Zenon DEF ModulationInv, FoldIsReplay
<1> QED
  BY <1>1, <1>2, <1>3, PTL DEF ModulationSpec

-----------------------------------------------------------------------------
(* HostPlayer: what is pending makes up for what the FPGA lacks. *)

(* Commands and voices. *)
LifecycleCommands ==
  [op : {"START"}, v : HostVoiceIds, g : Nat, value : [UpdateKinds -> Values]]
    \cup [op : {"RELEASE", "STOP"}, v : HostVoiceIds, g : Nat]
UpdateCommands ==
  [op : {"UPDATE"}, v : HostVoiceIds, g : Nat, kind : UpdateKinds, val : Values]
HostCommands == LifecycleCommands \cup UpdateCommands
UpdateSlots == [UpdateKinds -> UpdateCommands \cup {NoCommand}]
HostVoice ==
  [gen : Nat, state : {"off", "on", "released", "stopped"}, value : [UpdateKinds -> Values]]

(* The variables' types. *)
HostTypeOK ==
  /\ intent \in [HostVoiceIds -> HostVoice] /\ fpga \in [HostVoiceIds -> HostVoice]
  /\ control \in [UpdateKinds -> Values] /\ midi \in Seq(MidiEvents)
  /\ lifecycle \in Seq(LifecycleCommands) /\ transaction \in Seq(HostCommands)
  /\ replaceable \in [HostVoiceIds -> UpdateSlots]
  /\ cursor \in Nat
  /\ fatal \in BOOLEAN /\ abandoned \in BOOLEAN /\ stopping \in BOOLEAN
  /\ worker \in {"wait", "write", "ended"}

(* The commands still to be applied after the first n of transaction ts,   *)
(* with queue ls behind it.                                                *)
Ahead(ts, n, ls) == {ts[i] : i \in n + 1 .. Len(ts)} \cup {ls[i] : i \in 1 .. Len(ls)}

(* A START is newer than everything before it for its voice. *)
Newest(c, earlier) == c.op = "START" => \A b \in earlier : b.v = c.v => b.g < c.g

StartsNewest(ts, ls) ==
  /\ \A i \in 1 .. Len(ts) : Newest(ts[i], {ts[j] : j \in 1 .. i - 1})
  /\ \A i \in 1 .. Len(ls) :
       /\ Newest(ls[i], {ts[j] : j \in 1 .. Len(ts)})
       /\ Newest(ls[i], {ls[j] : j \in 1 .. i - 1})

(* No pending command contradicts what main wants of voice v, w, unless a  *)
(* newer one makes up for it.                                              *)
PendingFits(pending, waiting, w, v) ==
  \A c \in pending : c.v = v =>
    /\ w.state # "off" /\ c.g <= w.gen
    /\ c.g = w.gen => /\ w.state = "on" => c.op \notin {"RELEASE", "STOP"}
                      /\ w.state = "released" => c.op # "STOP"
                      /\ c.op = "UPDATE" /\ w.state # "stopped" /\ waiting[c.kind].op = "NONE" =>
                           c.val = w.value[c.kind]

(* An update waits in its own slot, for the note that plays, with the      *)
(* value main wants.                                                       *)
SlotsFit(waiting, w, v) ==
  \A k \in UpdateKinds : waiting[k].op # "NONE" =>
    /\ w.state \in {"on", "released"}
    /\ waiting[k].v = v /\ waiting[k].kind = k /\ waiting[k].g = w.gen /\ waiting[k].val = w.value[k]

StartAhead(pending, v) == \E c \in pending : c.op = "START" /\ c.v = v
CommandAhead(pending, op, v, g) == \E c \in pending : c.op = op /\ c.v = v /\ c.g = g

(* What the FPGA holds of voice v, f, becomes what main wants, w: where it *)
(* differs a pending command says so.                                      *)
VoiceFollows(f, pending, waiting, w, v) ==
  /\ IF StartAhead(pending, v) THEN CommandAhead(pending, "START", v, w.gen) ELSE f.gen = w.gen
  /\ w.state = "off" => f.state = "off"
  /\ w.state = "on" => StartAhead(pending, v) \/ f.state = "on"
  /\ w.state = "released" =>
       /\ \/ CommandAhead(pending, "RELEASE", v, w.gen)
          \/ ~StartAhead(pending, v) /\ f.state = "released"
       /\ StartAhead(pending, v) \/ f.state \in {"on", "released"}
  /\ w.state = "stopped" =>
       \/ CommandAhead(pending, "STOP", v, w.gen)
       \/ ~StartAhead(pending, v) /\ f.state = "stopped"
  /\ w.state # "stopped" =>
       \A k \in UpdateKinds :
         \/ waiting[k].op # "NONE"
         \/ \E c \in pending : c.op = "UPDATE" /\ c.v = v /\ c.g = w.gen /\ c.kind = k
         \/ \E c \in pending : /\ c.op = "START" /\ c.v = v /\ c.g = w.gen
                               /\ c.value[k] = w.value[k]
         \/ ~StartAhead(pending, v) /\ f.value[k] = w.value[k]

(* Everything about the commands under way. *)
DeliveryOK(f, ts, ls, r, w) ==
  /\ StartsNewest(ts, ls)
  /\ \A v \in HostVoiceIds :
       /\ PendingFits(Ahead(ts, 0, ls), r[v], w[v], v)
       /\ SlotsFit(r[v], w[v], v)
       /\ VoiceFollows(f[v], Ahead(ts, 0, ls), r[v], w[v], v)

(* The inductive invariant.  Nothing is asked of the commands once main    *)
(* has failed or a transaction was given up.                               *)
HostInv ==
  /\ HostTypeOK
  /\ worker # "write" => transaction = << >>
  /\ abandoned => stopping
  /\ stopping => main \in {"shutdown", "exit"}
  /\ ~fatal /\ ~abandoned => DeliveryOK(fpga, transaction, lifecycle, replaceable, intent)
  /\ ~fatal /\ main \in {"drain", "shutdown", "exit"} => \A v \in HostVoiceIds : ~Playing(v)
  /\ ~fatal /\ main \in {"shutdown", "exit"} =>
       Idle /\ \A v \in HostVoiceIds : fpga[v].state \notin {"on", "released"}

(* The constants as numbers. *)
LEMMA HostNumbers ==
  /\ HostVoiceCount \in Nat /\ HostVoiceCount > 0
  /\ KindList \in Seq(STRING) /\ KindCount \in Nat /\ KindCount > 0
  /\ StartWords \in Nat /\ TransactionWords \in Nat /\ 1 <= StartWords
  /\ StartWords <= TransactionWords
<1>1. Len(KindList) \in Nat /\ Len(KindList) > 0
  BY HostAssumption
<1> QED
  BY <1>1, HostAssumption DEF KindCount

(* A command's fields. *)
LEMMA CommandFields ==
  ASSUME NEW c \in HostCommands
  PROVE  /\ c.op \in {"START", "RELEASE", "STOP", "UPDATE"} /\ c.v \in HostVoiceIds /\ c.g \in Nat
         /\ c.op = "START" => c.value \in [UpdateKinds -> Values]
         /\ c.op = "UPDATE" => c.kind \in UpdateKinds /\ c.val \in Values
         /\ c \in LifecycleCommands <=> c.op # "UPDATE"
  BY DEF HostCommands, LifecycleCommands, UpdateCommands

(* The FPGA takes a command: its voice becomes one of these, the others    *)
(* stay.                                                                   *)
LEMMA AppliedVoice ==
  ASSUME NEW f \in [HostVoiceIds -> HostVoice], NEW c \in HostCommands
  PROVE  /\ Applied(f, c) \in [HostVoiceIds -> HostVoice]
         /\ \A v \in HostVoiceIds : v # c.v => Applied(f, c)[v] = f[v]
         /\ c.op = "START" =>
              /\ Applied(f, c)[c.v].gen = c.g /\ Applied(f, c)[c.v].state = "on"
              /\ Applied(f, c)[c.v].value = c.value
         /\ c.op # "START" => Applied(f, c)[c.v].gen = f[c.v].gen
         /\ c.op # "START" /\ (f[c.v].gen # c.g \/ f[c.v].state = "stopped") =>
              Applied(f, c)[c.v] = f[c.v]
         /\ c.op # "START" /\ f[c.v].gen = c.g /\ f[c.v].state # "stopped" =>
              /\ c.op = "RELEASE" => Applied(f, c)[c.v].state = "released"
              /\ c.op = "STOP" => Applied(f, c)[c.v].state = "stopped"
              /\ c.op = "UPDATE" => /\ Applied(f, c)[c.v].state = f[c.v].state
                                    /\ Applied(f, c)[c.v].value =
                                         [f[c.v].value EXCEPT ![c.kind] = c.val]
              /\ c.op # "UPDATE" => Applied(f, c)[c.v].value = f[c.v].value
<1> DEFINE a == Applied(f, c)
<1>1. /\ c.op \in {"START", "RELEASE", "STOP", "UPDATE"} /\ c.v \in HostVoiceIds /\ c.g \in Nat
      /\ c.op = "START" => c.value \in [UpdateKinds -> Values]
      /\ c.op = "UPDATE" => c.kind \in UpdateKinds /\ c.val \in Values
  BY CommandFields
<1>2. f[c.v] \in HostVoice
  BY <1>1
<1>3. CASE c.op = "START"
  <2>1. a = [f EXCEPT ![c.v] = [gen |-> c.g, state |-> "on", value |-> c.value]]
    BY <1>3 DEF Applied
  <2>2. [gen |-> c.g, state |-> "on", value |-> c.value] \in HostVoice
    BY <1>1, <1>3 DEF HostVoice
  <2> HIDE DEF a
  <2>3. a \in [HostVoiceIds -> HostVoice] /\ \A v \in HostVoiceIds : v # c.v => a[v] = f[v]
    BY <1>1, <2>1, <2>2
  <2>4. a[c.v] = [gen |-> c.g, state |-> "on", value |-> c.value]
    BY <1>1, <2>1
  <2> QED
    BY <1>3, <2>3, <2>4 DEF a
<1>4. CASE c.op # "START" /\ (f[c.v].gen # c.g \/ f[c.v].state = "stopped")
  <2>1. a = f
    BY <1>4 DEF Applied
  <2> HIDE DEF a
  <2> QED
    BY <1>4, <2>1 DEF a
<1>5. CASE c.op # "START" /\ f[c.v].gen = c.g /\ f[c.v].state # "stopped"
  <2> DEFINE w == IF c.op = "RELEASE" THEN [f[c.v] EXCEPT !.state = "released"]
                  ELSE IF c.op = "STOP" THEN [f[c.v] EXCEPT !.state = "stopped"]
                  ELSE [f[c.v] EXCEPT !.value[c.kind] = c.val]
  <2>1. a = [f EXCEPT ![c.v] = w]
    <3>1. CASE c.op = "RELEASE"
      BY <1>5, <3>1 DEF Applied
    <3>2. CASE c.op = "STOP"
      BY <1>5, <3>2 DEF Applied
    <3>3. CASE c.op = "UPDATE"
      BY <1>5, <3>3 DEF Applied
    <3> QED
      BY <1>1, <1>5, <3>1, <3>2, <3>3
  <2>2. /\ w \in HostVoice /\ w.gen = f[c.v].gen
        /\ c.op = "RELEASE" => w.state = "released"
        /\ c.op = "STOP" => w.state = "stopped"
        /\ c.op = "UPDATE" => /\ w.state = f[c.v].state
                              /\ w.value = [f[c.v].value EXCEPT ![c.kind] = c.val]
        /\ c.op # "UPDATE" => w.value = f[c.v].value
    <3>1. CASE c.op = "RELEASE"
      BY <1>2, <3>1 DEF HostVoice
    <3>2. CASE c.op = "STOP"
      BY <1>2, <3>2 DEF HostVoice
    <3>3. CASE c.op = "UPDATE"
      BY <1>1, <1>2, <3>3 DEF HostVoice
    <3> QED
      BY <1>1, <1>5, <3>1, <3>2, <3>3
  <2> HIDE DEF a, w
  <2>3. a \in [HostVoiceIds -> HostVoice] /\ \A v \in HostVoiceIds : v # c.v => a[v] = f[v]
    BY <1>1, <2>1, <2>2
  <2>4. a[c.v] = w
    BY <1>1, <2>1
  <2> QED
    BY <1>5, <2>2, <2>3, <2>4 DEF a
<1> QED
  BY <1>3, <1>4, <1>5
(* One command later.  c is the command the FPGA takes and `rest' what is  *)
(* pending after it: a START in there is newer than c.                     *)
LEMMA VoiceFollowsOn ==
  ASSUME NEW f \in [HostVoiceIds -> HostVoice], NEW rest \in SUBSET HostCommands,
         NEW c \in HostCommands, NEW waiting \in UpdateSlots, NEW w \in HostVoice,
         NEW v \in HostVoiceIds,
         PendingFits(rest \cup {c}, waiting, w, v), VoiceFollows(f[v], rest \cup {c}, waiting, w, v),
         \A d \in rest : d.op = "START" /\ d.v = c.v => c.g < d.g
  PROVE  VoiceFollows(Applied(f, c)[v], rest, waiting, w, v)
<1> DEFINE a == Applied(f, c)
           pending == rest \cup {c}
<1>1. /\ c.op \in {"START", "RELEASE", "STOP", "UPDATE"} /\ c.v \in HostVoiceIds /\ c.g \in Nat
      /\ c.op = "UPDATE" => c.kind \in UpdateKinds
  BY CommandFields
<1>2. \A d \in rest : d.g \in Nat
  BY CommandFields
<1>3. w.gen \in Nat /\ w.state \in {"off", "on", "released", "stopped"}
  BY DEF HostVoice
<1>4. CASE c.v # v
  <2>1. a[v] = f[v]
    BY <1>4, AppliedVoice
  <2>2. \A d \in pending : d.v = v => d \in rest
    BY <1>4
  <2>3. StartAhead(pending, v) <=> StartAhead(rest, v)
    BY <2>2 DEF StartAhead
  <2>4. \A op, g : CommandAhead(pending, op, v, g) <=> CommandAhead(rest, op, v, g)
    BY <2>2 DEF CommandAhead
  <2> QED
    BY <2>1, <2>2, <2>3, <2>4 DEF VoiceFollows, a
<1>5. CASE c.v = v
  <2>1. /\ w.state # "off" /\ c.g <= w.gen
        /\ \A d \in rest : d.v = v => d.g <= w.gen
    BY <1>5 DEF PendingFits
  <2>2. f[v] \in HostVoice /\ a[v] \in HostVoice
    BY AppliedVoice
  <2>3. CASE c.g # w.gen
    <3>1. StartAhead(rest, v) => StartAhead(pending, v)
      BY DEF StartAhead
    <3>2. \A op : CommandAhead(pending, op, v, w.gen) <=> CommandAhead(rest, op, v, w.gen)
      BY <2>3 DEF CommandAhead
    <3>3. CASE StartAhead(rest, v)
      BY <2>1, <2>3, <3>1, <3>2, <3>3 DEF VoiceFollows
    <3>4. CASE ~StartAhead(rest, v)
      <4>1. ~CommandAhead(pending, "START", v, w.gen)
        BY <3>2, <3>4 DEF StartAhead, CommandAhead
      <4>2. ~StartAhead(pending, v) /\ f[v].gen = w.gen
        BY <4>1 DEF VoiceFollows
      <4>3. c.op # "START"
        BY <1>5, <4>2 DEF StartAhead
      <4>4. a[v] = f[v]
        BY <1>5, <2>3, <4>2, <4>3, AppliedVoice
      <4> HIDE DEF a
      <4> QED
        BY <2>3, <3>2, <3>4, <4>2, <4>4 DEF VoiceFollows, a
    <3> QED
      BY <3>3, <3>4
  <2>4. CASE c.g = w.gen
    <3>1. ~StartAhead(rest, v) /\ \A d \in rest : ~(d.op = "START" /\ d.v = v)
      BY <1>1, <1>2, <1>3, <1>5, <2>1, <2>4 DEF StartAhead
    <3>2. \A op : CommandAhead(pending, op, v, w.gen) => op = c.op \/ CommandAhead(rest, op, v, w.gen)
      BY DEF CommandAhead
    <3>3. CASE c.op = "START"
      <4>1. a[v].gen = w.gen /\ a[v].state = "on" /\ a[v].value = c.value
        BY <1>5, <2>4, <3>3, AppliedVoice
      <4>2. StartAhead(pending, v)
        BY <1>5, <3>3 DEF StartAhead
      <4>3. w.state = "released" => CommandAhead(rest, "RELEASE", v, w.gen)
        BY <3>2, <3>3, <4>2 DEF VoiceFollows
      <4>4. w.state = "stopped" => CommandAhead(rest, "STOP", v, w.gen)
        BY <3>2, <3>3, <4>2 DEF VoiceFollows
      <4>5. ASSUME w.state # "stopped", NEW k \in UpdateKinds, waiting[k].op = "NONE"
            PROVE  \/ \E d \in rest : d.op = "UPDATE" /\ d.v = v /\ d.g = w.gen /\ d.kind = k
                   \/ a[v].value[k] = w.value[k]
        BY <3>1, <3>3, <4>1, <4>2, <4>5 DEF VoiceFollows
      <4> HIDE DEF a
      <4> QED
        BY <2>1, <3>1, <4>1, <4>3, <4>4, <4>5 DEF VoiceFollows, a
    <3>4. CASE c.op # "START"
      <4>1. ~StartAhead(pending, v)
        BY <3>1, <3>4 DEF StartAhead
      <4>2. f[v].gen = w.gen
        BY <4>1 DEF VoiceFollows
      <4>3. CASE f[v].state = "stopped"
        <5>1. a[v] = f[v]
          BY <1>5, <3>4, <4>3, AppliedVoice
        <5>2. w.state = "stopped"
          BY <1>3, <2>1, <4>1, <4>3 DEF VoiceFollows
        <5> HIDE DEF a
        <5> QED
          BY <3>1, <4>2, <4>3, <5>1, <5>2 DEF VoiceFollows, a
      <4>4. CASE f[v].state # "stopped"
        <5>1. /\ a[v].gen = f[v].gen
              /\ c.op = "RELEASE" => a[v].state = "released"
              /\ c.op = "STOP" => a[v].state = "stopped"
              /\ c.op = "UPDATE" => /\ a[v].state = f[v].state
                                    /\ a[v].value = [f[v].value EXCEPT ![c.kind] = c.val]
              /\ c.op # "UPDATE" => a[v].value = f[v].value
          BY <1>5, <2>4, <3>4, <4>2, <4>4, AppliedVoice
        <5> HIDE DEF a
        <5>2. CASE c.op = "STOP"
          <6>1. w.state = "stopped"
            BY <1>3, <1>5, <2>1, <2>4, <5>2 DEF PendingFits
          <6> QED
            BY <3>1, <4>2, <5>1, <5>2, <6>1 DEF VoiceFollows, a
        <5>3. CASE c.op = "RELEASE"
          <6>1. w.state \in {"released", "stopped"}
            BY <1>3, <1>5, <2>1, <2>4, <5>3 DEF PendingFits
          <6>2. w.state = "stopped" => CommandAhead(rest, "STOP", v, w.gen)
            BY <3>2, <4>4, <5>3 DEF VoiceFollows
          <6>3. ASSUME w.state # "stopped", NEW k \in UpdateKinds, waiting[k].op = "NONE"
                PROVE  \/ \E d \in rest : d.op = "UPDATE" /\ d.v = v /\ d.g = w.gen /\ d.kind = k
                       \/ a[v].value[k] = w.value[k]
            BY <3>1, <3>4, <5>1, <5>3, <6>3 DEF VoiceFollows
          <6> QED
            BY <3>1, <4>2, <5>1, <5>3, <6>1, <6>2, <6>3 DEF VoiceFollows, a
        <5>4. CASE c.op = "UPDATE"
          <6>1. a[v].state = f[v].state
            BY <5>1, <5>4
          <6>2. \A op : op # "UPDATE" /\ CommandAhead(pending, op, v, w.gen) =>
                          CommandAhead(rest, op, v, w.gen)
            BY <3>2, <5>4
          <6>3. ASSUME w.state # "stopped", NEW k \in UpdateKinds, waiting[k].op = "NONE"
                PROVE  \/ \E d \in rest : d.op = "UPDATE" /\ d.v = v /\ d.g = w.gen /\ d.kind = k
                       \/ a[v].value[k] = w.value[k]
            <7>1. a[v].value = [f[v].value EXCEPT ![c.kind] = c.val]
                  /\ f[v].value \in [UpdateKinds -> Values]
              BY <2>2, <5>1, <5>4 DEF HostVoice
            <7>2. CASE c.kind = k
              <8>1. c.val = w.value[k]
                BY <1>5, <2>4, <5>4, <6>3, <7>2 DEF PendingFits
              <8> QED
                BY <7>1, <7>2, <8>1
            <7>3. CASE c.kind # k
              <8>1. a[v].value[k] = f[v].value[k]
                BY <7>1, <7>3
              <8> QED
                BY <3>1, <3>4, <6>3, <7>3, <8>1 DEF VoiceFollows, a
            <7> QED
              BY <7>2, <7>3
          <6> QED
            BY <2>1, <3>1, <4>1, <4>2, <5>1, <6>1, <6>2, <6>3 DEF VoiceFollows, a
        <5> QED
          BY <1>1, <3>4, <5>2, <5>3, <5>4
      <4> QED
        BY <4>3, <4>4
    <3> QED
      BY <3>3, <3>4
  <2> QED
    BY <2>3, <2>4
<1> QED
  BY <1>4, <1>5

(* A command that has been taken once may be pending again. *)
LEMMA VoiceFollowsAgain ==
  ASSUME NEW f, NEW h, NEW pending, NEW rest \in SUBSET pending, NEW waiting, NEW w, NEW v,
         VoiceFollows(f, pending, waiting, w, v), VoiceFollows(h, rest, waiting, w, v)
  PROVE  VoiceFollows(h, pending, waiting, w, v)
<1>1. StartAhead(rest, v) => StartAhead(pending, v)
  BY DEF StartAhead
<1>2. \A op, g : CommandAhead(rest, op, v, g) => CommandAhead(pending, op, v, g)
  BY DEF CommandAhead
<1>3. CASE StartAhead(pending, v)
  BY <1>3 DEF VoiceFollows
<1>4. CASE ~StartAhead(pending, v)
  BY <1>1, <1>2, <1>4 DEF VoiceFollows
<1> QED
  BY <1>3, <1>4

(* What is ahead, one command later. *)
LEMMA AheadStep ==
  ASSUME NEW ts \in Seq(HostCommands), NEW ls \in Seq(LifecycleCommands), NEW n \in 1 .. Len(ts)
  PROVE  /\ ts[n] \in HostCommands /\ Ahead(ts, n, ls) \in SUBSET HostCommands
         /\ Ahead(ts, n - 1, ls) = Ahead(ts, n, ls) \cup {ts[n]}
         /\ Ahead(ts, n - 1, ls) \in SUBSET Ahead(ts, 0, ls)
         /\ StartsNewest(ts, ls) =>
              \A d \in Ahead(ts, n, ls) : d.op = "START" /\ d.v = ts[n].v => ts[n].g < d.g
<1>1. Len(ts) \in Nat /\ Len(ls) \in Nat /\ n \in Nat /\ n >= 1 /\ n <= Len(ts)
  OBVIOUS
<1>2. \A i \in 1 .. Len(ts) : ts[i] \in HostCommands
  OBVIOUS
<1>3. \A i \in 1 .. Len(ls) : ls[i] \in HostCommands
  BY DEF HostCommands
<1>4. n - 1 + 1 .. Len(ts) = {n} \cup (n + 1 .. Len(ts)) /\ n + 1 .. Len(ts) \subseteq 1 .. Len(ts)
      /\ 0 + 1 = 1 /\ n - 1 + 1 .. Len(ts) \subseteq 1 .. Len(ts)
  BY <1>1
<1>5. Ahead(ts, n, ls) \in SUBSET HostCommands
  BY <1>2, <1>3, <1>4 DEF Ahead
<1>6. Ahead(ts, n - 1, ls) = Ahead(ts, n, ls) \cup {ts[n]}
  BY <1>4 DEF Ahead
<1>7. Ahead(ts, n - 1, ls) \in SUBSET Ahead(ts, 0, ls)
  BY <1>4 DEF Ahead
<1>8. ASSUME StartsNewest(ts, ls), NEW d \in Ahead(ts, n, ls), d.op = "START", d.v = ts[n].v
      PROVE  ts[n].g < d.g
  <2>1. CASE \E i \in n + 1 .. Len(ts) : d = ts[i]
    <3>1. PICK i \in n + 1 .. Len(ts) : d = ts[i]
      BY <2>1
    <3>2. i \in 1 .. Len(ts) /\ n \in 1 .. i - 1
      BY <1>1, <3>1
    <3>3. Newest(ts[i], {ts[j] : j \in 1 .. i - 1})
      BY <1>8, <3>2 DEF StartsNewest
    <3> QED
      BY <1>8, <3>1, <3>2, <3>3 DEF Newest
  <2>2. CASE \E i \in 1 .. Len(ls) : d = ls[i]
    <3>1. PICK i \in 1 .. Len(ls) : d = ls[i]
      BY <2>2
    <3>2. Newest(ls[i], {ts[j] : j \in 1 .. Len(ts)})
      BY <1>8, <3>1 DEF StartsNewest
    <3> QED
      BY <1>8, <3>1, <3>2 DEF Newest
  <2> QED
    BY <1>8, <2>1, <2>2 DEF Ahead
<1> QED
  BY <1>2, <1>5, <1>6, <1>7, <1>8

(* A whole transaction later. *)
LEMMA DeliveredFollows ==
  ASSUME NEW f \in [HostVoiceIds -> HostVoice], NEW ts \in Seq(HostCommands),
         NEW ls \in Seq(LifecycleCommands), NEW r \in [HostVoiceIds -> UpdateSlots],
         NEW w \in [HostVoiceIds -> HostVoice]
  PROVE  /\ Delivered(f, ts) \in [HostVoiceIds -> HostVoice]
         /\ DeliveryOK(f, ts, ls, r, w) =>
              \A v \in HostVoiceIds :
                VoiceFollows(Delivered(f, ts)[v], Ahead(ts, Len(ts), ls), r[v], w[v], v)
<1> DEFINE n == Len(ts)
           ok == DeliveryOK(f, ts, ls, r, w)
           Right(h, k) == \A v \in HostVoiceIds :
                            VoiceFollows(h[v], Ahead(ts, k, ls), r[v], w[v], v)
           V == [k \in 0 .. n |-> {h \in [HostVoiceIds -> HostVoice] : ok => Right(h, k)}]
           G == [k \in 1 .. n |-> [h \in [HostVoiceIds -> HostVoice] |-> Applied(h, ts[k])]]
           Made(h) == h = [k \in 0 .. n |-> IF k = 0 THEN f ELSE Applied(h[k - 1], ts[k])]
<1>1. n \in Nat
  OBVIOUS
<1>2. f \in V[0]
  <2>1. ok => Right(f, 0)
    BY DEF DeliveryOK
  <2> HIDE DEF ok, Right
  <2> QED
    BY <1>1, <2>1
<1>3. ASSUME NEW k \in 1 .. n, NEW h \in V[k - 1]
      PROVE  h \in [HostVoiceIds -> HostVoice] /\ Applied(h, ts[k]) \in V[k]
  <2>1. k - 1 \in 0 .. n /\ k \in 0 .. n
    BY <1>1
  <2>2. h \in [HostVoiceIds -> HostVoice] /\ (ok => Right(h, k - 1))
    <3> HIDE DEF ok, Right
    <3> QED
      BY <1>3, <2>1
  <2>3. ts[k] \in HostCommands /\ Applied(h, ts[k]) \in [HostVoiceIds -> HostVoice]
    BY <2>2, AheadStep, AppliedVoice
  <2>4. ASSUME ok, NEW v \in HostVoiceIds
        PROVE  VoiceFollows(Applied(h, ts[k])[v], Ahead(ts, k, ls), r[v], w[v], v)
    <3> DEFINE rest == Ahead(ts, k, ls)
               c == ts[k]
               waiting == r[v]
               want == w[v]
    <3>1. /\ rest \in SUBSET HostCommands /\ Ahead(ts, k - 1, ls) = rest \cup {c}
          /\ Ahead(ts, k - 1, ls) \subseteq Ahead(ts, 0, ls)
          /\ \A d \in rest : d.op = "START" /\ d.v = c.v => c.g < d.g
      BY <2>4, AheadStep DEF DeliveryOK
    <3>2. PendingFits(Ahead(ts, 0, ls), waiting, want, v)
      BY <2>4 DEF DeliveryOK
    <3>3. PendingFits(rest \cup {c}, waiting, want, v)
      BY <3>1, <3>2 DEF PendingFits
    <3>4. VoiceFollows(h[v], rest \cup {c}, waiting, want, v)
      BY <2>2, <2>4, <3>1
    <3>5. waiting \in UpdateSlots /\ want \in HostVoice
      OBVIOUS
    <3> HIDE DEF rest, c, waiting, want
    <3>6. VoiceFollows(Applied(h, c)[v], rest, waiting, want, v)
      BY <2>2, <2>3, <3>1, <3>3, <3>4, <3>5, VoiceFollowsOn DEF c
    <3> QED
      BY <3>6 DEF rest, c, waiting, want
  <2>5. ok => Right(Applied(h, ts[k]), k)
    BY <2>4
  <2> HIDE DEF ok, Right
  <2> QED
    BY <2>1, <2>2, <2>3, <2>5
<1> HIDE DEF V
<1>4. \A k \in 1 .. n : \A h \in V[k - 1] : G[k][h] \in V[k]
  BY <1>3
<1>5. PICK h : Runs(h, f, G, n) /\ \A k \in 0 .. n : h[k] \in V[k]
  <2> HIDE DEF G, n
  <2> QED
    BY <1>1, <1>2, <1>4, RunInExists
<1>6. Made(h)
  <2>1. ASSUME NEW k \in 1 .. n PROVE G[k][h[k - 1]] = Applied(h[k - 1], ts[k])
    <3>1. k - 1 \in 0 .. n
      BY <1>1
    <3>2. h[k - 1] \in [HostVoiceIds -> HostVoice]
      BY <1>3, <1>5, <3>1
    <3> QED
      BY <3>2
  <2>2. ASSUME NEW k \in 0 .. n
        PROVE  (IF k = 0 THEN f ELSE G[k][h[k - 1]])
                 = IF k = 0 THEN f ELSE Applied(h[k - 1], ts[k])
    <3>1. k # 0 => k \in 1 .. n
      BY <1>1
    <3> QED
      BY <2>1, <3>1
  <2> HIDE DEF G
  <2> QED
    BY <1>5, <2>2 DEF Runs
<1> DEFINE made == CHOOSE x : Made(x)
<1>7. Made(made)
  BY <1>6
<1>8. Delivered(f, ts) = made[n]
  BY DEF Delivered
<1> HIDE DEF made
<1>9. \A k \in 0 .. n : made[k] \in V[k]
  <2>1. made[0] \in V[0]
    BY <1>1, <1>2, <1>7
  <2>2. ASSUME NEW k \in 1 .. n, made[k - 1] \in V[k - 1] PROVE made[k] \in V[k]
    <3>1. k \in 0 .. n /\ k # 0
      BY <1>1
    <3>2. made[k] = Applied(made[k - 1], ts[k])
      BY <1>7, <3>1
    <3> QED
      BY <1>3, <2>2, <3>2
  <2> HIDE DEF Made, n
  <2> QED
    BY <1>1, <2>1, <2>2, RunStaysIn
<1>10. made[n] \in V[n]
  BY <1>1, <1>9
<1>11. made[n] \in [HostVoiceIds -> HostVoice] /\ (ok => Right(made[n], n))
  <2>1. n \in 0 .. n
    BY <1>1
  <2> HIDE DEF ok, Right
  <2> QED
    BY <1>10, <2>1 DEF V
<1> QED
  BY <1>8, <1>11

-----------------------------------------------------------------------------
(* HostPlayer: a batch in the queues. *)

SchedulerRecord ==
  [lifecycle : Seq(LifecycleCommands), replaceable : [HostVoiceIds -> UpdateSlots],
   threw : BOOLEAN]

(* What a command makes of its voice's update slots. *)
SlotsAfter(waiting, c) ==
  IF c.op = "NONE" THEN waiting
  ELSE IF LifecycleCommand(c) THEN InvalidateUpdates(waiting, c) ELSE [waiting EXCEPT ![c.kind] = c]

(* Slots stay slots. *)
LEMMA SlotsAfterType ==
  ASSUME NEW waiting \in UpdateSlots, NEW c \in HostCommands
  PROVE  InvalidateUpdates(waiting, c) \in UpdateSlots /\ SlotsAfter(waiting, c) \in UpdateSlots
<1>1. InvalidateUpdates(waiting, c) \in UpdateSlots
  BY DEF InvalidateUpdates, UpdateSlots
<1>2. ASSUME ~LifecycleCommand(c) PROVE [waiting EXCEPT ![c.kind] = c] \in UpdateSlots
  <2>1. c.op = "UPDATE" /\ c.kind \in UpdateKinds /\ c \in UpdateCommands
    BY <1>2, CommandFields DEF LifecycleCommand, HostCommands
  <2> QED
    BY <2>1 DEF UpdateSlots
<1> QED
  BY <1>1, <1>2 DEF SlotsAfter

(* enqueue_one, when it does not throw. *)
LEMMA EnqueueOneFields ==
  ASSUME NEW q \in SchedulerRecord, NEW c \in HostCommands
  PROVE  /\ EnqueueOne(q, c) \in SchedulerRecord
         /\ ~EnqueueOne(q, c).threw =>
              /\ ~q.threw
              /\ EnqueueOne(q, c).lifecycle =
                   IF LifecycleCommand(c) THEN Append(q.lifecycle, c) ELSE q.lifecycle
              /\ \A v \in HostVoiceIds :
                   EnqueueOne(q, c).replaceable[v] =
                     IF v = c.v THEN SlotsAfter(q.replaceable[v], c) ELSE q.replaceable[v]
<1> DEFINE e == EnqueueOne(q, c)
           s == SlotsAfter(q.replaceable[c.v], c)
           u == InvalidateUpdates(q.replaceable[c.v], c)
           r == [q.replaceable EXCEPT ![c.v] = s]
           l == Append(q.lifecycle, c)
<1>1. /\ q.lifecycle \in Seq(LifecycleCommands) /\ q.replaceable \in [HostVoiceIds -> UpdateSlots]
      /\ q.threw \in BOOLEAN
      /\ q = [lifecycle |-> q.lifecycle, replaceable |-> q.replaceable, threw |-> q.threw]
  BY DEF SchedulerRecord
<1>2. c.v \in HostVoiceIds /\ c.op # "NONE" /\ (LifecycleCommand(c) <=> c \in LifecycleCommands)
  BY CommandFields DEF LifecycleCommand
<1>3. s \in UpdateSlots /\ (LifecycleCommand(c) => s = u)
      /\ (~LifecycleCommand(c) => s = [q.replaceable[c.v] EXCEPT ![c.kind] = c])
  BY <1>1, <1>2, SlotsAfterType DEF SlotsAfter
<1>4. r \in [HostVoiceIds -> UpdateSlots]
      /\ \A v \in HostVoiceIds : r[v] = IF v = c.v THEN s ELSE q.replaceable[v]
  BY <1>1, <1>2, <1>3
<1>5. CASE q.threw
  <2>1. e = q
    BY <1>5 DEF EnqueueOne
  <2> HIDE DEF e
  <2> QED
    BY <1>5, <2>1 DEF e
<1>6. CASE ~q.threw /\ ~LifecycleCommand(c)
  <2>1. e = [q EXCEPT !.replaceable[c.v][c.kind] = c]
    BY <1>6 DEF EnqueueOne
  <2>2. e = [lifecycle |-> q.lifecycle, replaceable |-> r, threw |-> FALSE]
    BY <1>1, <1>2, <1>3, <1>6, <2>1
  <2> HIDE DEF e, r, s
  <2>3. e \in SchedulerRecord /\ e.lifecycle = q.lifecycle /\ e.replaceable = r
    BY <1>1, <1>4, <2>2 DEF SchedulerRecord
  <2> QED
    BY <1>4, <1>6, <2>3 DEF e, s
<1>7. CASE ~q.threw /\ LifecycleCommand(c) /\ Len(q.lifecycle) = LifecycleCapacity
  <2>1. e = [q EXCEPT !.replaceable[c.v] = u, !.threw = TRUE]
    BY <1>7 DEF EnqueueOne
  <2>2. e = [lifecycle |-> q.lifecycle, replaceable |-> r, threw |-> TRUE]
    BY <1>1, <1>2, <1>3, <1>7, <2>1
  <2> HIDE DEF e, r, s
  <2>3. e \in SchedulerRecord /\ e.threw
    BY <1>1, <1>4, <2>2 DEF SchedulerRecord
  <2> QED
    BY <2>3 DEF e
<1>8. CASE ~q.threw /\ LifecycleCommand(c) /\ Len(q.lifecycle) # LifecycleCapacity
  <2>1. e = [q EXCEPT !.replaceable[c.v] = u, !.lifecycle = Append(@, c)]
    BY <1>8 DEF EnqueueOne
  <2>2. e = [lifecycle |-> l, replaceable |-> r, threw |-> FALSE]
    BY <1>1, <1>2, <1>3, <1>8, <2>1
  <2>3. l \in Seq(LifecycleCommands)
    BY <1>1, <1>2, <1>8
  <2> HIDE DEF e, r, s, l
  <2>4. e \in SchedulerRecord /\ e.lifecycle = l /\ e.replaceable = r
    BY <1>4, <2>2, <2>3 DEF SchedulerRecord
  <2> QED
    BY <1>4, <1>8, <2>4 DEF e, s, l
<1> QED
  BY <1>5, <1>6, <1>7, <1>8

(* Queue l is ls with the lifecycle commands of the first n voices of      *)
(* batch b behind it, in the voices' order.                                *)
QueueAfter(l, ls, b, n) ==
  /\ l \in Seq(LifecycleCommands) /\ Len(l) >= Len(ls)
  /\ \A i \in 1 .. Len(ls) : l[i] = ls[i]
  /\ \A i \in Len(ls) + 1 .. Len(l) : l[i].v < n /\ l[i] = b[l[i].v]
  /\ \A v \in HostVoiceIds : v < n /\ LifecycleCommand(b[v]) => \E i \in 1 .. Len(l) : l[i] = b[v]
  /\ \A i, j \in Len(ls) + 1 .. Len(l) : i < j => l[i].v < l[j].v

(* A batch: at most one command for each voice. *)
Batches ==
  {b \in [HostVoiceIds -> HostCommands \cup {NoCommand}] :
     \A v \in HostVoiceIds : b[v].op # "NONE" => b[v] \in HostCommands /\ b[v].v = v}

BatchIn(q, b, n) ==
  ~q.threw =>
    /\ QueueAfter(q.lifecycle, lifecycle, b, n)
    /\ \A v \in HostVoiceIds :
         q.replaceable[v] = IF v < n THEN SlotsAfter(replaceable[v], b[v]) ELSE replaceable[v]

(* The queue, one voice later. *)
LEMMA QueueAfterStep ==
  ASSUME NEW ls \in Seq(LifecycleCommands), NEW l, NEW b \in Batches,
         NEW v \in HostVoiceIds, QueueAfter(l, ls, b, v)
  PROVE  /\ b[v].op = "NONE" \/ ~LifecycleCommand(b[v]) => QueueAfter(l, ls, b, v + 1)
         /\ b[v].op # "NONE" /\ LifecycleCommand(b[v]) => QueueAfter(Append(l, b[v]), ls, b, v + 1)
<1>1. v \in Nat /\ \A x \in HostVoiceIds : x \in Nat /\ (x < v + 1 => x < v \/ x = v)
  BY HostNumbers DEF HostVoiceIds
<1>2. l \in Seq(LifecycleCommands) /\ Len(l) \in Nat /\ Len(ls) \in Nat /\ Len(l) >= Len(ls)
  BY DEF QueueAfter
<1>3. \A i \in 1 .. Len(l) : l[i] \in LifecycleCommands /\ l[i].v \in HostVoiceIds
  BY <1>2, CommandFields DEF HostCommands
<1>4. \A i \in Len(ls) + 1 .. Len(l) : i \in 1 .. Len(l)
  BY <1>2
<1>5. ASSUME b[v].op = "NONE" \/ ~LifecycleCommand(b[v]) PROVE QueueAfter(l, ls, b, v + 1)
  <2>1. ~LifecycleCommand(b[v])
    BY <1>5 DEF LifecycleCommand
  <2>2. \A x \in HostVoiceIds :
          x < v + 1 /\ LifecycleCommand(b[x]) => \E i \in 1 .. Len(l) : l[i] = b[x]
    BY <1>1, <2>1 DEF QueueAfter
  <2>3. ASSUME NEW i \in Len(ls) + 1 .. Len(l) PROVE l[i].v < v + 1 /\ l[i] = b[l[i].v]
    <3>1. l[i].v < v /\ l[i] = b[l[i].v]
      BY DEF QueueAfter
    <3>2. l[i].v \in Nat
      BY <1>1, <1>3, <1>4
    <3> QED
      BY <1>1, <3>1, <3>2
  <2> QED
    BY <2>2, <2>3 DEF QueueAfter
<1>6. ASSUME b[v].op # "NONE", LifecycleCommand(b[v])
      PROVE  QueueAfter(Append(l, b[v]), ls, b, v + 1)
  <2> DEFINE c == b[v]
             m == Append(l, c)
             n == Len(l)
  <2>1. c \in LifecycleCommands /\ c.v = v
    BY <1>6, CommandFields DEF Batches, LifecycleCommand
  <2>2. /\ m \in Seq(LifecycleCommands) /\ Len(m) = n + 1
        /\ \A i \in 1 .. n : m[i] = l[i]
        /\ m[n + 1] = c
    BY <1>2, <2>1, AppendTop
  <2>3. n \in Nat /\ n >= Len(ls)
    BY <1>2
  <2> HIDE DEF m, n
  <2>4. \A i \in 1 .. Len(ls) : m[i] = ls[i]
    BY <1>2, <2>2, <2>3 DEF QueueAfter, n
  <2>5. \A i \in Len(ls) + 1 .. n + 1 : i = n + 1 \/ i \in Len(ls) + 1 .. Len(l)
    BY <1>2, <2>3 DEF n
  <2>6. \A i \in Len(ls) + 1 .. Len(l) : m[i] = l[i] /\ m[i].v < v /\ m[i] = b[m[i].v]
    BY <1>4, <2>2 DEF QueueAfter, n
  <2>7. ASSUME NEW i \in Len(ls) + 1 .. Len(m) PROVE m[i].v < v + 1 /\ m[i] = b[m[i].v]
    <3>1. CASE i = n + 1
      BY <1>1, <2>1, <2>2, <3>1
    <3>2. CASE i \in Len(ls) + 1 .. Len(l)
      <4>1. m[i].v < v /\ m[i] = b[m[i].v] /\ m[i].v \in Nat
        BY <1>1, <1>3, <1>4, <2>6, <3>2
      <4> QED
        BY <1>1, <4>1
    <3> QED
      BY <2>2, <2>5, <3>1, <3>2
  <2>8. ASSUME NEW x \in HostVoiceIds, x < v + 1, LifecycleCommand(b[x])
        PROVE  \E i \in 1 .. Len(m) : m[i] = b[x]
    <3>1. CASE x = v
      <4>1. n + 1 \in 1 .. Len(m)
        BY <2>2, <2>3
      <4> QED
        BY <2>2, <3>1, <4>1
    <3>2. CASE x < v
      <4>1. PICK i \in 1 .. Len(l) : l[i] = b[x]
        BY <2>8, <3>2 DEF QueueAfter
      <4>2. i \in 1 .. Len(m) /\ m[i] = l[i]
        BY <2>2, <2>3, <4>1 DEF n
      <4> QED
        BY <4>1, <4>2
    <3> QED
      BY <1>1, <2>8, <3>1, <3>2
  <2>9. ASSUME NEW i \in Len(ls) + 1 .. Len(m), NEW j \in Len(ls) + 1 .. Len(m), i < j
        PROVE  m[i].v < m[j].v
    <3>1. i \in Len(ls) + 1 .. Len(l) /\ (j = n + 1 \/ j \in Len(ls) + 1 .. Len(l))
      BY <1>2, <2>2, <2>3, <2>5, <2>9 DEF n
    <3> QED
      BY <2>1, <2>2, <2>6, <2>9, <3>1 DEF QueueAfter
  <2>10. Len(m) >= Len(ls)
    BY <1>2, <2>2, <2>3
  <2> QED
    BY <2>2, <2>4, <2>7, <2>8, <2>9, <2>10 DEF QueueAfter, m
<1> QED
  BY <1>5, <1>6

(* The whole batch. *)
LEMMA EnqueuedBatch ==
  ASSUME HostTypeOK, NEW b \in Batches
  PROVE  Enqueued(b) \in SchedulerRecord /\ BatchIn(Enqueued(b), b, HostVoiceCount)
<1> DEFINE n == HostVoiceCount
           Step(q, k) == IF b[k - 1].op = "NONE" THEN q ELSE EnqueueOne(q, b[k - 1])
           V == [k \in 0 .. n |-> {q \in SchedulerRecord : BatchIn(q, b, k)}]
           G == [k \in 1 .. n |-> [q \in SchedulerRecord |-> Step(q, k)]]
           Made(h) == h = [k \in 0 .. n |->
                             IF k = 0 THEN Scheduler
                             ELSE IF b[k - 1].op = "NONE" THEN h[k - 1]
                             ELSE EnqueueOne(h[k - 1], b[k - 1])]
<1>1. n \in Nat /\ HostVoiceIds = 0 .. n - 1
  BY HostNumbers DEF HostVoiceIds
<1>2. Scheduler \in V[0]
  <2>1. /\ Scheduler.lifecycle = lifecycle /\ Scheduler.replaceable = replaceable
        /\ Scheduler \in SchedulerRecord
    BY DEF Scheduler, SchedulerRecord, HostTypeOK
  <2>2. lifecycle \in Seq(LifecycleCommands) /\ Len(lifecycle) \in Nat
    BY DEF HostTypeOK
  <2>3. QueueAfter(lifecycle, lifecycle, b, 0)
    <3>1. \A i \in Len(lifecycle) + 1 .. Len(lifecycle) : FALSE
      BY <2>2
    <3>2. \A v \in HostVoiceIds : ~(v < 0)
      BY <1>1
    <3> QED
      BY <2>2, <3>1, <3>2 DEF QueueAfter
  <2>4. BatchIn(Scheduler, b, 0)
    BY <1>1, <2>1, <2>3 DEF BatchIn
  <2> QED
    BY <1>1, <2>1, <2>4
<1>3. ASSUME NEW k \in 1 .. n, NEW q \in V[k - 1]
      PROVE  q \in SchedulerRecord /\ Step(q, k) \in V[k]
  <2> DEFINE v == k - 1
             c == b[v]
             e == EnqueueOne(q, c)
  <2>1. k - 1 \in 0 .. n /\ k \in 0 .. n /\ v \in HostVoiceIds /\ v + 1 = k /\ v \in Nat
    BY <1>1
  <2>2. q \in SchedulerRecord /\ BatchIn(q, b, v)
    BY <1>3, <2>1
  <2>3. \A x \in HostVoiceIds : (x < k <=> x < v \/ x = v) /\ ~(v < v)
    BY <1>1, <2>1
  <2>4. CASE c.op = "NONE"
    <3>1. Step(q, k) = q
      BY <2>4
    <3>2. ASSUME ~q.threw PROVE QueueAfter(q.lifecycle, lifecycle, b, k)
      BY <2>1, <2>2, <2>4, <3>2, QueueAfterStep DEF BatchIn, HostTypeOK
    <3>3. ASSUME ~q.threw, NEW x \in HostVoiceIds
          PROVE  q.replaceable[x] = IF x < k THEN SlotsAfter(replaceable[x], b[x])
                                    ELSE replaceable[x]
      BY <2>2, <2>3, <2>4, <3>3 DEF BatchIn, SlotsAfter
    <3>4. BatchIn(q, b, k)
      BY <3>2, <3>3 DEF BatchIn
    <3> HIDE DEF Step
    <3> QED
      BY <2>1, <2>2, <3>1, <3>4
  <2>5. CASE c.op # "NONE"
    <3>1. Step(q, k) = e
      BY <2>5
    <3>2. c \in HostCommands /\ c.v = v
      BY <2>1, <2>5 DEF Batches
    <3> HIDE DEF c
    <3>3. /\ e \in SchedulerRecord
          /\ ~e.threw =>
               /\ ~q.threw
               /\ e.lifecycle = IF LifecycleCommand(c) THEN Append(q.lifecycle, c) ELSE q.lifecycle
               /\ \A x \in HostVoiceIds :
                    e.replaceable[x] = IF x = c.v THEN SlotsAfter(q.replaceable[x], c)
                                       ELSE q.replaceable[x]
      BY <2>2, <3>2, EnqueueOneFields
    <3> HIDE DEF e
    <3>4. ASSUME ~e.threw PROVE QueueAfter(e.lifecycle, lifecycle, b, k)
      BY <2>1, <2>2, <2>5, <3>3, <3>4, QueueAfterStep DEF BatchIn, HostTypeOK, c
    <3>5. ASSUME ~e.threw, NEW x \in HostVoiceIds
          PROVE  e.replaceable[x] = IF x < k THEN SlotsAfter(replaceable[x], b[x])
                                    ELSE replaceable[x]
      <4>1. q.replaceable[x] = IF x < v THEN SlotsAfter(replaceable[x], b[x])
                               ELSE replaceable[x]
        BY <2>2, <3>3, <3>5 DEF BatchIn
      <4>2. CASE x = v
        BY <2>3, <3>2, <3>3, <3>5, <4>1, <4>2 DEF c
      <4>3. CASE x # v
        BY <2>3, <3>2, <3>3, <3>5, <4>1, <4>3
      <4> QED
        BY <4>2, <4>3
    <3>6. BatchIn(e, b, k)
      BY <3>4, <3>5 DEF BatchIn
    <3> HIDE DEF Step
    <3> QED
      BY <2>1, <2>2, <3>1, <3>3, <3>6
  <2> QED
    BY <2>4, <2>5
<1> HIDE DEF V
<1>4. \A k \in 1 .. n : \A q \in V[k - 1] : G[k][q] \in V[k]
  BY <1>3
<1>5. PICK h : Runs(h, Scheduler, G, n) /\ \A k \in 0 .. n : h[k] \in V[k]
  <2> HIDE DEF G, n
  <2> QED
    BY <1>1, <1>2, <1>4, RunInExists
<1>6. Made(h)
  <2>1. ASSUME NEW k \in 1 .. n PROVE G[k][h[k - 1]] = Step(h[k - 1], k)
    <3>1. k - 1 \in 0 .. n
      BY <1>1
    <3>2. h[k - 1] \in SchedulerRecord
      BY <1>3, <1>5, <3>1
    <3> HIDE DEF Step
    <3> QED
      BY <3>2
  <2>2. ASSUME NEW k \in 0 .. n
        PROVE  (IF k = 0 THEN Scheduler ELSE G[k][h[k - 1]])
                 = IF k = 0 THEN Scheduler
                   ELSE IF b[k - 1].op = "NONE" THEN h[k - 1]
                   ELSE EnqueueOne(h[k - 1], b[k - 1])
    <3>1. k # 0 => k \in 1 .. n
      BY <1>1
    <3> QED
      BY <2>1, <3>1
  <2> HIDE DEF G
  <2> QED
    BY <1>5, <2>2 DEF Runs
<1> DEFINE made == CHOOSE x : Made(x)
<1>7. Made(made)
  BY <1>6
<1>8. Enqueued(b) = made[n]
  BY DEF Enqueued
<1> HIDE DEF made
<1>9. \A k \in 0 .. n : made[k] \in V[k]
  <2>1. made[0] \in V[0]
    BY <1>1, <1>2, <1>7
  <2>2. ASSUME NEW k \in 1 .. n, made[k - 1] \in V[k - 1] PROVE made[k] \in V[k]
    <3>1. k \in 0 .. n /\ k # 0
      BY <1>1
    <3>2. made[k] = Step(made[k - 1], k)
      BY <1>7, <3>1
    <3> HIDE DEF Step
    <3> QED
      BY <1>3, <2>2, <3>2
  <2> HIDE DEF Made, n
  <2> QED
    BY <1>1, <2>1, <2>2, RunStaysIn
<1>10. made[n] \in V[n] /\ n \in 0 .. n
  BY <1>1, <1>9
<1> QED
  BY <1>8, <1>10 DEF V

(* Command c tells the FPGA that main now wants u of the voice, not w. *)
Tells(c, w, u) ==
  \/ c.op = "NONE" /\ u = w
  \/ /\ c.op = "START" /\ c.g = w.gen + 1
     /\ u.gen = c.g /\ u.state = "on" /\ u.value = c.value
  \/ c.op = "RELEASE" /\ c.g = w.gen /\ w.state = "on" /\ u = [w EXCEPT !.state = "released"]
  \/ /\ c.op = "STOP" /\ c.g = w.gen /\ w.state \in {"on", "released"}
     /\ u = [w EXCEPT !.state = "stopped"]
  \/ /\ c.op = "UPDATE" /\ c.g = w.gen /\ w.state \in {"on", "released"}
     /\ u = [w EXCEPT !.value[c.kind] = c.val]

(* Of the commands for voice v, later adds c to pending if it is queued. *)
Joins(c, pending, later, v) ==
  \A d \in HostCommands :
    d.v = v => (d \in later <=> d \in pending \/ (d = c /\ LifecycleCommand(c)))

(* A voice and what is pending for it, after its command of a batch. *)
LEMMA VoiceTold ==
  ASSUME NEW f \in HostVoice, NEW pending \in SUBSET HostCommands,
         NEW later \in SUBSET HostCommands, NEW waiting \in UpdateSlots, NEW w \in HostVoice,
         NEW u \in HostVoice, NEW v \in HostVoiceIds, NEW c \in HostCommands \cup {NoCommand},
         c.op # "NONE" => c \in HostCommands /\ c.v = v,
         Joins(c, pending, later, v),
         Tells(c, w, u), PendingFits(pending, waiting, w, v), SlotsFit(waiting, w, v),
         VoiceFollows(f, pending, waiting, w, v)
  PROVE  /\ PendingFits(later, SlotsAfter(waiting, c), u, v)
         /\ SlotsFit(SlotsAfter(waiting, c), u, v)
         /\ VoiceFollows(f, later, SlotsAfter(waiting, c), u, v)
<1> DEFINE after == SlotsAfter(waiting, c)
<1>1. /\ w.gen \in Nat /\ w.state \in {"off", "on", "released", "stopped"}
      /\ w.value \in [UpdateKinds -> Values]
      /\ w = [gen |-> w.gen, state |-> w.state, value |-> w.value]
  BY DEF HostVoice
<1>2. \A d \in HostCommands : d.g \in Nat
  BY CommandFields
<1> USE DEF Joins
<1>3. \A d \in later : d.v = v => d \in pending \/ (d = c /\ LifecycleCommand(c))
  OBVIOUS
<1>4. \A d \in pending : d.v = v => d \in later
  OBVIOUS
<1>5. \A d \in pending : d.v = v => d.g <= w.gen /\ w.state # "off"
  BY DEF PendingFits
<1>6. CASE c.op = "NONE"
  <2>1. u = w /\ ~LifecycleCommand(c) /\ after = waiting
    BY <1>6 DEF Tells, LifecycleCommand, SlotsAfter
  <2>2. StartAhead(later, v) <=> StartAhead(pending, v)
    BY <1>3, <1>4, <2>1 DEF StartAhead
  <2>3. \A op, g : CommandAhead(later, op, v, g) <=> CommandAhead(pending, op, v, g)
    BY <1>3, <1>4, <2>1 DEF CommandAhead
  <2> HIDE DEF after
  <2>4. VoiceFollows(f, later, after, u, v)
    BY <1>3, <1>4, <2>1, <2>2, <2>3 DEF VoiceFollows
  <2>5. PendingFits(later, after, u, v)
    BY <1>3, <2>1 DEF PendingFits
  <2> QED
    BY <2>1, <2>4, <2>5 DEF after
<1>7. CASE c.op = "START"
  <2>1. /\ c \in HostCommands /\ c.v = v /\ LifecycleCommand(c) /\ c \in later
        /\ c.g = w.gen + 1 /\ u.gen = c.g /\ u.state = "on" /\ u.value = c.value
    BY <1>7 DEF Tells, LifecycleCommand
  <2>2. \A k \in UpdateKinds : after[k].op = "NONE"
    <3>1. after = InvalidateUpdates(waiting, c)
      BY <1>7, <2>1 DEF SlotsAfter
    <3>2. \A k \in UpdateKinds : waiting[k].op # "NONE" => waiting[k].g # c.g
      BY <1>1, <2>1 DEF SlotsFit
    <3> QED
      BY <1>7, <3>1, <3>2 DEF InvalidateUpdates, NoCommand
  <2> HIDE DEF after
  <2>3. StartAhead(later, v) /\ CommandAhead(later, "START", v, u.gen)
    BY <1>7, <2>1 DEF StartAhead, CommandAhead
  <2>4. VoiceFollows(f, later, after, u, v)
    BY <1>7, <2>1, <2>3 DEF VoiceFollows
  <2>5. \A d \in later : d.v = v => d.g <= u.gen /\ (d.g = u.gen => d = c)
    BY <1>1, <1>2, <1>3, <1>5, <2>1
  <2>6. PendingFits(later, after, u, v)
    BY <1>7, <2>1, <2>5 DEF PendingFits
  <2> QED
    BY <2>2, <2>4, <2>6 DEF SlotsFit, after
<1>8. CASE c.op = "RELEASE"
  <2>1. /\ c \in HostCommands /\ c.v = v /\ LifecycleCommand(c) /\ c \in later /\ c.g = w.gen
        /\ w.state = "on" /\ u.gen = w.gen /\ u.state = "released" /\ u.value = w.value
    BY <1>1, <1>8 DEF Tells, LifecycleCommand
  <2>2. after = waiting
    BY <1>8, <2>1 DEF SlotsAfter, InvalidateUpdates, UpdateSlots
  <2> HIDE DEF after
  <2>3. StartAhead(later, v) <=> StartAhead(pending, v)
    BY <1>3, <1>4, <1>8 DEF StartAhead
  <2>4. CommandAhead(later, "RELEASE", v, u.gen)
    BY <1>8, <2>1 DEF CommandAhead
  <2>5. CommandAhead(pending, "START", v, w.gen) => CommandAhead(later, "START", v, w.gen)
    BY <1>4 DEF CommandAhead
  <2>6. VoiceFollows(f, later, after, u, v)
    BY <1>4, <2>1, <2>2, <2>3, <2>4, <2>5 DEF VoiceFollows
  <2>7. PendingFits(later, after, u, v)
    BY <1>1, <1>3, <1>8, <2>1, <2>2 DEF PendingFits
  <2>8. SlotsFit(after, u, v)
    BY <2>1, <2>2 DEF SlotsFit
  <2> QED
    BY <2>6, <2>7, <2>8 DEF after
<1>9. CASE c.op = "STOP"
  <2>1. /\ c \in HostCommands /\ c.v = v /\ LifecycleCommand(c) /\ c \in later /\ c.g = w.gen
        /\ w.state \in {"on", "released"} /\ u.gen = w.gen /\ u.state = "stopped"
    BY <1>1, <1>9 DEF Tells, LifecycleCommand
  <2>2. \A k \in UpdateKinds : after[k].op = "NONE"
    BY <1>9, <2>1 DEF SlotsAfter, InvalidateUpdates, NoCommand
  <2> HIDE DEF after
  <2>3. StartAhead(later, v) <=> StartAhead(pending, v)
    BY <1>3, <1>4, <1>9 DEF StartAhead
  <2>4. CommandAhead(later, "STOP", v, u.gen)
    BY <1>9, <2>1 DEF CommandAhead
  <2>5. CommandAhead(pending, "START", v, w.gen) => CommandAhead(later, "START", v, w.gen)
    BY <1>4 DEF CommandAhead
  <2>6. VoiceFollows(f, later, after, u, v)
    BY <2>1, <2>3, <2>4, <2>5 DEF VoiceFollows
  <2>7. PendingFits(later, after, u, v)
    BY <1>1, <1>3, <1>5, <1>9, <2>1 DEF PendingFits
  <2>8. SlotsFit(after, u, v)
    BY <2>2 DEF SlotsFit
  <2> QED
    BY <2>6, <2>7, <2>8 DEF after
<1>10. CASE c.op = "UPDATE"
  <2>1. /\ c \in HostCommands /\ c.v = v /\ ~LifecycleCommand(c) /\ c.g = w.gen
        /\ c.kind \in UpdateKinds /\ w.state \in {"on", "released"}
        /\ u.gen = w.gen /\ u.state = w.state
        /\ \A k \in UpdateKinds : u.value[k] = IF k = c.kind THEN c.val ELSE w.value[k]
    <3>1. /\ c \in HostCommands /\ c.v = v /\ c.g = w.gen /\ w.state \in {"on", "released"}
          /\ u = [w EXCEPT !.value[c.kind] = c.val]
      BY <1>10 DEF Tells
    <3>2. c.kind \in UpdateKinds /\ c.val \in Values
      BY <1>10, <3>1, CommandFields
    <3>3. u = [gen |-> w.gen, state |-> w.state, value |-> [w.value EXCEPT ![c.kind] = c.val]]
      BY <1>1, <3>1
    <3>4. ~LifecycleCommand(c)
      BY <1>10 DEF LifecycleCommand
    <3> QED
      BY <1>1, <3>1, <3>2, <3>3, <3>4
  <2>2. \A k \in UpdateKinds : after[k] = IF k = c.kind THEN c ELSE waiting[k]
    BY <1>10, <2>1 DEF SlotsAfter, UpdateSlots
  <2> HIDE DEF after
  <2>3. StartAhead(later, v) <=> StartAhead(pending, v)
    BY <1>3, <1>4, <2>1 DEF StartAhead
  <2>4. \A op, g : CommandAhead(later, op, v, g) <=> CommandAhead(pending, op, v, g)
    BY <1>3, <1>4, <2>1 DEF CommandAhead
  <2>5. ASSUME NEW k \in UpdateKinds
        PROVE  \/ after[k].op # "NONE"
               \/ \E d \in later : d.op = "UPDATE" /\ d.v = v /\ d.g = u.gen /\ d.kind = k
               \/ \E d \in later : /\ d.op = "START" /\ d.v = v /\ d.g = u.gen
                                   /\ d.value[k] = u.value[k]
               \/ ~StartAhead(later, v) /\ f.value[k] = u.value[k]
    <3>1. CASE k = c.kind
      BY <1>10, <2>2, <3>1
    <3>2. CASE k # c.kind
      <4>1. after[k] = waiting[k] /\ u.value[k] = w.value[k]
        BY <2>1, <2>2, <3>2
      <4> QED
        BY <1>4, <2>1, <2>3, <4>1 DEF VoiceFollows
    <3> QED
      BY <3>1, <3>2
  <2>6. VoiceFollows(f, later, after, u, v)
    BY <2>1, <2>3, <2>4, <2>5 DEF VoiceFollows
  <2>7. ASSUME NEW d \in later, d.v = v
        PROVE  /\ u.state # "off" /\ d.g <= u.gen
               /\ d.g = u.gen =>
                    /\ u.state = "on" => d.op \notin {"RELEASE", "STOP"}
                    /\ u.state = "released" => d.op # "STOP"
                    /\ d.op = "UPDATE" /\ u.state # "stopped" /\ after[d.kind].op = "NONE" =>
                         d.val = u.value[d.kind]
    <3>1. d \in pending
      BY <1>3, <2>1, <2>7
    <3>2. d.op = "UPDATE" => d.kind \in UpdateKinds
      BY CommandFields
    <3>3. d.op = "UPDATE" /\ after[d.kind].op = "NONE" => d.kind # c.kind
      BY <1>10, <2>2, <3>2
    <3> QED
      BY <2>1, <2>2, <2>7, <3>1, <3>2, <3>3 DEF PendingFits
  <2>8. PendingFits(later, after, u, v)
    BY <2>7 DEF PendingFits
  <2>9. SlotsFit(after, u, v)
    BY <2>1, <2>2 DEF SlotsFit
  <2> QED
    BY <2>6, <2>8, <2>9 DEF after
<1>11. c.op \in {"NONE", "START", "RELEASE", "STOP", "UPDATE"}
  BY CommandFields
<1> QED
  BY <1>6, <1>7, <1>8, <1>9, <1>10, <1>11

(* What is ahead, with a batch behind it. *)
LEMMA AheadBatch ==
  ASSUME NEW ts \in Seq(HostCommands), NEW ls \in Seq(LifecycleCommands), NEW l,
         NEW b \in Batches, QueueAfter(l, ls, b, HostVoiceCount), NEW v \in HostVoiceIds,
         NEW d \in HostCommands, d.v = v
  PROVE  d \in Ahead(ts, 0, l)
           <=> d \in Ahead(ts, 0, ls) \/ (d = b[v] /\ LifecycleCommand(b[v]))
<1>1. Len(l) \in Nat /\ Len(ls) \in Nat /\ Len(l) >= Len(ls) /\ l \in Seq(LifecycleCommands)
  BY DEF QueueAfter
<1>2. \A x \in HostVoiceIds : x < HostVoiceCount
  BY HostNumbers DEF HostVoiceIds
<1>3. ASSUME NEW i \in 1 .. Len(l), d = l[i]
      PROVE  (\E j \in 1 .. Len(ls) : d = ls[j]) \/ (d = b[v] /\ LifecycleCommand(b[v]))
  <2>1. CASE i \in 1 .. Len(ls)
    BY <1>3, <2>1 DEF QueueAfter
  <2>2. CASE i \in Len(ls) + 1 .. Len(l)
    <3>1. d = b[v]
      BY <1>3, <2>2 DEF QueueAfter
    <3>2. d \in LifecycleCommands
      BY <1>1, <1>3
    <3> QED
      BY <3>1, <3>2, CommandFields DEF LifecycleCommand
  <2> QED
    BY <1>1, <2>1, <2>2
<1>4. ASSUME NEW j \in 1 .. Len(ls) PROVE j \in 1 .. Len(l) /\ ls[j] = l[j]
  BY <1>1 DEF QueueAfter
<1>5. ASSUME LifecycleCommand(b[v]) PROVE \E i \in 1 .. Len(l) : l[i] = b[v]
  BY <1>2, <1>5 DEF QueueAfter
<1> QED
  BY <1>3, <1>4, <1>5 DEF Ahead

(* A START of a batch is newer than all that is pending. *)
LEMMA BatchNewest ==
  ASSUME NEW ts \in Seq(HostCommands), NEW ls \in Seq(LifecycleCommands), NEW l,
         NEW b \in Batches, QueueAfter(l, ls, b, HostVoiceCount), StartsNewest(ts, ls),
         NEW w \in [HostVoiceIds -> HostVoice],
         \A d \in Ahead(ts, 0, ls) : d.g <= w[d.v].gen,
         \A v \in HostVoiceIds : b[v].op = "START" => b[v].g = w[v].gen + 1
  PROVE  StartsNewest(ts, l)
<1>1. Len(l) \in Nat /\ Len(ls) \in Nat /\ Len(l) >= Len(ls) /\ l \in Seq(LifecycleCommands)
  BY DEF QueueAfter
<1>2. \A i \in 1 .. Len(l) : l[i] \in HostCommands /\ l[i].v \in HostVoiceIds
  BY <1>1, CommandFields DEF HostCommands
<1>3. \A i \in 1 .. Len(ts) : ts[i] \in HostCommands /\ ts[i] \in Ahead(ts, 0, ls)
  BY DEF Ahead
<1>4. \A i \in 1 .. Len(ls) : ls[i] \in Ahead(ts, 0, ls) /\ l[i] = ls[i]
  BY DEF Ahead, QueueAfter
<1>5. ASSUME NEW i \in 1 .. Len(l), l[i].op = "START", NEW d \in HostCommands, d.v = l[i].v,
             \/ \E j \in 1 .. Len(ts) : d = ts[j]
             \/ \E j \in 1 .. i - 1 : d = l[j]
      PROVE  d.g < l[i].g
  <2>1. CASE i \in 1 .. Len(ls)
    <3>1. /\ Newest(ls[i], {ts[j] : j \in 1 .. Len(ts)})
          /\ Newest(ls[i], {ls[j] : j \in 1 .. i - 1})
      BY <2>1 DEF StartsNewest
    <3>2. \A j \in 1 .. i - 1 : l[j] = ls[j]
      BY <1>1, <1>4, <2>1
    <3> QED
      BY <1>4, <1>5, <2>1, <3>1, <3>2 DEF Newest
  <2>2. CASE i \in Len(ls) + 1 .. Len(l)
    <3> DEFINE v == l[i].v
    <3>1. v \in HostVoiceIds /\ l[i] = b[v]
      BY <1>2, <2>2 DEF QueueAfter
    <3>2. l[i].g = w[v].gen + 1
      BY <1>5, <3>1
    <3>3. w[v].gen \in Nat /\ d.g \in Nat
      BY <3>1, CommandFields DEF HostVoice
    <3>4. \A j \in Len(ls) + 1 .. Len(l) : j < i => l[j].v # v
      <4>1. ASSUME NEW j \in Len(ls) + 1 .. Len(l), j < i PROVE l[j].v # v
        <5>1. l[j].v < v
          BY <2>2, <4>1 DEF QueueAfter
        <5>2. v \in Nat
          BY <3>1, HostNumbers DEF HostVoiceIds
        <5> QED
          BY <5>1, <5>2
      <4> QED
        BY <4>1
    <3>5. d \in Ahead(ts, 0, ls)
      <4>1. CASE \E j \in 1 .. Len(ts) : d = ts[j]
        BY <1>3, <4>1
      <4>2. CASE \E j \in 1 .. i - 1 : d = l[j]
        <5>1. PICK j \in 1 .. i - 1 : d = l[j]
          BY <4>2
        <5>2. j \in 1 .. Len(ls) \/ (j \in Len(ls) + 1 .. Len(l) /\ j < i)
          BY <1>1, <5>1
        <5>3. j \in 1 .. Len(ls)
          BY <1>5, <3>4, <5>1, <5>2
        <5> QED
          BY <1>4, <5>1, <5>3
      <4> QED
        BY <1>5, <4>1, <4>2
    <3>6. d.g <= w[v].gen
      BY <1>5, <3>5
    <3> HIDE DEF v
    <3> QED
      BY <3>2, <3>3, <3>6
  <2> QED
    BY <1>1, <2>1, <2>2
<1>6. ASSUME NEW i \in 1 .. Len(l)
      PROVE  /\ Newest(l[i], {ts[j] : j \in 1 .. Len(ts)})
             /\ Newest(l[i], {l[j] : j \in 1 .. i - 1})
  <2>1. \A j \in 1 .. i - 1 : j \in 1 .. Len(l)
    BY <1>1
  <2> QED
    BY <1>2, <1>3, <1>5, <2>1 DEF Newest
<1> QED
  BY <1>6 DEF StartsNewest

(* A batch that tells what main wants, and does not throw. *)
LEMMA BatchDelivery ==
  ASSUME HostTypeOK, NEW b \in Batches, NEW u \in [HostVoiceIds -> HostVoice],
         \A v \in HostVoiceIds : Tells(b[v], intent[v], u[v]), ~Enqueued(b).threw,
         DeliveryOK(fpga, transaction, lifecycle, replaceable, intent)
  PROVE  DeliveryOK(fpga, transaction, Enqueued(b).lifecycle, Enqueued(b).replaceable, u)
<1> DEFINE l == Enqueued(b).lifecycle
           r == Enqueued(b).replaceable
           pending == Ahead(transaction, 0, lifecycle)
           later == Ahead(transaction, 0, l)
<1>1. /\ QueueAfter(l, lifecycle, b, HostVoiceCount)
      /\ \A v \in HostVoiceIds :
           r[v] = IF v < HostVoiceCount THEN SlotsAfter(replaceable[v], b[v]) ELSE replaceable[v]
  BY EnqueuedBatch DEF BatchIn
<1>2. \A v \in HostVoiceIds : r[v] = SlotsAfter(replaceable[v], b[v])
  BY <1>1, HostNumbers DEF HostVoiceIds
<1>3. /\ transaction \in Seq(HostCommands) /\ lifecycle \in Seq(LifecycleCommands)
      /\ l \in Seq(LifecycleCommands) /\ intent \in [HostVoiceIds -> HostVoice]
      /\ fpga \in [HostVoiceIds -> HostVoice] /\ replaceable \in [HostVoiceIds -> UpdateSlots]
  BY <1>1 DEF HostTypeOK, QueueAfter
<1> HIDE DEF l, r
<1>4. pending \in SUBSET HostCommands /\ later \in SUBSET HostCommands
  BY <1>3 DEF Ahead, HostCommands
<1>5. StartsNewest(transaction, l)
  <2>1. \A d \in pending : d.g <= intent[d.v].gen
    BY <1>4, CommandFields DEF DeliveryOK, PendingFits
  <2>2. \A v \in HostVoiceIds : b[v].op = "START" => b[v].g = intent[v].gen + 1
    BY DEF Tells
  <2>3. StartsNewest(transaction, lifecycle)
    BY DEF DeliveryOK
  <2> QED
    BY <1>1, <1>3, <2>1, <2>2, <2>3, BatchNewest
<1>6. ASSUME NEW v \in HostVoiceIds
      PROVE  /\ PendingFits(later, r[v], u[v], v) /\ SlotsFit(r[v], u[v], v)
             /\ VoiceFollows(fpga[v], later, r[v], u[v], v)
  <2> DEFINE c == b[v]
             waiting == replaceable[v]
             w == intent[v]
             f == fpga[v]
             x == u[v]
  <2>1. /\ PendingFits(pending, waiting, w, v) /\ SlotsFit(waiting, w, v)
        /\ VoiceFollows(f, pending, waiting, w, v) /\ Tells(c, w, x)
    BY DEF DeliveryOK
  <2>2. /\ f \in HostVoice /\ waiting \in UpdateSlots /\ w \in HostVoice /\ x \in HostVoice
        /\ c \in HostCommands \cup {NoCommand}
        /\ c.op # "NONE" => c \in HostCommands /\ c.v = v
    BY <1>3 DEF Batches
  <2>3. Joins(c, pending, later, v)
    BY <1>1, <1>3, AheadBatch DEF Joins
  <2> HIDE DEF c, waiting, w, f, x, pending, later
  <2>4. /\ PendingFits(later, SlotsAfter(waiting, c), x, v) /\ SlotsFit(SlotsAfter(waiting, c), x, v)
        /\ VoiceFollows(f, later, SlotsAfter(waiting, c), x, v)
    BY <1>4, <2>1, <2>2, <2>3, VoiceTold
  <2> QED
    BY <1>2, <2>4 DEF c, waiting, f, x
<1> QED
  BY <1>5, <1>6 DEF DeliveryOK, l, r

-----------------------------------------------------------------------------
(* HostPlayer: a transaction is gathered. *)

(* A set of numbers up to n that is not empty has a greatest. *)
LEMMA MaxBelow ==
  ASSUME NEW n \in Nat, NEW S \in SUBSET (1 .. n), S # {}
  PROVE  Max(S) \in S
<1> DEFINE T == {n - x : x \in S}
<1>1. T \subseteq Nat /\ T # {}
  <2>1. \A x \in S : n - x \in Nat
    OBVIOUS
  <2>2. PICK x \in S : TRUE
    OBVIOUS
  <2>3. n - x \in T
    OBVIOUS
  <2> QED
    BY <2>1, <2>3
<1>2. PICK y \in T : \A z \in T : ~(z < y)
  BY <1>1, LeastNatural
<1>3. PICK x \in S : y = n - x
  BY <1>2
<1>4. \A z \in S : x >= z
  <2>1. ASSUME NEW z \in S PROVE x >= z
    <3>1. n - z \in T
      OBVIOUS
    <3>2. ~(n - z < n - x)
      BY <1>2, <1>3, <3>1
    <3> QED
      BY <3>2
  <2> QED
    BY <2>1
<1> QED
  BY <1>3, <1>4 DEF Max

(* Division, for the slot numbers. *)
LEMMA QuotientBelow ==
  ASSUME NEW D \in Nat, D > 0, NEW m \in Nat, NEW x \in 0 .. D * m - 1
  PROVE  x \div D \in 0 .. m - 1
<1> DEFINE q == x \div D
           r == x % D
<1>1. D * m \in Nat
  BY Z3
<1>2. x \in Nat /\ x < D * m
  BY <1>1
<1>3. x = D * q + r /\ q \in Int /\ r \in 0 .. D - 1
  BY <1>2, DivMod
<1> HIDE DEF q, r
<1>4. r \in Nat /\ r < D
  BY <1>3
<1>5. CASE q < 0
  <2>1. D * q <= -D
    BY <1>3, <1>5, Z3
  <2>2. D * q \in Int
    BY <1>3, Z3
  <2> QED
    BY <1>2, <1>3, <1>4, <2>1, <2>2
<1>6. CASE q >= m
  <2>1. D * q >= D * m
    BY <1>3, <1>6, Z3
  <2>2. D * q \in Int
    BY <1>3, Z3
  <2> QED
    BY <1>1, <1>2, <1>3, <1>4, <2>1, <2>2
<1>7. CASE 0 <= q /\ q < m
  BY <1>3, <1>7 DEF q
<1> QED
  BY <1>3, <1>5, <1>6, <1>7

(* Slot numbers and slots. *)
LEMMA FlatSlotType ==
  /\ SlotCount \in Nat /\ SlotCount > 0
  /\ \A n \in 0 .. SlotCount - 1 : FlatSlot(n).v \in HostVoiceIds /\ FlatSlot(n).k \in UpdateKinds
  /\ \A v \in HostVoiceIds, k \in UpdateKinds :
       \E n \in 0 .. SlotCount - 1 : FlatSlot(n).v = v /\ FlatSlot(n).k = k
<1> DEFINE D == KindCount
           m == HostVoiceCount
<1>1. /\ D \in Nat /\ D > 0 /\ m \in Nat /\ m > 0 /\ HostVoiceIds = 0 .. m - 1
      /\ SlotCount = m * D /\ D = Len(KindList) /\ DOMAIN KindList = 1 .. D
  BY HostNumbers DEF HostVoiceIds, SlotCount, KindCount
<1>2. UpdateKinds = {KindList[i] : i \in 1 .. D}
  BY <1>1 DEF UpdateKinds
<1>3. \A n : FlatSlot(n).v = n \div D /\ FlatSlot(n).k = KindList[(n % D) + 1]
  BY DEF FlatSlot
<1> HIDE DEF D, m
<1>4. m * D = D * m /\ m * D \in Nat /\ m * D > 0
  BY <1>1, Z3
<1>5. ASSUME NEW n \in 0 .. SlotCount - 1
      PROVE  FlatSlot(n).v \in HostVoiceIds /\ FlatSlot(n).k \in UpdateKinds
  <2>1. n \in 0 .. D * m - 1 /\ n \in Int
    BY <1>1, <1>4
  <2>2. n \div D \in 0 .. m - 1
    BY <1>1, <2>1, QuotientBelow
  <2>3. n % D \in 0 .. D - 1
    BY <1>1, <2>1, DivMod
  <2>4. (n % D) + 1 \in 1 .. D
    BY <1>1, <2>3
  <2> QED
    BY <1>1, <1>2, <1>3, <2>2, <2>4
<1>6. ASSUME NEW v \in HostVoiceIds, NEW k \in UpdateKinds
      PROVE  \E n \in 0 .. SlotCount - 1 : FlatSlot(n).v = v /\ FlatSlot(n).k = k
  <2>1. PICK i \in 1 .. D : k = KindList[i]
    BY <1>2
  <2> DEFINE n == D * v + (i - 1)
  <2>2. v \in Int /\ v >= 0 /\ v <= m - 1 /\ i - 1 \in 0 .. D - 1 /\ i \in Int
    BY <1>1, <2>1
  <2>3. D * v \in Int /\ D * v >= 0 /\ D * v <= D * m - D
    BY <1>1, <2>2, Z3
  <2>4. n \in Int /\ n \in 0 .. SlotCount - 1
    BY <1>1, <1>4, <2>2, <2>3
  <2>5. n % D = i - 1
    BY <1>1, <2>2, <2>4, RemainderUnique
  <2>6. n \div D = v
    <3> DEFINE q == n \div D
    <3>1. n = D * q + (i - 1) /\ q \in Int
      BY <1>1, <2>4, <2>5, DivMod
    <3> HIDE DEF q
    <3>2. D * q = D * v
      <4> DEFINE a == D * v
                 b == D * q
      <4>1. b \in Int /\ a \in Int
        BY <1>1, <2>3, <3>1, Z3
      <4>2. a + (i - 1) = b + (i - 1)
        BY <3>1
      <4> HIDE DEF a, b
      <4>3. a = b
        BY <2>2, <4>1, <4>2
      <4> QED
        BY <4>3 DEF a, b
    <3>3. q = v
      BY <1>1, <2>2, <3>1, <3>2, Z3
    <3> QED
      BY <3>3 DEF q
  <2> HIDE DEF n
  <2>7. KindList[(n % D) + 1] = k
    BY <2>1, <2>2, <2>5
  <2> QED
    BY <1>3, <2>4, <2>6, <2>7
<1> QED
  BY <1>1, <1>4, <1>5, <1>6

(* Slots with an update. *)
FullSlots == {n \in 0 .. SlotCount - 1 : UpdateAt(n).op # "NONE"}
ScanSlot(i) == (cursor + i - 1) % SlotCount

(* The scan finds only slots with an update, and one if there is one. *)
LEMMA ScanFinds ==
  ASSUME HostTypeOK
  PROVE  ScanOrder \in Seq(FullSlots) /\ (FullSlots # {} => ScanOrder # << >>)
<1> DEFINE n == SlotCount
           Step(s, i) == IF UpdateAt((cursor + i - 1) % SlotCount).op = "NONE" THEN s
                         ELSE Append(s, (cursor + i - 1) % SlotCount)
           Found(s, i) == \A j \in 1 .. i : UpdateAt(ScanSlot(j)).op # "NONE" => s # << >>
           V == [i \in 0 .. n |-> {s \in Seq(FullSlots) : Found(s, i)}]
           G == [i \in 1 .. n |-> [s \in Seq(FullSlots) |-> Step(s, i)]]
           Made(h) == h = [i \in 0 .. n |->
                             IF i = 0 THEN << >>
                             ELSE IF UpdateAt((cursor + i - 1) % SlotCount).op = "NONE"
                             THEN h[i - 1]
                             ELSE Append(h[i - 1], (cursor + i - 1) % SlotCount)]
<1>1. n \in Nat /\ n > 0 /\ cursor \in Nat
  BY FlatSlotType DEF HostTypeOK
<1>2. \A i \in 1 .. n : ScanSlot(i) \in 0 .. n - 1
  <2>1. ASSUME NEW i \in 1 .. n PROVE ScanSlot(i) \in 0 .. n - 1
    <3>1. cursor + i - 1 \in Int
      BY <1>1
    <3> HIDE DEF n
    <3> QED
      BY <1>1, <3>1, DivMod DEF ScanSlot, n
  <2> QED
    BY <2>1
<1>3. << >> \in V[0]
  <2>1. 0 \in 0 .. n /\ 1 .. 0 = {} /\ << >> \in Seq(FullSlots)
    BY <1>1
  <2> QED
    BY <2>1
<1>4. ASSUME NEW i \in 1 .. n, NEW s \in V[i - 1]
      PROVE  s \in Seq(FullSlots) /\ Step(s, i) \in V[i]
  <2>1. i - 1 \in 0 .. n /\ i \in 0 .. n /\ \A j \in 1 .. i : j = i \/ j \in 1 .. i - 1
    BY <1>1
  <2>2. s \in Seq(FullSlots) /\ Found(s, i - 1)
    BY <1>4, <2>1
  <2> DEFINE x == ScanSlot(i)
             a == Append(s, x)
  <2>3. x = (cursor + i - 1) % SlotCount
    BY DEF ScanSlot
  <2>4. CASE UpdateAt(x).op = "NONE"
    <3>1. Step(s, i) = s
      BY <2>3, <2>4
    <3>2. Found(s, i)
      BY <2>1, <2>2, <2>4
    <3> HIDE DEF Step, Found
    <3> QED
      BY <2>1, <2>2, <3>1, <3>2
  <2>5. CASE UpdateAt(x).op # "NONE"
    <3>1. Step(s, i) = a
      BY <2>3, <2>5
    <3>2. x \in FullSlots
      BY <1>2, <2>5 DEF FullSlots
    <3> HIDE DEF x
    <3>3. a \in Seq(FullSlots) /\ Len(a) = Len(s) + 1 /\ Len(s) \in Nat
      BY <2>2, <3>2, AppendTop
    <3>4. a # << >>
      <4> HIDE DEF a
      <4>1. Len(a) # 0
        BY <3>3
      <4> QED
        BY <4>1
    <3>5. Found(a, i)
      BY <3>4
    <3> HIDE DEF Step, Found, a
    <3> QED
      BY <2>1, <3>1, <3>3, <3>5
  <2> QED
    BY <2>4, <2>5
<1> HIDE DEF V
<1>5. \A i \in 1 .. n : \A s \in V[i - 1] : G[i][s] \in V[i]
  BY <1>4
<1>6. PICK h : Runs(h, << >>, G, n) /\ \A i \in 0 .. n : h[i] \in V[i]
  <2> HIDE DEF G, n
  <2> QED
    BY <1>1, <1>3, <1>5, RunInExists
<1>7. Made(h)
  <2>1. ASSUME NEW i \in 1 .. n PROVE G[i][h[i - 1]] = Step(h[i - 1], i)
    <3>1. i - 1 \in 0 .. n
      BY <1>1
    <3>2. h[i - 1] \in Seq(FullSlots)
      BY <1>4, <1>6, <3>1
    <3> HIDE DEF Step
    <3> QED
      BY <3>2
  <2>2. ASSUME NEW i \in 0 .. n
        PROVE  (IF i = 0 THEN << >> ELSE G[i][h[i - 1]])
                 = IF i = 0 THEN << >>
                   ELSE IF UpdateAt((cursor + i - 1) % SlotCount).op = "NONE" THEN h[i - 1]
                   ELSE Append(h[i - 1], (cursor + i - 1) % SlotCount)
    <3>1. i # 0 => i \in 1 .. n
      BY <1>1
    <3> QED
      BY <2>1, <3>1
  <2> HIDE DEF G
  <2> QED
    BY <1>6, <2>2 DEF Runs
<1> DEFINE made == CHOOSE x : Made(x)
<1>8. Made(made)
  BY <1>7
<1>9. ScanOrder = made[n]
  BY DEF ScanOrder
<1> HIDE DEF made
<1>10. \A i \in 0 .. n : made[i] \in V[i]
  <2>1. made[0] \in V[0]
    BY <1>1, <1>3, <1>8
  <2>2. ASSUME NEW i \in 1 .. n, made[i - 1] \in V[i - 1] PROVE made[i] \in V[i]
    <3>1. i \in 0 .. n /\ i # 0
      BY <1>1
    <3>2. made[i] = Step(made[i - 1], i)
      BY <1>8, <3>1
    <3> HIDE DEF Step
    <3> QED
      BY <1>4, <2>2, <3>2
  <2> HIDE DEF Made, n
  <2> QED
    BY <1>1, <2>1, <2>2, RunStaysIn
<1>11. made[n] \in Seq(FullSlots) /\ Found(made[n], n)
  <2>1. n \in 0 .. n
    BY <1>1
  <2> QED
    BY <1>10, <2>1 DEF V
<1>12. ASSUME FullSlots # {} PROVE made[n] # << >>
  <2>1. PICK x \in FullSlots : TRUE
    BY <1>12
  <2> DEFINE d == (x - cursor) % n
             j == d + 1
  <2>2. x \in 0 .. n - 1 /\ UpdateAt(x).op # "NONE" /\ x \in Int
    BY <2>1 DEF FullSlots
  <2>3. x - cursor \in Int
    BY <1>1, <2>2
  <2> HIDE DEF n
  <2>4. d \in 0 .. n - 1
    BY <1>1, <2>3, DivMod
  <2>5. (d + cursor) % n = ((x - cursor) + cursor) % n
    BY <1>1, <2>3, RemainderOfSum
  <2>6. (x - cursor) + cursor = x
    BY <1>1, <2>2
  <2>7. x % n = x
    BY <1>1, <2>2, SmallRemainder
  <2> HIDE DEF d
  <2>8. j \in 1 .. n /\ cursor + j - 1 = d + cursor
    BY <1>1, <2>4
  <2>9. ScanSlot(j) = x
    BY <2>5, <2>6, <2>7, <2>8 DEF ScanSlot, n
  <2> QED
    BY <1>11, <2>2, <2>8, <2>9
<1> QED
  BY <1>9, <1>11, <1>12

(* One command always fits. *)
LEMMA OneFits ==
  ASSUME NEW cs \in Seq(HostCommands), Len(cs) = 1
  PROVE  WordsOf(cs) <= TransactionWords
<1> DEFINE Made(h) == h = [n \in 0 .. Len(cs) |->
                             IF n = 0 THEN 0 ELSE h[n - 1] + CommandLength(cs[n])]
           h == [n \in 0 .. 1 |-> IF n = 0 THEN 0 ELSE CommandLength(cs[1])]
           made == CHOOSE x : Made(x)
<1>1. CommandLength(cs[1]) \in Nat /\ CommandLength(cs[1]) <= TransactionWords
  BY HostNumbers DEF CommandLength
<1>2. Made(h)
  <2>1. ASSUME NEW n \in 0 .. 1
        PROVE  h[n] = IF n = 0 THEN 0 ELSE h[n - 1] + CommandLength(cs[n])
    <3>1. n = 0 \/ n = 1
      OBVIOUS
    <3> HIDE DEF CommandLength
    <3> QED
      BY <1>1, <3>1
  <2> QED
    BY <2>1
<1>3. Made(made)
  BY <1>2
<1>4. WordsOf(cs) = made[1]
  BY DEF WordsOf
<1> HIDE DEF made
<1>5. made[0] = 0 /\ made[1] = made[0] + CommandLength(cs[1])
  BY <1>3
<1> QED
  BY <1>1, <1>4, <1>5

(* What a transaction is gathered from. *)
LEMMA TakeOrderType ==
  ASSUME HostTypeOK
  PROVE  /\ ScanOrder \in Seq(FullSlots) /\ TakeOrder \in Seq(HostCommands)
         /\ Len(lifecycle) \in Nat /\ Len(ScanOrder) \in Nat
         /\ Len(TakeOrder) = Len(lifecycle) + Len(ScanOrder)
         /\ \A i \in 1 .. Len(lifecycle) : TakeOrder[i] = lifecycle[i]
         /\ \A i \in 1 .. Len(ScanOrder) :
              /\ TakeOrder[Len(lifecycle) + i] = UpdateAt(ScanOrder[i])
              /\ UpdateAt(ScanOrder[i]) \in UpdateCommands
              /\ FlatSlot(ScanOrder[i]).v \in HostVoiceIds
              /\ FlatSlot(ScanOrder[i]).k \in UpdateKinds
         /\ Pending => Len(TakeOrder) > 0
<1> DEFINE ups == [i \in 1 .. Len(ScanOrder) |-> UpdateAt(ScanOrder[i])]
<1>1. ScanOrder \in Seq(FullSlots) /\ (FullSlots # {} => ScanOrder # << >>)
  BY ScanFinds
<1>2. lifecycle \in Seq(HostCommands) /\ Len(lifecycle) \in Nat /\ Len(ScanOrder) \in Nat
  BY <1>1 DEF HostTypeOK, HostCommands
<1>3. ASSUME NEW x \in FullSlots
      PROVE  /\ FlatSlot(x).v \in HostVoiceIds /\ FlatSlot(x).k \in UpdateKinds
             /\ UpdateAt(x) \in UpdateCommands
  <2>1. FlatSlot(x).v \in HostVoiceIds /\ FlatSlot(x).k \in UpdateKinds
    BY FlatSlotType DEF FullSlots
  <2>2. UpdateAt(x) \in UpdateCommands \cup {NoCommand} /\ UpdateAt(x).op # "NONE"
    BY <2>1 DEF FullSlots, UpdateAt, HostTypeOK, UpdateSlots
  <2> QED
    BY <2>1, <2>2 DEF NoCommand
<1>4. \A i \in 1 .. Len(ScanOrder) : ScanOrder[i] \in FullSlots
  BY <1>1
<1>5. ups \in Seq(HostCommands) /\ Len(ups) = Len(ScanOrder)
      /\ \A i \in 1 .. Len(ScanOrder) : ups[i] = UpdateAt(ScanOrder[i])
  BY <1>2, <1>3, <1>4 DEF HostCommands
<1>6. TakeOrder = lifecycle \o ups
  BY DEF TakeOrder
<1> HIDE DEF ups
<1>7. /\ TakeOrder \in Seq(HostCommands)
      /\ Len(TakeOrder) = Len(lifecycle) + Len(ScanOrder)
      /\ \A i \in 1 .. Len(lifecycle) : TakeOrder[i] = lifecycle[i]
      /\ \A i \in 1 .. Len(ScanOrder) : TakeOrder[Len(lifecycle) + i] = ups[i]
  <2>1. /\ lifecycle \o ups \in Seq(HostCommands)
        /\ Len(lifecycle \o ups) = Len(lifecycle) + Len(ups)
        /\ \A i \in 1 .. Len(lifecycle) + Len(ups) :
             (lifecycle \o ups)[i] = IF i <= Len(lifecycle) THEN lifecycle[i]
                                     ELSE ups[i - Len(lifecycle)]
    BY <1>2, <1>5, ST!ConcatProperties
  <2>2. ASSUME NEW i \in 1 .. Len(lifecycle) PROVE TakeOrder[i] = lifecycle[i]
    <3>1. i \in 1 .. Len(lifecycle) + Len(ups) /\ i <= Len(lifecycle)
      BY <1>2, <1>5
    <3> QED
      BY <1>6, <2>1, <3>1
  <2>3. ASSUME NEW i \in 1 .. Len(ScanOrder) PROVE TakeOrder[Len(lifecycle) + i] = ups[i]
    <3>1. /\ Len(lifecycle) + i \in 1 .. Len(lifecycle) + Len(ups)
          /\ ~(Len(lifecycle) + i <= Len(lifecycle)) /\ Len(lifecycle) + i - Len(lifecycle) = i
      BY <1>2, <1>5
    <3> QED
      BY <1>6, <2>1, <3>1
  <2> QED
    BY <1>5, <1>6, <2>1, <2>2, <2>3
<1>8. ASSUME Pending PROVE Len(TakeOrder) > 0
  <2>1. CASE lifecycle # << >>
    <3>1. Len(lifecycle) # 0
      BY <1>2, <2>1
    <3> QED
      BY <1>2, <1>7, <3>1
  <2>2. CASE \E v \in HostVoiceIds, k \in UpdateKinds : replaceable[v][k].op # "NONE"
    <3>1. PICK v \in HostVoiceIds, k \in UpdateKinds : replaceable[v][k].op # "NONE"
      BY <2>2
    <3>2. PICK n \in 0 .. SlotCount - 1 : FlatSlot(n).v = v /\ FlatSlot(n).k = k
      BY FlatSlotType
    <3>3. n \in FullSlots
      BY <3>1, <3>2 DEF FullSlots, UpdateAt
    <3>4. Len(ScanOrder) # 0
      BY <1>1, <1>2, <3>3
    <3> QED
      BY <1>2, <1>7, <3>4
  <2> QED
    BY <1>8, <2>1, <2>2 DEF Pending
<1> QED
  BY <1>1, <1>2, <1>3, <1>4, <1>5, <1>7, <1>8

(* How much of it fits. *)
LEMMA FittingType ==
  ASSUME HostTypeOK, Pending
  PROVE  Fitting \in 1 .. Len(TakeOrder)
<1> DEFINE n == Len(TakeOrder)
           S == {k \in 1 .. n : WordsOf(SubSeq(TakeOrder, 1, k)) <= TransactionWords}
           one == SubSeq(TakeOrder, 1, 1)
<1>1. n \in Nat /\ n > 0 /\ TakeOrder \in Seq(HostCommands)
  BY TakeOrderType
<1>2. one \in Seq(HostCommands) /\ Len(one) = 1
  BY <1>1
<1>3. 1 \in S
  <2>1. WordsOf(one) <= TransactionWords /\ 1 \in 1 .. n
    <3> HIDE DEF one, n
    <3> QED
      BY <1>1, <1>2, OneFits
  <2> QED
    BY <2>1
<1>4. Fitting = Max(S)
  BY DEF Fitting
<1>5. S \in SUBSET (1 .. n) /\ S # {}
  BY <1>3
<1> HIDE DEF S, n
<1>6. Max(S) \in S
  BY <1>1, <1>5, MaxBelow
<1> QED
  BY <1>4, <1>5, <1>6 DEF n

(* A voice, when updates move from their slots into the transaction. *)
LEMMA VoiceGathered ==
  ASSUME NEW f, NEW pending \in SUBSET LifecycleCommands, NEW later, NEW waiting \in UpdateSlots,
         NEW left, NEW w, NEW v, pending \subseteq later,
         \A d \in later : d \notin pending =>
           /\ d.op = "UPDATE"
           /\ d.v = v => d.kind \in UpdateKinds /\ waiting[d.kind].op # "NONE" /\ d = waiting[d.kind],
         \A k \in UpdateKinds : left[k] = waiting[k] \/ (left[k].op = "NONE" /\ waiting[k] \in later),
         PendingFits(pending, waiting, w, v), SlotsFit(waiting, w, v),
         VoiceFollows(f, pending, waiting, w, v)
  PROVE  PendingFits(later, left, w, v) /\ SlotsFit(left, w, v) /\ VoiceFollows(f, later, left, w, v)
<1>1. \A d \in pending : d.op # "UPDATE"
  BY DEF LifecycleCommands
<1>2. PendingFits(later, left, w, v)
  <2>1. ASSUME NEW d \in later, d.v = v
        PROVE  /\ w.state # "off" /\ d.g <= w.gen
               /\ d.g = w.gen =>
                    /\ w.state = "on" => d.op \notin {"RELEASE", "STOP"}
                    /\ w.state = "released" => d.op # "STOP"
                    /\ d.op = "UPDATE" /\ w.state # "stopped" /\ left[d.kind].op = "NONE" =>
                         d.val = w.value[d.kind]
    <3>1. CASE d \in pending
      BY <1>1, <2>1, <3>1 DEF PendingFits
    <3>2. CASE d \notin pending
      <4>1. /\ d.op = "UPDATE" /\ d.kind \in UpdateKinds /\ waiting[d.kind].op # "NONE"
            /\ d = waiting[d.kind]
        BY <2>1, <3>2
      <4>2. w.state \in {"on", "released"} /\ d.g = w.gen /\ d.val = w.value[d.kind]
        BY <4>1 DEF SlotsFit
      <4>3. d.g \in Nat
        BY <4>1 DEF UpdateSlots, UpdateCommands, NoCommand
      <4> QED
        BY <4>1, <4>2, <4>3
    <3> QED
      BY <3>1, <3>2
  <2> QED
    BY <2>1 DEF PendingFits
<1>3. SlotsFit(left, w, v)
  BY DEF SlotsFit
<1>4. StartAhead(later, v) <=> StartAhead(pending, v)
  BY DEF StartAhead
<1>5. \A op, g : op # "UPDATE" =>
                   (CommandAhead(later, op, v, g) <=> CommandAhead(pending, op, v, g))
  BY DEF CommandAhead
<1>6. ASSUME w.state # "stopped", NEW k \in UpdateKinds
      PROVE  \/ left[k].op # "NONE"
             \/ \E d \in later : d.op = "UPDATE" /\ d.v = v /\ d.g = w.gen /\ d.kind = k
             \/ \E d \in later : d.op = "START" /\ d.v = v /\ d.g = w.gen /\ d.value[k] = w.value[k]
             \/ ~StartAhead(later, v) /\ f.value[k] = w.value[k]
  <2>1. CASE waiting[k].op # "NONE"
    <3>1. waiting[k].v = v /\ waiting[k].kind = k /\ waiting[k].g = w.gen
      BY <2>1 DEF SlotsFit
    <3>2. waiting[k].op = "UPDATE"
      BY <2>1 DEF UpdateSlots, UpdateCommands, NoCommand
    <3> QED
      BY <2>1, <3>1, <3>2
  <2>2. CASE waiting[k].op = "NONE"
    BY <1>1, <1>4, <1>6, <2>2 DEF VoiceFollows
  <2> QED
    BY <2>1, <2>2
<1>7. VoiceFollows(f, later, left, w, v)
  BY <1>4, <1>5, <1>6 DEF VoiceFollows
<1> QED
  BY <1>2, <1>3, <1>7

(* What Gather takes. *)
LEMMA GatherTakes ==
  ASSUME HostTypeOK, transaction = << >>, Gather
  PROVE  /\ transaction' \in Seq(HostCommands) /\ lifecycle' \in Seq(LifecycleCommands)
         /\ replaceable' \in [HostVoiceIds -> UpdateSlots] /\ cursor' \in Nat
         /\ DeliveryOK(fpga, transaction, lifecycle, replaceable, intent) =>
              DeliveryOK(fpga, transaction', lifecycle', replaceable', intent)
<1> DEFINE n == Len(lifecycle)
           m == Len(ScanOrder)
           t == Fitting
           x == TakeOrder
           updates == t - n
           Given(v, k) == \E i \in 1 .. updates : FlatSlot(ScanOrder[i]) = [v |-> v, k |-> k]
<1>1. /\ transaction' = SubSeq(x, 1, t)
      /\ lifecycle' = SubSeq(lifecycle, t + 1, n)
      /\ replaceable' = [v \in HostVoiceIds |-> [k \in UpdateKinds |->
                           IF Given(v, k) THEN NoCommand ELSE replaceable[v][k]]]
  BY DEF Gather
<1>2. t \in 1 .. Len(x)
  BY FittingType DEF Gather
<1>3. /\ ScanOrder \in Seq(FullSlots) /\ x \in Seq(HostCommands) /\ n \in Nat /\ m \in Nat
      /\ Len(x) = n + m /\ \A i \in 1 .. n : x[i] = lifecycle[i]
      /\ \A i \in 1 .. m : /\ x[n + i] = UpdateAt(ScanOrder[i])
                           /\ UpdateAt(ScanOrder[i]) \in UpdateCommands
                           /\ FlatSlot(ScanOrder[i]).v \in HostVoiceIds
                           /\ FlatSlot(ScanOrder[i]).k \in UpdateKinds
  BY TakeOrderType
<1>4. cursor' \in Nat
  <2>1. PICK scanned \in Int : /\ scanned <= m
                               /\ cursor' = IF scanned > 0 THEN (ScanOrder[scanned] + 1) % SlotCount
                                            ELSE cursor
    <3>1. CASE Fitting < Len(TakeOrder) /\ WordsOf(transaction') < TransactionWords
      <4>1. updates + 1 \in Int /\ updates + 1 <= m
        BY <1>2, <1>3, <3>1
      <4>2. cursor' = IF updates + 1 > 0 THEN (ScanOrder[updates + 1] + 1) % SlotCount ELSE cursor
        BY <3>1 DEF Gather
      <4> QED
        BY <4>1, <4>2
    <3>2. CASE ~(Fitting < Len(TakeOrder) /\ WordsOf(transaction') < TransactionWords)
      <4>1. updates \in Int /\ updates <= m
        BY <1>2, <1>3
      <4>2. cursor' = IF updates > 0 THEN (ScanOrder[updates] + 1) % SlotCount ELSE cursor
        BY <3>2 DEF Gather
      <4> QED
        BY <4>1, <4>2
    <3> QED
      BY <3>1, <3>2
  <2>2. CASE scanned > 0
    <3>1. scanned \in 1 .. m
      BY <2>1, <2>2, <1>3
    <3>2. ScanOrder[scanned] \in FullSlots
      BY <1>3, <3>1
    <3>3. ScanOrder[scanned] + 1 \in Int
      BY <3>2 DEF FullSlots
    <3>4. (ScanOrder[scanned] + 1) % SlotCount \in 0 .. SlotCount - 1
      BY <3>3, FlatSlotType, DivMod
    <3>5. (ScanOrder[scanned] + 1) % SlotCount \in Nat
      BY <3>4, FlatSlotType
    <3> QED
      BY <2>1, <2>2, <3>5
  <2>3. CASE ~(scanned > 0)
    BY <2>1, <2>3 DEF HostTypeOK
  <2> QED
    BY <2>2, <2>3
<1>5. /\ transaction' \in Seq(HostCommands) /\ Len(transaction') = t
      /\ \A i \in 1 .. t : transaction'[i] = x[i]
  <2> HIDE DEF x, t
  <2> QED
    BY <1>1, <1>2, <1>3
<1>6. lifecycle \in Seq(LifecycleCommands) /\ \A i \in 1 .. n : lifecycle[i] \in LifecycleCommands
  BY DEF HostTypeOK
<1>7. /\ lifecycle' \in Seq(LifecycleCommands)
      /\ Len(lifecycle') = IF t < n THEN n - t ELSE 0
      /\ \A i \in 1 .. Len(lifecycle') : t + i \in 1 .. n /\ lifecycle'[i] = lifecycle[t + i]
  <2> DEFINE a == t + 1
  <2>1. a \in Int /\ a >= 1 /\ n \in Int /\ \A i \in a .. n : lifecycle[i] \in LifecycleCommands
    BY <1>2, <1>3, <1>6
  <2> HIDE DEF a
  <2>2. /\ SubSeq(lifecycle, a, n) \in Seq(LifecycleCommands)
        /\ Len(SubSeq(lifecycle, a, n)) = IF a <= n THEN n - a + 1 ELSE 0
        /\ \A i \in 1 .. (n - a + 1) : SubSeq(lifecycle, a, n)[i] = lifecycle[a + i - 1]
    BY <2>1, ST!SubSeqProperties
  <2>3. lifecycle' = SubSeq(lifecycle, a, n) /\ a = t + 1 /\ t \in Int
    BY <1>1, <1>2 DEF a
  <2> HIDE DEF t, n
  <2>4. Len(lifecycle') = IF t < n THEN n - t ELSE 0
    BY <2>1, <2>2, <2>3
  <2>5. ASSUME NEW i \in 1 .. Len(lifecycle')
        PROVE  t + i \in 1 .. n /\ lifecycle'[i] = lifecycle[t + i]
    <3>1. i \in 1 .. (n - a + 1) /\ a + i - 1 = t + i /\ t + i \in 1 .. n
      BY <2>1, <2>3, <2>4
    <3> QED
      BY <2>2, <2>3, <3>1
  <2> QED
    BY <2>2, <2>3, <2>4, <2>5
<1>8. replaceable' \in [HostVoiceIds -> UpdateSlots]
  <2>1. ASSUME NEW v \in HostVoiceIds, NEW k \in UpdateKinds
        PROVE  (IF Given(v, k) THEN NoCommand ELSE replaceable[v][k])
                 \in UpdateCommands \cup {NoCommand}
    BY DEF HostTypeOK, UpdateSlots
  <2> HIDE DEF Given
  <2> QED
    BY <1>1, <2>1 DEF UpdateSlots
<1>9. ASSUME DeliveryOK(fpga, transaction, lifecycle, replaceable, intent)
      PROVE  DeliveryOK(fpga, transaction', lifecycle', replaceable', intent)
  <2> DEFINE pending == Ahead(transaction, 0, lifecycle)
             later == Ahead(transaction', 0, lifecycle')
             T == transaction'
             L == lifecycle'
  <2>1. pending = {lifecycle[i] : i \in 1 .. n} /\ pending \in SUBSET LifecycleCommands
    BY <1>6 DEF Ahead
  <2>2. t \in Int /\ t >= 1 /\ t <= n + m
    BY <1>2, <1>3
  <2> HIDE DEF t, n, m, x
  <2>3. \A i \in 1 .. n : lifecycle[i] \in later
    <3>1. ASSUME NEW i \in 1 .. n PROVE lifecycle[i] \in later
      <4>1. CASE i <= t
        <5>1. i \in 1 .. t /\ i \in 0 + 1 .. Len(T) /\ T[i] = lifecycle[i]
          BY <1>3, <1>5, <2>2, <4>1
        <5> QED
          BY <5>1 DEF Ahead
      <4>2. CASE i > t
        <5>1. i - t \in 1 .. Len(L) /\ t + (i - t) = i
          BY <1>3, <1>7, <2>2, <4>2
        <5>2. L[i - t] = lifecycle[i]
          BY <1>7, <5>1
        <5> QED
          BY <5>1, <5>2 DEF Ahead
      <4> QED
        BY <1>3, <2>2, <4>1, <4>2
    <3> QED
      BY <3>1
  <2>4. ASSUME NEW d \in later, d \notin pending
        PROVE  \E i \in 1 .. m : i <= t - n /\ d = UpdateAt(ScanOrder[i])
    <3>1. PICK i \in 1 .. t : d = T[i]
      <4>1. ~ \E i \in 1 .. Len(L) : d = L[i]
        BY <1>7, <2>1, <2>4
      <4>2. \E i \in 0 + 1 .. Len(T) : d = T[i]
        BY <2>4, <4>1 DEF Ahead
      <4> QED
        BY <1>5, <4>2
    <3>2. i > n
      <4>1. i \in Int /\ i >= 1 /\ T[i] = x[i]
        BY <1>5, <2>2, <3>1
      <4>2. ASSUME i <= n PROVE FALSE
        <5>1. i \in 1 .. n
          BY <1>3, <4>1, <4>2
        <5>2. d = lifecycle[i]
          BY <1>3, <3>1, <4>1, <5>1
        <5> QED
          BY <2>1, <2>4, <5>1, <5>2
      <4> QED
        BY <1>3, <4>1, <4>2
    <3>3. i - n \in 1 .. m /\ i - n <= t - n /\ n + (i - n) = i
      BY <1>3, <2>2, <3>1, <3>2
    <3>4. x[i] = UpdateAt(ScanOrder[i - n])
      BY <1>3, <3>3
    <3> QED
      BY <1>5, <3>1, <3>3, <3>4
  <2>5. ASSUME NEW i \in 1 .. m, i <= t - n PROVE UpdateAt(ScanOrder[i]) \in later
    <3>1. n + i \in 1 .. t /\ n + i \in 0 + 1 .. Len(T)
      BY <1>3, <1>5, <2>2, <2>5
    <3>2. T[n + i] = UpdateAt(ScanOrder[i])
      BY <1>3, <1>5, <3>1
    <3> QED
      BY <3>1, <3>2 DEF Ahead
  <2>6. StartsNewest(T, L)
    <3>1. \A i \in 1 .. n : Newest(lifecycle[i], {lifecycle[j] : j \in 1 .. i - 1})
      BY <1>9 DEF StartsNewest, DeliveryOK, n
    <3>2. ASSUME NEW i \in 1 .. Len(T) PROVE Newest(T[i], {T[j] : j \in 1 .. i - 1})
      <4>1. i \in 1 .. t /\ i \in Int /\ T[i] = x[i] /\ \A j \in 1 .. i - 1 : j \in 1 .. t
        BY <1>5, <2>2
      <4>2. CASE i <= n
        <5>1. i \in 1 .. n /\ \A j \in 1 .. i - 1 : j \in 1 .. n
          BY <1>3, <4>1, <4>2
        <5>2. T[i] = lifecycle[i] /\ \A j \in 1 .. i - 1 : T[j] = lifecycle[j]
          BY <1>3, <1>5, <4>1, <5>1
        <5> QED
          BY <3>1, <5>1, <5>2 DEF Newest
      <4>3. CASE i > n
        <5>1. i - n \in 1 .. m /\ n + (i - n) = i
          BY <1>3, <2>2, <4>1, <4>3
        <5>2. x[i] \in UpdateCommands
          BY <1>3, <5>1
        <5>3. T[i].op = "UPDATE"
          BY <4>1, <5>2 DEF UpdateCommands
        <5> QED
          BY <5>3 DEF Newest
      <4> QED
        BY <1>3, <4>1, <4>2, <4>3
    <3>3. ASSUME NEW i \in 1 .. Len(L)
          PROVE  Newest(L[i], {T[j] : j \in 1 .. Len(T)}) /\ Newest(L[i], {L[j] : j \in 1 .. i - 1})
      <4>1. t < n /\ t + i \in 1 .. n /\ L[i] = lifecycle[t + i]
        BY <1>3, <1>7, <2>2
      <4> DEFINE p == t + i
      <4>2. p \in 1 .. n /\ i \in Int /\ i >= 1 /\ p = t + i /\ Len(L) \in Nat /\ i <= Len(L)
        BY <1>7, <4>1
      <4>3. L[i] = lifecycle[p]
        BY <4>1
      <4> HIDE DEF p
      <4>4. Newest(lifecycle[p], {lifecycle[j] : j \in 1 .. p - 1})
        BY <3>1, <4>2
      <4>5. ASSUME NEW j \in 1 .. Len(T) PROVE j \in 1 .. p - 1 /\ T[j] = lifecycle[j]
        <5>1. j \in 1 .. t /\ j \in 1 .. n /\ j \in 1 .. p - 1
          BY <1>3, <1>5, <2>2, <4>1, <4>2
        <5> QED
          BY <1>3, <1>5, <5>1
      <4>6. ASSUME NEW j \in 1 .. i - 1 PROVE t + j \in 1 .. p - 1 /\ L[j] = lifecycle[t + j]
        <5>1. j \in 1 .. Len(L) /\ t + j \in 1 .. p - 1
          BY <2>2, <4>2
        <5> QED
          BY <1>7, <5>1
      <4>7. ASSUME L[i].op = "START", NEW j \in 1 .. p - 1, lifecycle[j].v = L[i].v
            PROVE  lifecycle[j].g < L[i].g
        BY <4>3, <4>4, <4>7 DEF Newest
      <4> QED
        BY <4>5, <4>6, <4>7 DEF Newest
    <3> QED
      BY <3>2, <3>3 DEF StartsNewest
  <2>7. ASSUME NEW v \in HostVoiceIds
        PROVE  /\ PendingFits(later, replaceable'[v], intent[v], v)
               /\ SlotsFit(replaceable'[v], intent[v], v)
               /\ VoiceFollows(fpga[v], later, replaceable'[v], intent[v], v)
    <3> DEFINE waiting == replaceable[v]
               left == replaceable'[v]
               w == intent[v]
               f == fpga[v]
    <3>1. waiting \in UpdateSlots /\ pending \subseteq later
      BY <2>1, <2>3 DEF HostTypeOK
    <3>2. ASSUME NEW d \in later, d \notin pending
          PROVE  /\ d.op = "UPDATE"
                 /\ d.v = v =>
                      d.kind \in UpdateKinds /\ waiting[d.kind].op # "NONE" /\ d = waiting[d.kind]
      <4>1. PICK i \in 1 .. m : d = UpdateAt(ScanOrder[i])
        BY <2>4, <3>2
      <4> DEFINE a == FlatSlot(ScanOrder[i]).v
                 b == FlatSlot(ScanOrder[i]).k
      <4>2. d \in UpdateCommands /\ a \in HostVoiceIds /\ b \in UpdateKinds
            /\ d = replaceable[a][b]
        BY <1>3, <4>1 DEF UpdateAt
      <4> HIDE DEF a, b
      <4>3. d.op = "UPDATE"
        BY <4>2 DEF UpdateCommands
      <4>4. d.v = a /\ d.kind = b
        BY <1>9, <4>2, <4>3 DEF DeliveryOK, SlotsFit
      <4> QED
        BY <4>2, <4>3, <4>4
    <3>3. ASSUME NEW k \in UpdateKinds
          PROVE  left[k] = waiting[k] \/ (left[k].op = "NONE" /\ waiting[k] \in later)
      <4>1. left[k] = IF Given(v, k) THEN NoCommand ELSE waiting[k]
        BY <1>1
      <4>2. CASE ~Given(v, k)
        <5> HIDE DEF Given, left, waiting
        <5> QED
          BY <4>1, <4>2
      <4>3. CASE Given(v, k)
        <5>1. PICK i \in 1 .. updates : FlatSlot(ScanOrder[i]) = [v |-> v, k |-> k]
          BY <4>3
        <5>2. i \in 1 .. m /\ i <= t - n
          BY <1>3, <2>2, <5>1
        <5>3. UpdateAt(ScanOrder[i]) = waiting[k]
          BY <5>1 DEF UpdateAt
        <5>4. left[k].op = "NONE"
          BY <4>1, <4>3 DEF NoCommand
        <5> QED
          BY <2>5, <5>2, <5>3, <5>4
      <4> QED
        BY <4>2, <4>3
    <3>4. /\ PendingFits(pending, waiting, w, v) /\ SlotsFit(waiting, w, v)
          /\ VoiceFollows(f, pending, waiting, w, v)
      BY <1>9 DEF DeliveryOK
    <3> HIDE DEF waiting, left, w, f, pending, later
    <3>5. PendingFits(later, left, w, v) /\ SlotsFit(left, w, v) /\ VoiceFollows(f, later, left, w, v)
      BY <2>1, <3>1, <3>2, <3>3, <3>4, VoiceGathered
    <3> QED
      BY <3>5 DEF left, w, f
  <2> QED
    BY <2>6, <2>7 DEF DeliveryOK
<1> QED
  BY <1>4, <1>5, <1>7, <1>8, <1>9

-----------------------------------------------------------------------------
(* HostPlayer: every step. *)

(* Nothing pending: the FPGA holds what main wants. *)
LEMMA IdleAgrees ==
  ASSUME HostInv, Idle, DeliveryOK(fpga, transaction, lifecycle, replaceable, intent),
         NEW v \in HostVoiceIds
  PROVE  /\ fpga[v].gen = intent[v].gen /\ fpga[v].state = intent[v].state
         /\ intent[v].state # "stopped" => fpga[v].value = intent[v].value
<1>1. /\ transaction = << >> /\ lifecycle = << >>
      /\ \A k \in UpdateKinds : replaceable[v][k].op = "NONE"
  BY DEF HostInv, Idle, Pending
<1>2. Ahead(transaction, 0, lifecycle) = {}
  BY <1>1 DEF Ahead
<1>3. VoiceFollows(fpga[v], {}, replaceable[v], intent[v], v)
  BY <1>2 DEF DeliveryOK
<1>4. ~StartAhead({}, v) /\ \A op, g : ~CommandAhead({}, op, v, g)
  BY DEF StartAhead, CommandAhead
<1>5. intent[v] \in HostVoice /\ fpga[v] \in HostVoice
  BY DEF HostInv, HostTypeOK
<1>6. /\ intent[v].state \in {"off", "on", "released", "stopped"}
      /\ intent[v].value \in [UpdateKinds -> Values] /\ fpga[v].value \in [UpdateKinds -> Values]
  BY <1>5 DEF HostVoice
<1>7. fpga[v].gen = intent[v].gen /\ fpga[v].state = intent[v].state
  BY <1>3, <1>4, <1>6 DEF VoiceFollows
<1>8. ASSUME intent[v].state # "stopped" PROVE fpga[v].value = intent[v].value
  <2>1. \A k \in UpdateKinds : fpga[v].value[k] = intent[v].value[k]
    BY <1>1, <1>3, <1>4, <1>8 DEF VoiceFollows
  <2> QED
    BY <1>6, <2>1
<1> QED
  BY <1>7, <1>8

(* A batch of commands, for an event or at the end. *)
LEMMA BatchKeeps ==
  ASSUME HostInv, main \in {"pop", "silence"}, NEW b \in Batches,
         NEW u \in [HostVoiceIds -> HostVoice],
         \A v \in HostVoiceIds : Tells(b[v], intent[v], u[v]), EnqueueBatch(b), intent' = u,
         control' \in [UpdateKinds -> Values], midi' \in Seq(MidiEvents),
         fatal' = (fatal \/ Enqueued(b).threw), UNCHANGED <<workerVars, stopping>>
  PROVE  /\ HostTypeOK' /\ (worker # "write" => transaction = << >>)'
         /\ ~stopping' /\ ~abandoned'
         /\ ~fatal' => DeliveryOK(fpga, transaction, lifecycle, replaceable, intent)'
<1>1. ~stopping /\ ~abandoned
  BY DEF HostInv
<1>2. Enqueued(b) \in SchedulerRecord
  BY EnqueuedBatch DEF HostInv
<1>3. Enqueued(b).threw \in BOOLEAN /\ fatal \in BOOLEAN
  BY <1>2 DEF SchedulerRecord, HostInv, HostTypeOK
<1>4. fatal' \in BOOLEAN
  BY <1>3
<1>5. /\ lifecycle' = Enqueued(b).lifecycle /\ replaceable' = Enqueued(b).replaceable
      /\ cursor' = cursor
  BY DEF EnqueueBatch
<1>6. /\ worker' = worker /\ transaction' = transaction /\ abandoned' = abandoned /\ fpga' = fpga
      /\ stopping' = stopping
  BY DEF workerVars
<1>7. HostTypeOK'
  BY <1>2, <1>4, <1>5, <1>6 DEF HostInv, HostTypeOK, SchedulerRecord
<1>8. ASSUME ~fatal' PROVE DeliveryOK(fpga, transaction, lifecycle, replaceable, intent)'
  <2>1. ~fatal /\ ~Enqueued(b).threw
    BY <1>3, <1>8
  <2>2. DeliveryOK(fpga, transaction, lifecycle, replaceable, intent)
    BY <1>1, <2>1 DEF HostInv
  <2>3. DeliveryOK(fpga, transaction, Enqueued(b).lifecycle, Enqueued(b).replaceable, u)
    BY <2>1, <2>2, BatchDelivery DEF HostInv
  <2> QED
    BY <1>5, <1>6, <2>3
<1> QED
  BY <1>1, <1>6, <1>7, <1>8 DEF HostInv

(* Batches the program sends, and what they tell. *)
LEMMA OnlyIsBatch ==
  ASSUME NEW v \in HostVoiceIds, NEW c \in HostCommands, c.v = v
  PROVE  /\ Only(v, c) \in Batches /\ Only(v, c)[v] = c
         /\ \A x \in HostVoiceIds : x # v => Only(v, c)[x].op = "NONE"
<1>1. c.op # "NONE"
  BY CommandFields
<1>2. \A x \in HostVoiceIds : Only(v, c)[x] = IF x = v THEN c ELSE NoCommand
  BY DEF Only, NoCommands
<1>3. Only(v, c) \in [HostVoiceIds -> HostCommands \cup {NoCommand}]
  BY DEF Only, NoCommands
<1> HIDE DEF Only
<1> QED
  BY <1>1, <1>2, <1>3 DEF Batches, NoCommand

(* An event handled. *)
LEMMA HandledKeeps ==
  ASSUME HostInv, main = "pop", NEW b \in Batches, NEW u \in [HostVoiceIds -> HostVoice],
         NEW c \in [UpdateKinds -> Values],
         \A v \in HostVoiceIds : Tells(b[v], intent[v], u[v]), Handled(b, u, c),
         midi' \in Seq(MidiEvents), UNCHANGED <<workerVars, stopping>>
  PROVE  HostInv'
<1>1. /\ HostTypeOK' /\ (worker # "write" => transaction = << >>)'
      /\ ~stopping' /\ ~abandoned'
      /\ ~fatal' => DeliveryOK(fpga, transaction, lifecycle, replaceable, intent)'
  BY BatchKeeps DEF Handled
<1>2. main' \in {"silence", "pop"}
  BY DEF Handled
<1> QED
  BY <1>1, <1>2 DEF HostInv

(* A note starts a voice. *)
LEMMA NoteOnKeepsHost ==
  ASSUME HostInv, main = "pop", NEW v \in HostVoiceIds, HandleNoteOn(v),
         midi' \in Seq(MidiEvents), UNCHANGED <<workerVars, stopping>>
  PROVE  HostInv'
<1> DEFINE c == Start(v)
           b == Only(v, c)
           u == [intent EXCEPT ![v] = [gen |-> @.gen + 1, state |-> "on", value |-> control]]
<1>1. intent \in [HostVoiceIds -> HostVoice] /\ control \in [UpdateKinds -> Values]
  BY DEF HostInv, HostTypeOK
<1>2. intent[v].gen \in Nat
  BY <1>1 DEF HostVoice
<1>3. c \in HostCommands /\ c.v = v /\ c.op = "START" /\ c.g = intent[v].gen + 1
      /\ c.value = control
  BY <1>1, <1>2 DEF Start, HostCommands, LifecycleCommands
<1> HIDE DEF c
<1>4. b \in Batches /\ b[v] = c /\ \A x \in HostVoiceIds : x # v => b[x].op = "NONE"
  BY <1>3, OnlyIsBatch
<1>5. [gen |-> intent[v].gen + 1, state |-> "on", value |-> control] \in HostVoice
  BY <1>1, <1>2 DEF HostVoice
<1>6. /\ u \in [HostVoiceIds -> HostVoice]
      /\ u[v] = [gen |-> intent[v].gen + 1, state |-> "on", value |-> control]
      /\ \A x \in HostVoiceIds : x # v => u[x] = intent[x]
  BY <1>1, <1>5
<1>7. Handled(b, u, control)
  BY DEF HandleNoteOn, c
<1> HIDE DEF b, u
<1>8. ASSUME NEW x \in HostVoiceIds PROVE Tells(b[x], intent[x], u[x])
  <2>1. CASE x = v
    BY <1>3, <1>4, <1>6, <2>1 DEF Tells
  <2>2. CASE x # v
    BY <1>4, <1>6, <2>2 DEF Tells
  <2> QED
    BY <2>1, <2>2
<1> QED
  BY <1>1, <1>4, <1>6, <1>7, <1>8, HandledKeeps

(* A note ends, or none is held. *)
LEMMA NoteOffKeepsHost ==
  ASSUME HostInv, main = "pop", HandleNoteOff, midi' \in Seq(MidiEvents),
         UNCHANGED <<workerVars, stopping>>
  PROVE  HostInv'
<1>1. intent \in [HostVoiceIds -> HostVoice] /\ control \in [UpdateKinds -> Values]
  BY DEF HostInv, HostTypeOK
<1>2. CASE Handled(NoCommands, intent, control)
  <2>1. NoCommands \in Batches /\ \A v \in HostVoiceIds : NoCommands[v].op = "NONE"
    BY DEF NoCommands, NoCommand, Batches
  <2>2. \A v \in HostVoiceIds : Tells(NoCommands[v], intent[v], intent[v])
    BY <2>1 DEF Tells
  <2> QED
    BY <1>1, <1>2, <2>1, <2>2, HandledKeeps
<1>3. ASSUME NEW v \in HostVoiceIds, intent[v].state = "on",
             Handled(Only(v, Command("RELEASE", v)), [intent EXCEPT ![v].state = "released"],
                     control)
      PROVE  HostInv'
  <2> DEFINE c == Command("RELEASE", v)
             b == Only(v, c)
             u == [intent EXCEPT ![v].state = "released"]
  <2>1. intent[v] \in HostVoice /\ intent[v].gen \in Nat
    BY <1>1 DEF HostVoice
  <2>2. c \in HostCommands /\ c.v = v /\ c.op = "RELEASE" /\ c.g = intent[v].gen
    BY <2>1 DEF Command, HostCommands, LifecycleCommands
  <2> HIDE DEF c
  <2>3. b \in Batches /\ b[v] = c /\ \A x \in HostVoiceIds : x # v => b[x].op = "NONE"
    BY <2>2, OnlyIsBatch
  <2>4. [intent[v] EXCEPT !.state = "released"] \in HostVoice
    BY <2>1 DEF HostVoice
  <2>5. /\ u \in [HostVoiceIds -> HostVoice] /\ u[v] = [intent[v] EXCEPT !.state = "released"]
        /\ \A x \in HostVoiceIds : x # v => u[x] = intent[x]
    BY <1>1, <2>4
  <2>6. Handled(b, u, control)
    BY <1>3 DEF c
  <2> HIDE DEF b, u
  <2>7. ASSUME NEW x \in HostVoiceIds PROVE Tells(b[x], intent[x], u[x])
    <3>1. CASE x = v
      BY <1>3, <2>2, <2>3, <2>5, <3>1 DEF Tells
    <3>2. CASE x # v
      BY <2>3, <2>5, <3>2 DEF Tells
    <3> QED
      BY <3>1, <3>2
  <2> QED
    BY <1>1, <2>3, <2>5, <2>6, <2>7, HandledKeeps
<1> QED
  BY <1>2, <1>3 DEF HandleNoteOff

(* A controller reaches the voices it changes. *)
LEMMA ControlKeepsHost ==
  ASSUME HostInv, main = "pop", NEW k \in UpdateKinds, NEW value \in Values,
         HandleControl(k, value), midi' \in Seq(MidiEvents), UNCHANGED <<workerVars, stopping>>
  PROVE  HostInv'
<1> DEFINE b == [v \in HostVoiceIds |-> IF Touched(v, k, value) THEN Update(v, k, value)
                                        ELSE NoCommand]
           u == [v \in HostVoiceIds |-> IF Touched(v, k, value)
                                        THEN [intent[v] EXCEPT !.value[k] = value] ELSE intent[v]]
           c == [control EXCEPT ![k] = value]
<1>1. intent \in [HostVoiceIds -> HostVoice] /\ c \in [UpdateKinds -> Values]
  BY DEF HostInv, HostTypeOK
<1>2. ASSUME NEW v \in HostVoiceIds
      PROVE  /\ Update(v, k, value) \in HostCommands /\ Update(v, k, value).v = v
             /\ Update(v, k, value).op = "UPDATE" /\ Update(v, k, value).g = intent[v].gen
             /\ Update(v, k, value).kind = k /\ Update(v, k, value).val = value
  <2>1. intent[v].gen \in Nat
    BY <1>1 DEF HostVoice
  <2> QED
    BY <2>1 DEF Update, HostCommands, UpdateCommands
<1>3. ASSUME NEW v \in HostVoiceIds PROVE [intent[v] EXCEPT !.value[k] = value] \in HostVoice
  <2>1. intent[v] \in HostVoice
    BY <1>1
  <2> QED
    BY <2>1 DEF HostVoice
<1>4. u \in [HostVoiceIds -> HostVoice]
  BY <1>1, <1>3
<1>5. b \in Batches
  <2>1. b \in [HostVoiceIds -> HostCommands \cup {NoCommand}]
    BY <1>2
  <2>2. ASSUME NEW v \in HostVoiceIds, b[v].op # "NONE" PROVE b[v] \in HostCommands /\ b[v].v = v
    <3>1. b[v] = Update(v, k, value)
      BY <2>2 DEF NoCommand
    <3> HIDE DEF b
    <3> QED
      BY <1>2, <3>1
  <2> HIDE DEF b
  <2> QED
    BY <2>1, <2>2 DEF Batches
<1>6. ASSUME NEW v \in HostVoiceIds PROVE Tells(b[v], intent[v], u[v])
  <2>1. CASE Touched(v, k, value)
    <3>1. b[v] = Update(v, k, value) /\ u[v] = [intent[v] EXCEPT !.value[k] = value]
          /\ intent[v].state \in {"on", "released"}
      BY <2>1 DEF Touched, Playing
    <3> HIDE DEF b, u
    <3> QED
      BY <1>2, <3>1 DEF Tells
  <2>2. CASE ~Touched(v, k, value)
    <3>1. b[v] = NoCommand /\ u[v] = intent[v]
      BY <2>2
    <3> HIDE DEF b, u
    <3> QED
      BY <3>1 DEF Tells, NoCommand
  <2> QED
    BY <2>1, <2>2
<1>7. Handled(b, u, c)
  BY DEF HandleControl
<1> HIDE DEF b, u, c
<1> QED
  BY <1>1, <1>4, <1>5, <1>6, <1>7, HandledKeeps

(* All Sound Off. *)
LEMMA StopsTell ==
  ASSUME HostInv
  PROVE  /\ StopCommands \in Batches /\ Stopped \in [HostVoiceIds -> HostVoice]
         /\ \A v \in HostVoiceIds : /\ Tells(StopCommands[v], intent[v], Stopped[v])
                                    /\ Stopped[v].state \notin {"on", "released"}
<1>1. intent \in [HostVoiceIds -> HostVoice]
  BY DEF HostInv, HostTypeOK
<1>2. ASSUME NEW v \in HostVoiceIds
      PROVE  /\ Command("STOP", v) \in HostCommands /\ Command("STOP", v).v = v
             /\ Command("STOP", v).op = "STOP" /\ Command("STOP", v).g = intent[v].gen
             /\ [intent[v] EXCEPT !.state = "stopped"] \in HostVoice
             /\ [intent[v] EXCEPT !.state = "stopped"].state = "stopped"
  <2>1. intent[v] \in HostVoice /\ intent[v].gen \in Nat
    BY <1>1 DEF HostVoice
  <2> QED
    BY <2>1 DEF Command, HostCommands, LifecycleCommands, HostVoice
<1>3. Stopped \in [HostVoiceIds -> HostVoice]
  BY <1>1, <1>2 DEF Stopped
<1>4. StopCommands \in Batches
  <2>1. StopCommands \in [HostVoiceIds -> HostCommands \cup {NoCommand}]
    BY <1>2 DEF StopCommands
  <2>2. ASSUME NEW v \in HostVoiceIds, StopCommands[v].op # "NONE"
        PROVE  StopCommands[v] \in HostCommands /\ StopCommands[v].v = v
    <3>1. StopCommands[v] = Command("STOP", v)
      BY <2>2 DEF StopCommands, NoCommand
    <3> QED
      BY <1>2, <3>1
  <2> QED
    BY <2>1, <2>2 DEF Batches
<1>5. ASSUME NEW v \in HostVoiceIds
      PROVE  /\ Tells(StopCommands[v], intent[v], Stopped[v])
             /\ Stopped[v].state \notin {"on", "released"}
  <2>1. CASE Playing(v)
    <3>1. /\ StopCommands[v] = Command("STOP", v)
          /\ Stopped[v] = [intent[v] EXCEPT !.state = "stopped"]
          /\ intent[v].state \in {"on", "released"}
      BY <2>1 DEF StopCommands, Stopped, Playing
    <3> QED
      BY <1>2, <3>1 DEF Tells
  <2>2. CASE ~Playing(v)
    <3>1. StopCommands[v] = NoCommand /\ Stopped[v] = intent[v]
      BY <2>2 DEF StopCommands, Stopped
    <3> QED
      BY <2>2, <3>1 DEF Tells, NoCommand, Playing
  <2> QED
    BY <2>1, <2>2
<1> QED
  BY <1>3, <1>4, <1>5

(* Steps that leave the commands and the voices alone. *)
LEMMA QuietKeepsHost ==
  ASSUME HostInv, midi' \in Seq(MidiEvents), UNCHANGED <<control, intent, queueVars>>,
         UNCHANGED <<transaction, abandoned, fpga>>,
         worker' \in {"wait", "write", "ended"}, worker' = "write" <=> worker = "write",
         stopping' \in BOOLEAN, abandoned => stopping', stopping' => main' \in {"shutdown", "exit"},
         fatal' \in BOOLEAN, fatal => fatal',
         ~fatal' /\ main' \in {"drain", "shutdown", "exit"} => \A v \in HostVoiceIds : ~Playing(v),
         ~fatal' /\ main' \in {"shutdown", "exit"} =>
           Idle /\ \A v \in HostVoiceIds : fpga[v].state \notin {"on", "released"}
  PROVE  HostInv'
<1>1. /\ control' = control /\ intent' = intent /\ lifecycle' = lifecycle
      /\ replaceable' = replaceable /\ cursor' = cursor /\ transaction' = transaction
      /\ abandoned' = abandoned /\ fpga' = fpga
  BY DEF queueVars
<1>2. HostTypeOK'
  BY <1>1 DEF HostInv, HostTypeOK
<1>3. Idle' <=> Idle
  BY <1>1 DEF Idle, Pending
<1>4. \A v \in HostVoiceIds : Playing(v)' <=> Playing(v)
  BY <1>1 DEF Playing
<1>5. (worker # "write" => transaction = << >>)'
  BY <1>1 DEF HostInv
<1>6. ~fatal' /\ ~abandoned' => DeliveryOK(fpga, transaction, lifecycle, replaceable, intent)'
  BY <1>1 DEF HostInv
<1> QED
  BY <1>1, <1>2, <1>3, <1>4, <1>5, <1>6 DEF HostInv

(* The queue of events holds events. *)
LEMMA PushKeepsType ==
  ASSUME HostTypeOK, NEW e \in MidiEvents, Push(e)
  PROVE  midi' \in Seq(MidiEvents)
<1> DEFINE i == Max({j \in DOMAIN midi : SameReplacementKey(midi[j], e)})
<1>1. midi \in Seq(MidiEvents)
  BY DEF HostTypeOK
<1>2. midi' \in {Append(midi, e), [midi EXCEPT ![i] = e], midi}
  BY DEF Push
<1> DEFINE S == MidiEvents
<1>4. midi \in Seq(S) /\ e \in S
  BY <1>1
<1> HIDE DEF i, S
<1>3. Append(midi, e) \in Seq(S)
  BY <1>4, AppendTop
<1>5. [midi EXCEPT ![i] = e] \in Seq(S)
  <2>1. Len(midi) \in Nat /\ midi \in [1 .. Len(midi) -> S]
    BY <1>4, ST!LenProperties
  <2>2. [midi EXCEPT ![i] = e] \in [1 .. Len(midi) -> S]
    BY <1>4, <2>1
  <2> QED
    BY <2>1, <2>2, ST!SeqDef
<1>6. midi' \in Seq(S)
  BY <1>2, <1>3, <1>4, <1>5
<1> QED
  BY <1>6 DEF S

(* The input thread, the file and a signal. *)
LEMMA InputKeepsHost ==
  ASSUME HostInv, \/ \E e \in MidiEvents : InputEvent(e) \/ FileEvent(e)
                  \/ InputDisconnects \/ StopRequested
  PROVE  HostInv'
<1>1. /\ HostTypeOK /\ worker \in {"wait", "write", "ended"} /\ stopping \in BOOLEAN
      /\ fatal \in BOOLEAN /\ midi \in Seq(MidiEvents)
  BY DEF HostInv, HostTypeOK
<1>2. ASSUME midi' \in Seq(MidiEvents), UNCHANGED <<control, intent, queueVars, workerVars>>,
             UNCHANGED <<main, fatal, stopping>>
      PROVE  HostInv'
  <2>1. /\ worker' = worker /\ transaction' = transaction /\ abandoned' = abandoned
        /\ fpga' = fpga /\ main' = main /\ fatal' = fatal /\ stopping' = stopping
    BY <1>2 DEF workerVars
  <2> QED
    BY <1>1, <1>2, <2>1, QuietKeepsHost DEF HostInv
<1>3. ASSUME NEW e \in MidiEvents, InputEvent(e) PROVE HostInv'
  BY <1>1, <1>2, <1>3, PushKeepsType DEF InputEvent, mainVars
<1>4. ASSUME NEW e \in MidiEvents, FileEvent(e) PROVE HostInv'
  BY <1>1, <1>2, <1>4, PushKeepsType DEF FileEvent, mainVars
<1>5. CASE InputDisconnects
  BY <1>1, <1>2, <1>5 DEF InputDisconnects, mainVars
<1>6. CASE StopRequested
  BY <1>1, <1>2, <1>6 DEF StopRequested, inputVars
<1> QED
  BY <1>3, <1>4, <1>5, <1>6

(* The main thread takes an event. *)
LEMMA PopKeepsHost ==
  ASSUME HostInv, PopEvent
  PROVE  HostInv'
<1> DEFINE e == Head(midi)
<1>1. midi \in Seq(MidiEvents) /\ midi # << >>
  BY DEF HostInv, HostTypeOK, PopEvent
<1>2. e \in MidiEvents /\ midi' \in Seq(MidiEvents)
  BY <1>1 DEF PopEvent
<1>3. UNCHANGED <<workerVars, stopping>> /\ main = "pop"
  BY DEF PopEvent
<1> HIDE DEF e
<1>4. e.type = "control" => e.kind \in UpdateKinds /\ e.val \in Values
  BY <1>2 DEF MidiEvents
<1>5. HandleEvent(e)
  BY DEF PopEvent, e
<1>6. ASSUME NEW v \in HostVoiceIds, HandleNoteOn(v) PROVE HostInv'
  BY <1>2, <1>3, <1>6, NoteOnKeepsHost
<1>7. CASE HandleNoteOff
  BY <1>2, <1>3, <1>7, NoteOffKeepsHost
<1>8. CASE e.type = "control" /\ HandleControl(e.kind, e.val)
  <2> DEFINE k == e.kind
             x == e.val
  <2>1. k \in UpdateKinds /\ x \in Values /\ HandleControl(k, x)
    BY <1>4, <1>8
  <2> HIDE DEF k, x
  <2> QED
    BY <1>2, <1>3, <2>1, ControlKeepsHost
<1>9. CASE Handled(StopCommands, Stopped, control)
  <2>1. control \in [UpdateKinds -> Values]
    BY DEF HostInv, HostTypeOK
  <2> QED
    BY <1>2, <1>3, <1>9, <2>1, StopsTell, HandledKeeps
<1> QED
  BY <1>5, <1>6, <1>7, <1>8, <1>9 DEF HandleEvent

(* The main thread stops every voice. *)
LEMMA SilenceKeepsHost ==
  ASSUME HostInv, SilenceAll
  PROVE  HostInv'
<1>1. /\ main = "silence" /\ EnqueueBatch(StopCommands) /\ intent' = Stopped
      /\ fatal' = (fatal \/ Enqueued(StopCommands).threw) /\ main' = "drain"
      /\ midi' = midi /\ control' = control /\ UNCHANGED <<workerVars, stopping>>
  BY DEF SilenceAll, inputVars
<1>2. control' \in [UpdateKinds -> Values] /\ midi' \in Seq(MidiEvents)
  BY <1>1 DEF HostInv, HostTypeOK
<1>3. /\ HostTypeOK' /\ (worker # "write" => transaction = << >>)'
      /\ ~stopping' /\ ~abandoned'
      /\ ~fatal' => DeliveryOK(fpga, transaction, lifecycle, replaceable, intent)'
  BY <1>1, <1>2, StopsTell, BatchKeeps
<1>4. \A v \in HostVoiceIds : ~Playing(v)'
  BY <1>1, StopsTell DEF Playing
<1> QED
  BY <1>1, <1>3, <1>4 DEF HostInv

(* The other steps of the main thread. *)
LEMMA MainKeepsHost ==
  ASSUME HostInv, MainStep
  PROVE  HostInv'
<1>1. /\ HostTypeOK /\ worker \in {"wait", "write", "ended"} /\ stopping \in BOOLEAN
      /\ fatal \in BOOLEAN /\ midi \in Seq(MidiEvents)
  BY DEF HostInv, HostTypeOK
<1>2. ASSUME UNCHANGED <<inputVars, control, intent, queueVars, workerVars>>
      PROVE  /\ midi' \in Seq(MidiEvents) /\ UNCHANGED <<control, intent, queueVars>>
             /\ UNCHANGED <<transaction, abandoned, fpga>> /\ worker' = worker
  BY <1>1, <1>2 DEF inputVars, workerVars
<1>3. CASE LoopHead
  <2>1. /\ UNCHANGED <<inputVars, control, intent, queueVars, workerVars>> /\ stopping' = stopping
        /\ main' \in {"silence", "pop"} /\ main = "loop"
        /\ fatal' = (fatal \/ (~stop /\ (midiOverflow \/ consecutive >= ErrorLimit)))
    BY <1>3 DEF LoopHead
  <2>2. fatal' \in BOOLEAN /\ (fatal => fatal')
    BY <1>1, <2>1
  <2>3. ~stopping /\ ~abandoned
    BY <2>1 DEF HostInv
  <2> QED
    BY <1>1, <1>2, <2>1, <2>2, <2>3, QuietKeepsHost
<1>4. CASE LoopEnd
  <2>1. /\ UNCHANGED <<inputVars, control, intent, queueVars, workerVars>> /\ stopping' = stopping
        /\ main' \in {"silence", "loop"} /\ main = "pop" /\ fatal' = fatal
    BY <1>4 DEF LoopEnd
  <2>2. ~stopping /\ ~abandoned
    BY <2>1 DEF HostInv
  <2> QED
    BY <1>1, <1>2, <2>1, <2>2, QuietKeepsHost
<1>5. CASE WaitIdle
  <2>1. /\ UNCHANGED <<inputVars, control, intent, queueVars, workerVars>> /\ stopping' = stopping
        /\ main' = "shutdown" /\ main = "drain" /\ fatal' = (fatal \/ ~Idle)
    BY <1>5 DEF WaitIdle
  <2>2. Idle \in BOOLEAN
    BY DEF Idle, Pending
  <2>3. fatal' \in BOOLEAN /\ (fatal => fatal') /\ (~fatal' => ~fatal /\ Idle)
    BY <1>1, <2>1, <2>2
  <2>4. ~stopping /\ ~abandoned
    BY <2>1 DEF HostInv
  <2>5. ~fatal' => \A v \in HostVoiceIds : ~Playing(v)
    BY <2>1, <2>3 DEF HostInv
  <2>6. ASSUME ~fatal', NEW v \in HostVoiceIds PROVE fpga[v].state \notin {"on", "released"}
    <3>1. DeliveryOK(fpga, transaction, lifecycle, replaceable, intent)
      BY <2>3, <2>4, <2>6 DEF HostInv
    <3>2. fpga[v].state = intent[v].state
      BY <2>3, <2>6, <3>1, IdleAgrees
    <3> QED
      BY <2>5, <2>6, <3>2 DEF Playing
  <2> QED
    BY <1>1, <1>2, <2>1, <2>3, <2>4, <2>5, <2>6, QuietKeepsHost
<1>6. CASE Shutdown
  <2>1. /\ UNCHANGED <<inputVars, control, intent, queueVars, workerVars>> /\ stopping' = TRUE
        /\ main' = "shutdown" /\ main = "shutdown" /\ fatal' = fatal
    BY <1>6 DEF Shutdown
  <2> QED
    BY <1>1, <1>2, <2>1, QuietKeepsHost DEF HostInv
<1>7. CASE Join
  <2>1. /\ UNCHANGED <<inputVars, control, intent, queueVars, workerVars>> /\ stopping' = stopping
        /\ main' = "exit" /\ main = "shutdown" /\ fatal' = fatal
    BY <1>7 DEF Join
  <2> QED
    BY <1>1, <1>2, <2>1, QuietKeepsHost DEF HostInv
<1> QED
  BY <1>3, <1>4, <1>5, <1>6, <1>7, PopKeepsHost, SilenceKeepsHost DEF MainStep

(* A transaction on its way, delivered, given up. *)
LEMMA WriteKeepsHost ==
  ASSUME HostInv, WriteStep
  PROVE  HostInv'
<1> DEFINE T == transaction
           L == lifecycle
           f == Delivered(fpga, T)
           ok == DeliveryOK(fpga, T, L, replaceable, intent)
<1>1. /\ worker = "write" /\ HostTypeOK /\ T \in Seq(HostCommands) /\ L \in Seq(LifecycleCommands)
      /\ fpga \in [HostVoiceIds -> HostVoice] /\ replaceable \in [HostVoiceIds -> UpdateSlots]
      /\ intent \in [HostVoiceIds -> HostVoice]
  BY DEF WriteStep, WriteSucceeds, WriteFails, HostInv, HostTypeOK
<1>2. UNCHANGED <<inputVars, control, intent, queueVars, mainVars>>
  BY DEF WriteStep, WriteSucceeds, WriteFails
<1>3. /\ f \in [HostVoiceIds -> HostVoice]
      /\ ok => \A v \in HostVoiceIds :
                 VoiceFollows(f[v], Ahead(T, Len(T), L), replaceable[v], intent[v], v)
  BY <1>1, DeliveredFollows
<1>4. /\ intent' = intent /\ control' = control /\ midi' = midi /\ lifecycle' = lifecycle
      /\ replaceable' = replaceable /\ cursor' = cursor /\ fatal' = fatal /\ stopping' = stopping
      /\ main' = main
  BY <1>2 DEF inputVars, queueVars, mainVars
<1>5. main \in {"shutdown", "exit"} => fatal
  BY <1>1 DEF HostInv, Idle
<1>6. ~fatal /\ main \in {"drain", "shutdown", "exit"} => \A v \in HostVoiceIds : ~Playing(v)'
  BY <1>4 DEF HostInv, Playing
<1>7. /\ Ahead(<< >>, 0, L) = Ahead(T, Len(T), L) /\ Ahead(T, Len(T), L) \subseteq Ahead(T, 0, L)
  <2>1. Len(T) \in Nat /\ Len(T) + 1 .. Len(T) = {} /\ Len(<< >>) = 0 /\ 0 + 1 .. 0 = {}
    BY <1>1
  <2> HIDE DEF T
  <2> QED
    BY <2>1 DEF Ahead
<1>8. ASSUME ok PROVE DeliveryOK(f, << >>, L, replaceable, intent)
  <2>1. StartsNewest(<< >>, L)
    BY <1>8 DEF DeliveryOK, StartsNewest, Newest
  <2>2. \A v \in HostVoiceIds :
          PendingFits(Ahead(T, Len(T), L), replaceable[v], intent[v], v)
    BY <1>7, <1>8 DEF DeliveryOK, PendingFits
  <2>3. \A v \in HostVoiceIds : SlotsFit(replaceable[v], intent[v], v)
    BY <1>8 DEF DeliveryOK
  <2> HIDE DEF f, ok
  <2> QED
    BY <1>3, <1>7, <1>8, <2>1, <2>2, <2>3 DEF DeliveryOK
<1>9. ASSUME ok PROVE DeliveryOK(f, T, L, replaceable, intent)
  <2>1. ASSUME NEW v \in HostVoiceIds
        PROVE  VoiceFollows(f[v], Ahead(T, 0, L), replaceable[v], intent[v], v)
    <3> DEFINE h == f[v]
               g == fpga[v]
               pending == Ahead(T, 0, L)
               rest == Ahead(T, Len(T), L)
               waiting == replaceable[v]
               w == intent[v]
    <3>1. VoiceFollows(g, pending, waiting, w, v)
      BY <1>9 DEF DeliveryOK
    <3>2. VoiceFollows(h, rest, waiting, w, v)
      BY <1>3, <1>9
    <3>3. rest \in SUBSET pending
      BY <1>7
    <3> HIDE DEF h, g, pending, rest, waiting, w
    <3>4. VoiceFollows(h, pending, waiting, w, v)
      BY <3>1, <3>2, <3>3, VoiceFollowsAgain
    <3> QED
      BY <3>4 DEF h, pending, waiting, w
  <2> QED
    BY <1>9, <2>1 DEF DeliveryOK
<1>10. fpga' = f \/ fpga' = fpga
  BY DEF WriteStep, WriteSucceeds, WriteFails, Reaches
<1> HIDE DEF f
<1>11. fpga' \in [HostVoiceIds -> HostVoice]
  BY <1>1, <1>3, <1>10
<1>12. CASE WriteSucceeds
  <2>1. worker' = "wait" /\ transaction' = << >> /\ abandoned' = abandoned /\ fpga' = f
    BY <1>12 DEF WriteSucceeds, Finish, Reaches, f
  <2>2. HostTypeOK'
    <3>1. << >> \in Seq(HostCommands)
      OBVIOUS
    <3> QED
      BY <1>1, <1>4, <1>11, <2>1, <3>1 DEF HostTypeOK
  <2>3. ~fatal' /\ ~abandoned' => DeliveryOK(fpga, transaction, lifecycle, replaceable, intent)'
    BY <1>4, <1>8, <2>1 DEF HostInv
  <2> QED
    BY <1>4, <1>5, <1>6, <2>1, <2>2, <2>3 DEF HostInv
<1>13. CASE WriteFails /\ ~stopping
  <2>1. worker' = worker /\ transaction' = transaction /\ abandoned' = abandoned
    BY <1>13 DEF WriteFails, Abandons
  <2>2. HostTypeOK'
    BY <1>1, <1>4, <1>11, <2>1 DEF HostTypeOK
  <2>3. ~fatal' /\ ~abandoned' => DeliveryOK(fpga, transaction, lifecycle, replaceable, intent)'
    <3>1. ~fatal' /\ ~abandoned' => ok
      BY <1>4, <2>1 DEF HostInv
    <3> QED
      BY <1>4, <1>9, <1>10, <2>1, <3>1
  <2> QED
    BY <1>1, <1>4, <1>5, <1>6, <2>1, <2>2, <2>3 DEF HostInv
<1>14. CASE WriteFails /\ stopping
  <2>1. worker' = "wait" /\ transaction' = << >> /\ abandoned' = TRUE
    BY <1>14 DEF WriteFails, Abandons, Finish
  <2>2. HostTypeOK'
    <3>1. << >> \in Seq(HostCommands)
      OBVIOUS
    <3> QED
      BY <1>1, <1>4, <1>11, <2>1, <3>1 DEF HostTypeOK
  <2> QED
    BY <1>4, <1>5, <1>6, <1>14, <2>1, <2>2 DEF HostInv
<1> QED
  BY <1>12, <1>13, <1>14 DEF WriteStep

(* The scheduler's thread. *)
LEMMA WorkerKeepsHost ==
  ASSUME HostInv, WorkerStep
  PROVE  HostInv'
<1>1. /\ HostTypeOK /\ worker \in {"wait", "write", "ended"} /\ stopping \in BOOLEAN
      /\ fatal \in BOOLEAN /\ midi \in Seq(MidiEvents)
  BY DEF HostInv, HostTypeOK
<1>2. CASE Gather
  <2>1. /\ worker = "wait" /\ Pending /\ worker' = "write" /\ midi' = midi /\ control' = control
        /\ intent' = intent /\ abandoned' = abandoned /\ fpga' = fpga /\ main' = main
        /\ fatal' = fatal /\ stopping' = stopping
    BY <1>2 DEF Gather, inputVars, mainVars
  <2>2. transaction = << >>
    BY <2>1 DEF HostInv
  <2>3. /\ transaction' \in Seq(HostCommands) /\ lifecycle' \in Seq(LifecycleCommands)
        /\ replaceable' \in [HostVoiceIds -> UpdateSlots] /\ cursor' \in Nat
        /\ DeliveryOK(fpga, transaction, lifecycle, replaceable, intent) =>
             DeliveryOK(fpga, transaction', lifecycle', replaceable', intent)
    BY <1>1, <1>2, <2>2, GatherTakes
  <2>4. HostTypeOK'
    BY <1>1, <2>1, <2>3 DEF HostTypeOK
  <2>5. main \in {"shutdown", "exit"} => fatal
    BY <2>1 DEF HostInv, Idle
  <2>6. ~fatal /\ main \in {"drain", "shutdown", "exit"} => \A v \in HostVoiceIds : ~Playing(v)'
    BY <2>1 DEF HostInv, Playing
  <2>7. ~fatal' /\ ~abandoned' => DeliveryOK(fpga, transaction, lifecycle, replaceable, intent)'
    BY <2>1, <2>3 DEF HostInv
  <2> QED
    BY <2>1, <2>4, <2>5, <2>6, <2>7 DEF HostInv
<1>3. CASE WorkerEnds
  <2>1. /\ worker = "wait" /\ worker' = "ended" /\ midi' = midi
        /\ UNCHANGED <<control, intent, queueVars>> /\ UNCHANGED <<transaction, abandoned, fpga>>
        /\ main' = main /\ fatal' = fatal /\ stopping' = stopping
    BY <1>3 DEF WorkerEnds, inputVars, mainVars
  <2> QED
    BY <1>1, <2>1, QuietKeepsHost DEF HostInv
<1> QED
  BY <1>2, <1>3, WriteKeepsHost DEF WorkerStep

(* Every step. *)
LEMMA HostInvStep == HostInv /\ [HostNext]_hostVars => HostInv'
<1> SUFFICES ASSUME HostInv, [HostNext]_hostVars PROVE HostInv'
  OBVIOUS
<1>1. CASE UNCHANGED hostVars
  <2>1. /\ midi' = midi /\ UNCHANGED <<control, intent, queueVars>>
        /\ UNCHANGED <<transaction, abandoned, fpga>> /\ worker' = worker
        /\ main' = main /\ fatal' = fatal /\ stopping' = stopping
    BY <1>1 DEF hostVars, inputVars, workerVars, mainVars
  <2>2. /\ worker \in {"wait", "write", "ended"} /\ stopping \in BOOLEAN /\ fatal \in BOOLEAN
        /\ midi \in Seq(MidiEvents)
    BY DEF HostInv, HostTypeOK
  <2> QED
    BY <2>1, <2>2, QuietKeepsHost DEF HostInv
<1>2. CASE HostNext
  BY <1>2, InputKeepsHost, MainKeepsHost, WorkerKeepsHost DEF HostNext
<1> QED
  BY <1>1, <1>2

(* The program starts with everything empty. *)
LEMMA HostInitInv == HostInit => HostInv
<1> SUFFICES ASSUME HostInit PROVE HostInv
  OBVIOUS
<1>1. IdleVoice \in HostVoice /\ IdleVoice.gen = 0 /\ IdleVoice.state = "off"
      /\ IdleVoice.value = [k \in UpdateKinds |-> 0]
  BY DEF IdleVoice, HostVoice, Values
<1>2. /\ << >> \in Seq(HostCommands) /\ << >> \in Seq(LifecycleCommands)
      /\ << >> \in Seq(MidiEvents)
  OBVIOUS
<1>3. [k \in UpdateKinds |-> NoCommand] \in UpdateSlots
  BY DEF UpdateSlots
<1>4. HostTypeOK
  <2>1. [k \in UpdateKinds |-> 0] \in [UpdateKinds -> Values]
    BY DEF Values
  <2> QED
    BY <1>1, <1>2, <1>3, <2>1 DEF HostInit, HostTypeOK
<1>5. Ahead(transaction, 0, lifecycle) = {}
  BY DEF HostInit, Ahead
<1>6. StartsNewest(transaction, lifecycle)
  BY DEF HostInit, StartsNewest
<1>7. \A v \in HostVoiceIds : intent[v] = IdleVoice /\ fpga[v] = IdleVoice
                              /\ \A k \in UpdateKinds : replaceable[v][k].op = "NONE"
  BY DEF HostInit, NoCommand
<1>8. \A v \in HostVoiceIds : ~StartAhead({}, v)
  BY DEF StartAhead
<1>9. ASSUME NEW v \in HostVoiceIds
      PROVE  /\ PendingFits({}, replaceable[v], intent[v], v)
             /\ SlotsFit(replaceable[v], intent[v], v)
             /\ VoiceFollows(fpga[v], {}, replaceable[v], intent[v], v)
  BY <1>1, <1>7, <1>8 DEF PendingFits, SlotsFit, VoiceFollows
<1>10. DeliveryOK(fpga, transaction, lifecycle, replaceable, intent)
  BY <1>5, <1>6, <1>9 DEF DeliveryOK
<1> QED
  BY <1>4, <1>10 DEF HostInit, HostInv

(* The FPGA comes to hold what main wants: whenever the scheduler of the   *)
(* host has nothing left and gave nothing up, coalescing, transactions cut *)
(* at the word limit, retries and repeated deliveries have lost and        *)
(* reordered nothing that matters, for any number of voices, update kinds  *)
(* and queue sizes.                                                        *)
THEOREM HostAndFpgaAgree == HostSpec => []HostAgrees
<1>1. HostInv => HostAgrees
  BY IdleAgrees DEF HostAgrees, HostInv
<1> QED
  BY <1>1, HostInitInv, HostInvStep, PTL DEF HostSpec

(* A program that exits and reports success has silenced every voice. *)
THEOREM ExitsSilent == HostSpec => []SilentAtExit
<1>1. HostInv => SilentAtExit
  BY DEF SilentAtExit, HostInv
<1> QED
  BY <1>1, HostInitInv, HostInvStep, PTL DEF HostSpec
=============================================================================
