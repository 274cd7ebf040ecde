----------------------------- MODULE MCRendering -----------------------------
(***************************************************************************)
(* Instances of the parts that carry commands and make and check sound     *)
(* outside of the render core: the SPI command ingress and the block       *)
(* pipeline of the FPGA, and the reference renderer, the modulation clock  *)
(* and the asset compiler of the host.  The parts share no state, so a     *)
(* behaviour runs one of them, its side, and leaves the others in their    *)
(* initial state.                                                          *)
(***************************************************************************)
EXTENDS BlockPipeline, SpiBridge, ReferenceVoice, ModulationClock, AssetCompiler

VARIABLE side

sideVars == <<pipeVars, bridgeVars, referenceVars, modulationVars, assetVars, side>>

(* One- and two-word commands, two commands in one transaction, a command  *)
(* cut off before its payload, and one above the payload limit.            *)
MCShapes == {<<0>>, <<1, 0>>, <<0, 1, 0>>, <<0, 1>>, <<2, 0, 0>>}

(* One-shot, looping, until-release and empty-loop samples *)
MCRegions == {[mode |-> 0, length |-> 3, start |-> 0, end |-> 3, inc |-> 1],
              [mode |-> 1, length |-> 3, start |-> 1, end |-> 3, inc |-> 3],
              [mode |-> 2, length |-> 3, start |-> 0, end |-> 2, inc |-> 1],
              [mode |-> 1, length |-> 3, start |-> 2, end |-> 2, inc |-> 1]}
MCEnvelopes == [delay : {0, 2}, attack : {0, 1}, hold : {0, 2}, decay : {0, 1}, sustain : {2}, release : {1}]

(* Stages of no and of several ticks, and notes whose groups never move *)
MCNotes ==
  [delay : {0, 2}, attack : {0, 2}, hold : {0, 2}, decay : {0, 2}, release : {2}, sustain : {5},
   subTick : BOOLEAN, lfoDelay : {1}, lfoStep : {3}, periodic : {{}, {"pitch", "filter"}}]

(* Bags with and without global zones, in and out of order, with ranges    *)
(* that overlap and that do not, amounts that saturate, and modulators     *)
(* that replace, add to and cancel one another.                            *)
G(o, a) == [oper |-> o, amount |-> a]
B(gens, mods) == [gens |-> gens, mods |-> mods]
Mod(s, d, a) == [src |-> s, dest |-> d, amount |-> a]
MCPresetChoices ==
  LET global == B(<<G(VelRange, <<1, 1>>), G(Pan, 2), G(FilterFc, 1)>>, <<Mod(129, 6, 1)>>)
      high == B(<<G(KeyRange, <<1, 2>>), G(Pan, 1), G(InstrumentRef, 0)>>, << >>)
      second == B(<<G(FilterFc, -1), G(ExclusiveClass, 1), G(InstrumentRef, 1), G(Pan, 3)>>,
                  <<Mod(2, 48, 2), Mod(129, 6, -1)>>)
      misplaced == B(<<G(Pan, 1), G(KeyRange, <<0, 0>>), G(InstrumentRef, 0)>>, <<Mod(134, 0, 1)>>)
  IN {<<high>>, <<global, high>>, <<second, high>>, <<global, second, misplaced>>, <<high, global, second>>}
MCInstrumentChoices ==
  LET global == B(<<G(KeyRange, <<0, 1>>), G(Pan, 3), G(LoopEndOffset, -1)>>, <<Mod(129, 6, 2), Mod(2, 8, 0)>>)
      plain == B(<<G(SampleId, 1)>>, << >>)
      wide == B(<<G(KeyRange, <<0, 2>>), G(VelRange, <<0, 0>>), G(StartOffset, 1), G(Coarse[EndOffset], -1), G(SampleId, 2)>>, <<Mod(13, 7, 1)>>)
      own == B(<<G(ExclusiveClass, 1), G(LoopStartOffset, 2), G(EndOffset, -1), G(SampleId, 1)>>, <<Mod(3, 0, 1), Mod(0, 8, 1)>>)
      empty == B(<<G(KeyRange, <<2, 1>>), G(SampleId, 0)>>, << >>)
      unknown == B(<<G(61, 1), G(SampleId, 0)>>, << >>)
  IN {<<unknown>>, <<plain>>, <<global, wide, plain>>, <<wide, own>>, <<own, empty, wide>>, <<wide, global, plain>>}
MCSampleChoices ==
  LET S(a, b, c, d, l, t) == [start |-> a, end |-> b, loopStart |-> c, loopEnd |-> d, link |-> l, type |-> t]
  IN {<<S(0, 2, 0, 2, 0, "mono"), S(2, 5, 3, 5, 2, "stereo"), S(5, 7, 5, 6, 1, "stereo")>>,
      <<S(0, 1, 0, 1, 0, "mono"), S(1, 1, 1, 1, 0, "rom"), S(3, 6, 2, 9, 0, "mono")>>,
      <<S(0, 1, 0, 1, 0, "mono"), S(1, 4, 1, 3, 0, "mono"), S(3, 6, 3, 5, 1, "linked")>>}

OnBlock(A) ==
  /\ side = "block" /\ A
  /\ UNCHANGED <<bridgeVars, referenceVars, modulationVars, assetVars, side>>
OnBridge(A) ==
  /\ side = "bridge" /\ A
  /\ UNCHANGED <<pipeVars, referenceVars, modulationVars, assetVars, side>>
OnReference(A) ==
  /\ side = "reference" /\ A
  /\ UNCHANGED <<pipeVars, bridgeVars, modulationVars, assetVars, side>>
OnModulation(A) ==
  /\ side = "modulation" /\ A
  /\ UNCHANGED <<pipeVars, bridgeVars, referenceVars, assetVars, side>>
OnAsset(A) ==
  /\ side = "asset" /\ A
  /\ UNCHANGED <<pipeVars, bridgeVars, referenceVars, modulationVars, side>>

MCInit ==
  /\ Init /\ BridgeInit /\ ReferenceInit /\ ModulationInit /\ AssetInit
  /\ side \in {"block", "bridge", "reference", "modulation", "asset"}
  /\ side # "modulation" => config = (CHOOSE c \in Notes : TRUE) /\ enabled = TRUE

MCNext ==
  \/ OnBlock(Next)
  \/ OnBridge(BridgeNext)
  \/ OnReference(ReferenceNext)
  \/ OnModulation(ModulationNext)
  \/ OnAsset(AssetNext)

(* The fairness of FairSpec and of FairBridgeSpec, each on its own side. *)
MCFairness ==
  /\ WF_sideVars(OnBlock(\E room, drained, sample_ready \in BOOLEAN :
                           room /\ Cycle(room, FALSE, drained, sample_ready)))
  /\ WF_sideVars(OnBlock(\E room, waiting, drained \in BOOLEAN :
                           Cycle(room, waiting, drained, TRUE)))
  /\ WF_sideVars(OnBlock(\E room, waiting, sample_ready \in BOOLEAN :
                           Cycle(room, waiting, TRUE, sample_ready)))
  /\ WF_sideVars(OnBridge(NoSpiEvent(TRUE)))

MCSpec == MCInit /\ [][MCNext]_sideVars /\ MCFairness

(* On the block side, TimelineAdvances: every block is asked for, rendered *)
(* and played to its last frame once the core is not reset any more;       *)
(* renderer, banks and output never wait on each other in a circle         *)
(* (voice_major_output_scheduler, block_mix_buffer).                       *)
BlockTimelineAdvances == side = "block" => TimelineAdvances
=============================================================================
