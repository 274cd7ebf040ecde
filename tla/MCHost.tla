------------------------------- MODULE MCHost -------------------------------
(***************************************************************************)
(* Instances of the host's way from MIDI to commands: the stream decoder   *)
(* and the file parser, the controller policies, the two voice policies    *)
(* (McuModel and the compiled runtime) and the player with its scheduler.  *)
(* They share no state the models keep, so a behaviour runs one of them,   *)
(* its side, and leaves the others in their initial state.                 *)
(***************************************************************************)
EXTENDS HostPlayer, McuModel, CompiledRuntime, ChannelPolicy, MidiStream, MidiFile, TLC

VARIABLE side

sideVars == <<hostVars, modelVars, compiledVars, policyChannelVars, streamVars, fileVars, side>>

MCKindList == <<"pitch">>

(* A note of two layers, one of a class, and one whose next stroke chokes   *)
(* the last; the class is another preset's for each                        *)
MCKeyList == <<"pair", "hat">>
MCLayers == "pair" :> <<0, 1>> @@ "hat" :> <<1>>
MCPresetOf == "pair" :> 0 @@ "hat" :> 1

(* Volume and bend as the default modulators have them, with bend to filter *)
MCFeeds == [s \in Sources |-> IF s = "volume" THEN {"gain"}
                              ELSE IF s = "bend" THEN {"pitch", "filter"} ELSE {"filter"}]

(* A zone in class 1, and a note with a zone in class 2 and one in none *)
MCZoneClasses == "hat" :> <<1>> @@ "drum" :> <<2, 0>>

(* The default program has two layers for the note, program 2 has none. *)
MCLayerCount == 0 :> 2 @@ 2 :> 0

OnHost(A) ==
  /\ side = "host" /\ A
  /\ UNCHANGED <<modelVars, compiledVars, policyChannelVars, streamVars, fileVars, side>>
OnModel(A) ==
  /\ side = "model" /\ A
  /\ UNCHANGED <<hostVars, compiledVars, policyChannelVars, streamVars, fileVars, side>>
OnCompiled(A) ==
  /\ side = "compiled" /\ A
  /\ UNCHANGED <<hostVars, modelVars, policyChannelVars, streamVars, fileVars, side>>
OnPolicy(A) ==
  /\ side = "policy" /\ A
  /\ UNCHANGED <<hostVars, modelVars, compiledVars, streamVars, fileVars, side>>
OnStream(A) ==
  /\ side = "stream" /\ A
  /\ UNCHANGED <<hostVars, modelVars, compiledVars, policyChannelVars, fileVars, side>>
OnFile(A) ==
  /\ side = "file" /\ A
  /\ UNCHANGED <<hostVars, modelVars, compiledVars, policyChannelVars, streamVars, side>>

MCInit ==
  /\ HostInit /\ ModelInit /\ CompiledInit /\ PolicyInit /\ StreamInit /\ FileInit
  /\ side \in {"host", "model", "compiled", "policy", "stream", "file"}
  /\ side # "host" => source = "raw"
  /\ side # "model" => mode = "host"
  /\ side # "policy" => percussion = FALSE

MCNext ==
  \/ OnHost(HostNext)
  \/ OnModel(ModelNext)
  \/ OnCompiled(CompiledNext)
  \/ OnPolicy(PolicyNext)
  \/ OnStream(StreamNext)
  \/ OnFile(FileNext)

(* The fairness of HostSpec on its side *)
MCSpec ==
  /\ MCInit /\ [][MCNext]_sideVars
  /\ WF_sideVars(OnHost(MainStep)) /\ WF_sideVars(OnHost(WorkerStep))
=============================================================================
