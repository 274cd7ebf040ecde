------------------------- MODULE RenderCore_proofs -------------------------
(***************************************************************************)
(* The render core, edge by edge, for every number of voices, block        *)
(* length, engine depth and FIFO depth, and for every stream of commands,  *)
(* flushes and resets: a block renders one settled state of the voices,    *)
(* every generation is accounted for, and the core drives the mix buffer   *)
(* the way BlockPipeline's renderer does.                                  *)
(***************************************************************************)
EXTENDS RenderCore, CommonLemmas, FiniteSetTheorems

(* What is proved of the abstract pipeline, at the core's renderer. *)
PP == INSTANCE BlockPipeline_proofs WITH render_state <- RenderState

-----------------------------------------------------------------------------
(* The inductive invariant. *)

Operations == {"NONE", "START", "STOP", "RELEASE", "RELEASE_NOW", "UPDATE", "AUDIO", "INVALID"}
Command == [op : Operations, voice : Voices, generation : Nat]
VoiceState == [voice : 0 .. NumVoices, active : BOOLEAN, generation : Nat]
Entry == [voice : Voices, generation : Nat, todo : SUBSET Frames]

(* States of the controller between the first snapshot and the finish. *)
Scanning == {"REQUEST_STATE", "WAIT_STATE", "DISPATCH_STATE", "DRAIN"}

CommandTypeOK ==
  /\ fifo \in Seq(Command)
  /\ parser_state_q \in {"READ_HEADER", "READ_PAYLOAD", "DISPATCH_ACTION", "DISPATCH_INSTALL",
                         "WAIT_CONTROL_EVENT"}
  /\ command_q \in Command
  /\ sent \in [Voices -> Nat]

StoreTypeOK ==
  /\ voice_valid_q \subseteq Voices
  /\ dynamic_mem \in [Voices -> [active : BOOLEAN, generation : Nat]]
  /\ read_data_q \in VoiceState /\ read_rsp_q \in VoiceState
  /\ control_state_q \in {"IDLE", "READ", "CAPTURE", "APPLY"}
  /\ control_event_q \in Command /\ control_q \in VoiceState
  /\ control_event_done_pulse \in BOOLEAN
  /\ check_state_q \in {"IDLE", "CAPTURE", "APPLY"}
  /\ check_q \in VoiceState /\ check_current_q \in VoiceState
  /\ snapshot_capture_q \in 0 .. NumVoices

RenderTypeOK ==
  /\ state_q \in {"IDLE", "WAIT_FILL", "FINISH"} \cup Scanning
  /\ scan_voice_q \in Voices
  /\ pending_state_q \in VoiceState /\ result_q \in VoiceState
  /\ outstanding_voices_q \in Int
  /\ engine \subseteq Entry
  /\ due \in [Pipe!Banks -> [Frames -> SUBSET Voices]]

(* The store's clients take turns.  A control event that a flush has       *)
(* orphaned may still be applied while the next block waits for its bank,  *)
(* but only on the edge after the admission, when the bank is not clear.   *)
PhaseInv ==
  /\ engine # {} \/ result_q # NoResult \/ check_state_q = "CAPTURE" => state_q \in Scanning
  /\ check_state_q = "APPLY" => state_q \in Scanning \cup {"FINISH"}
  /\ control_state_q \in {"READ", "CAPTURE"} => state_q = "IDLE"
  /\ control_state_q = "APPLY" =>
       state_q = "IDLE" \/ (state_q = "WAIT_FILL" /\ bank_state[fill_bank] = "CLEARING")
  /\ control_state_q = "READ" => parser_state_q = "WAIT_CONTROL_EVENT"
  /\ parser_state_q = "WAIT_CONTROL_EVENT" => state_q = "IDLE"
  /\ control_event_done_pulse => control_state_q = "IDLE"
  /\ WaitsForOwnEvent

(* The snapshot passes from the read register to the response and on to    *)
(* the controller, one of them at a time.                                  *)
SnapshotInv ==
  /\ state_q # "WAIT_STATE" => snapshot_capture_q = NoVoice /\ read_rsp_q = NoSnapshot
  /\ snapshot_capture_q # NoVoice =>
       /\ snapshot_capture_q = scan_voice_q /\ read_data_q = StoreRead(scan_voice_q)
       /\ read_rsp_q = NoSnapshot
  /\ read_rsp_q # NoSnapshot => read_rsp_q.voice = scan_voice_q
  /\ state_q # "DISPATCH_STATE" => pending_state_q = NoState
  /\ pending_state_q # NoState => pending_state_q.voice = scan_voice_q

(* The controller has dispatched v in this block. *)
Passed(v) == v < scan_voice_q \/ (v = scan_voice_q /\ state_q \in {"DRAIN", "FINISH"})

(* s names the generation that is sounding. *)
Current(s) ==
  /\ s.voice \in voice_valid_q
  /\ dynamic_mem[s.voice].active
  /\ dynamic_mem[s.voice].generation = s.generation

Rendered == {e.voice : e \in engine}

(* Between its snapshot and its write-back a voice is in one place, and    *)
(* what is known of it there is still so in the store.                     *)
FlightInv ==
  /\ read_rsp_q.active => Current(read_rsp_q)
  /\ pending_state_q.active => Current(pending_state_q)
  /\ \A e \in engine : Current(e) /\ Passed(e.voice)
  /\ \A d, e \in engine : d.voice = e.voice => d = e
  /\ result_q # NoResult =>
       Current(result_q) /\ Passed(result_q.voice) /\ result_q.voice \notin Rendered
  /\ check_state_q # "IDLE" =>
       /\ Current(check_q) /\ Passed(check_q.voice) /\ check_q.voice \notin Rendered
       /\ check_q.voice # result_q.voice
  /\ check_state_q = "CAPTURE" => read_data_q = StoreRead(check_q.voice)
  /\ check_state_q = "APPLY" => check_current_q = StoreRead(check_q.voice)
  /\ control_state_q = "CAPTURE" => read_data_q = StoreRead(control_event_q.voice)
  /\ control_state_q = "APPLY" => control_q = StoreRead(control_event_q.voice)

(* The counter of outstanding voices counts them. *)
OutstandingInv ==
  outstanding_voices_q = Cardinality(Rendered) + (IF result_q = NoResult THEN 0 ELSE 1)

(* The voices that frame f of bank b has summed, and those still to come. *)
Summed(b, f) == {s[1] : s \in mixed[b][f]}
ToCome(f) == {e.voice : e \in {x \in engine : f \in x.todo}}

(* What is due in the bank being filled is in the mix or still to come,    *)
(* and what is still to come is not in the mix.                            *)
MixInv ==
  /\ state_q = "WAIT_FILL" /\ Pipe!FillReady => \A f \in Frames : mixed[fill_bank][f] = {}
  /\ state_q \in Scanning \cup {"FINISH"} =>
       \A f \in Frames : due[fill_bank][f] = Summed(fill_bank, f) \cup ToCome(f)
  /\ state_q \in Scanning => \A f \in Frames :
       /\ Summed(fill_bank, f) \cap ToCome(f) = {}
       /\ \A v \in Summed(fill_bank, f) : Passed(v)
  /\ BlockIsComplete

ScanInv ==
  /\ PP!PipeInv
  /\ CommandTypeOK /\ StoreTypeOK /\ RenderTypeOK
  /\ PhaseInv /\ SnapshotInv /\ FlightInv /\ OutstandingInv /\ MixInv

-----------------------------------------------------------------------------
(* STARTs the core still has to install: the parser's command, then the    *)
(* FIFO's.                                                                 *)
ToInstall == {c \in {command_q} \cup {fifo[i] : i \in 1 .. Len(fifo)} : c.op = "START"}

HistoryTypeOK ==
  /\ sent \in [Voices -> Generations]
  /\ installed \subseteq Voices \X Generations
  /\ superseded \subseteq Voices \X Generations
  /\ completed \subseteq Voices \X Generations
  /\ completion_event \in {NoCompletion} \cup [voice : Voices, generation : Generations]

(* Generations come in order: what is still to be installed is newer than  *)
(* what has been.                                                          *)
FreshInv ==
  /\ \A p \in installed : p[2] <= sent[p[1]]
  /\ \A c \in ToInstall : c.generation \in 1 .. sent[c.voice]
  /\ \A c \in ToInstall : \A p \in installed : p[1] = c.voice => p[2] < c.generation
  /\ command_q.op = "START" => \A i \in 1 .. Len(fifo) :
       fifo[i].op = "START" /\ fifo[i].voice = command_q.voice =>
         command_q.generation < fifo[i].generation
  /\ \A i, j \in 1 .. Len(fifo) :
       i < j /\ fifo[i].op = "START" /\ fifo[j].op = "START" /\ fifo[i].voice = fifo[j].voice =>
         fifo[i].generation < fifo[j].generation
  /\ parser_state_q = "DISPATCH_INSTALL" => command_q.op = "START"

(* The control path works on the events of a voice only. *)
EventInv == control_state_q # "IDLE" => control_event_q.op \in VoiceEvents

GenerationInv == HistoryTypeOK /\ EventInv /\ FreshInv /\ GenerationsAccounted

-----------------------------------------------------------------------------
(* The constants as numbers. *)
LEMMA CoreNumbers ==
  /\ NumVoices \in Nat /\ NumVoices > 0 /\ FrameCount \in Nat /\ FrameCount > 0
  /\ MaxGeneration \in Nat /\ MaxBlocks \in Nat
  /\ 0 \in Voices /\ NoVoice \notin Voices /\ NoVoice \in 0 .. NumVoices
  /\ Voices \subseteq 0 .. NumVoices /\ Voices \subseteq Nat
  /\ PP!PipelineAssumption
<1>1. /\ NumVoices \in Nat /\ NumVoices > 0 /\ FrameCount \in Nat /\ FrameCount > 0
      /\ MaxGeneration \in Nat /\ MaxBlocks \in Nat
  BY CoreAssumption
<1>2. PP!PipelineAssumption
  BY CoreAssumption DEF PP!PipelineAssumption
<1> QED
  BY <1>1, <1>2 DEF Voices, NoVoice

(* The empty values are values. *)
LEMMA EmptyValues ==
  /\ NoState \in VoiceState /\ NoSnapshot = NoState /\ NoResult = NoState
  /\ NoState.voice = NoVoice /\ NoState.active = FALSE /\ NoState.generation = 0
  /\ NoCommand \in Command /\ NoCommand.op = "NONE"
  /\ << >> \in Seq(Command)
<1>1. NoState \in VoiceState
  BY CoreNumbers DEF NoState, VoiceState
<1>2. NoCommand \in Command
  BY CoreNumbers DEF NoCommand, Command, Operations
<1> QED
  BY <1>1, <1>2 DEF NoSnapshot, NoResult, NoState, NoCommand

(* One clock edge with its inputs. *)
EdgeOf(flush, push, pop, more, room, sample_ready, mixing, ending) ==
  /\ flush \in BOOLEAN /\ push \in {NoCommand} \cup Sendable
  /\ pop \in When(parser_state_q = "READ_HEADER" /\ fifo # << >>)
  /\ more \in When(parser_state_q = "READ_PAYLOAD")
  /\ room \in When(state_q = "IDLE")
  /\ sample_ready \in When(output_state_q = "READ_RESPONSE")
  /\ mixing \in AtMostOne(engine) /\ ending \in AtMostOne(engine)
  /\ Cycle(flush, push, pop, more, room, sample_ready, mixing, ending)

(* Outside of a scan nothing is in flight. *)
LEMMA NothingInFlight ==
  ASSUME ScanInv
  PROVE  /\ state_q \in {"IDLE", "WAIT_FILL"} =>
              /\ engine = {} /\ result_q = NoResult /\ check_state_q = "IDLE"
         /\ state_q \notin {"IDLE", "WAIT_FILL"} => control_state_q = "IDLE"
         /\ state_q = "FINISH" => engine = {} /\ result_q = NoResult /\ check_state_q # "CAPTURE"
         /\ state_q \notin {"IDLE", "WAIT_FILL", "FINISH"} => state_q \in Scanning
BY DEF ScanInv, PhaseInv, StoreTypeOK, RenderTypeOK, Scanning

(* A block is admitted when nothing else has begun. *)
LEMMA AdmitMeans ==
  ASSUME NEW room, Admit(room)
  PROVE  state_q = "IDLE" /\ parser_state_q = "READ_HEADER" /\ fifo = << >>
BY DEF Admit, ActionPending, Pipe!RendererAdmit, RenderState

(* The store takes a START or an event when nothing else uses it. *)
LEMMA StoreIdleMeans ==
  ASSUME NEW room, StoreIdle(room)
  PROVE  state_q = "IDLE" /\ ~Admit(room) /\ control_state_q = "IDLE" /\ check_state_q = "IDLE"
BY DEF StoreIdle, RenderBusy

(* A result is written back as soon as the check path is free. *)
LEMMA DynamicMeans ==
  ASSUME ScanInv, NEW room
  PROVE  DynamicFires(room) <=> result_q # NoResult /\ check_state_q = "IDLE"
<1>1. result_q # NoResult => RenderBusy(room)
  BY NothingInFlight DEF RenderBusy
<1> QED
  BY <1>1 DEF DynamicFires

(* A write-back finds its own generation. *)
LEMMA CheckMeans ==
  ASSUME ScanInv
  PROVE  CheckApplies <=> check_state_q = "APPLY"
<1>1. ASSUME check_state_q = "APPLY" PROVE CheckApplies
  <2>1. Current(check_q) /\ check_current_q = StoreRead(check_q.voice)
    BY <1>1 DEF ScanInv, FlightInv
  <2> QED
    BY <1>1, <2>1 DEF CheckApplies, GenerationMatch, Current, StoreRead
<1> QED
  BY <1>1 DEF CheckApplies

(* The store's writes in a scan are write-backs. *)
LEMMA ScanWrites ==
  ASSUME ScanInv, NEW room, NEW flush, WritePort(InstallFires(flush, room)),
         CompletionPort(InstallFires(flush, room)), state_q \notin {"IDLE", "WAIT_FILL"}
  PROVE  /\ ~InstallFires(flush, room) /\ ~ControlApplies /\ ~ControlEnds
         /\ check_state_q # "APPLY" => dynamic_mem' = dynamic_mem /\ voice_valid_q' = voice_valid_q
         /\ check_state_q = "APPLY" =>
              /\ dynamic_mem' = [dynamic_mem EXCEPT ![check_q.voice] =
                                   [active |-> check_q.active, generation |-> check_q.generation]]
              /\ voice_valid_q' = IF check_q.active THEN voice_valid_q
                                  ELSE voice_valid_q \ {check_q.voice}
<1>1. ~InstallFires(flush, room)
  BY StoreIdleMeans DEF InstallFires
<1>2. control_state_q = "IDLE" /\ ~ControlApplies /\ ~ControlEnds
  BY NothingInFlight DEF ControlApplies, ControlEnds
<1>3. voice_valid_q' = voice_valid_q \ {v \in Voices : CheckEnds /\ v = check_q.voice}
  BY <1>1, <1>2 DEF CompletionPort
<1>4. ASSUME check_state_q # "APPLY"
      PROVE  dynamic_mem' = dynamic_mem /\ voice_valid_q' = voice_valid_q
  BY <1>1, <1>2, <1>3, <1>4 DEF WritePort, CheckEnds, CheckApplies
<1>5. ASSUME check_state_q = "APPLY"
      PROVE  /\ dynamic_mem' = [dynamic_mem EXCEPT ![check_q.voice] =
                                   [active |-> check_q.active, generation |-> check_q.generation]]
             /\ voice_valid_q' = IF check_q.active THEN voice_valid_q
                                 ELSE voice_valid_q \ {check_q.voice}
  <2>1. CheckApplies
    BY <1>5, CheckMeans
  <2>2. CheckEnds <=> ~check_q.active
    BY <2>1 DEF CheckEnds
  <2>3. check_q.voice \in Voices
    BY <1>5 DEF ScanInv, FlightInv, Current, StoreTypeOK
  <2>4. CASE check_q.active
    BY <1>1, <1>2, <1>3, <2>1, <2>2, <2>4 DEF WritePort
  <2>5. CASE ~check_q.active
    BY <1>1, <1>2, <1>3, <2>1, <2>2, <2>3, <2>5 DEF WritePort
  <2> QED
    BY <2>4, <2>5
<1> QED
  BY <1>1, <1>2, <1>4, <1>5

(* While a control event reads the store nobody writes it. *)
LEMMA ControlReads ==
  ASSUME ScanInv, NEW room, NEW flush, WritePort(InstallFires(flush, room)),
         control_state_q \in {"READ", "CAPTURE"}
  PROVE  dynamic_mem' = dynamic_mem
<1>1. ~InstallFires(flush, room)
  BY StoreIdleMeans DEF InstallFires
<1>2. ~ControlApplies /\ ~CheckApplies
  <2>1. check_state_q = "IDLE"
    BY NothingInFlight DEF ScanInv, PhaseInv
  <2> QED
    BY <2>1 DEF ControlApplies, CheckApplies
<1> QED
  BY <1>1, <1>2 DEF WritePort

-----------------------------------------------------------------------------
(* Every register keeps its type. *)

(* What the MCU sends are commands. *)
LEMMA SendableType ==
  ASSUME CommandTypeOK
  PROVE  {NoCommand} \cup Sendable \subseteq Command
<1> SUFFICES ASSUME NEW c \in Sendable PROVE c \in Command
  BY EmptyValues
<1>1. ASSUME NEW v \in Voices, c = [op |-> "START", voice |-> v, generation |-> sent[v] + 1]
      PROVE  c \in Command
  BY <1>1 DEF CommandTypeOK, Command, Operations
<1>2. ASSUME NEW o \in Events, NEW v \in Voices, c = [op |-> o, voice |-> v, generation |-> sent[v]]
      PROVE  c \in Command
  BY <1>2, CoreAssumption DEF CommandTypeOK, Command, Operations
<1>3. ASSUME NEW o \in Events, c = [op |-> o, voice |-> 0, generation |-> 0]
      PROVE  c \in Command
  BY <1>3, CoreAssumption, CoreNumbers DEF Command, Operations
<1> QED
  BY <1>1, <1>2, <1>3 DEF Sendable

(* The command plane's. *)
LEMMA CommandTypeKept ==
  ASSUME CommandTypeOK, NEW flush, NEW push, NEW pop, NEW more, NEW room, NEW sample_ready,
         NEW mixing, NEW ending,
         EdgeOf(flush, push, pop, more, room, sample_ready, mixing, ending)
  PROVE  CommandTypeOK'
<1>1. /\ FifoCycle(flush, push, pop) /\ ParserCycle(flush, room, pop, more)
      /\ HistoryCycle(push, InstallFires(flush, room))
      /\ push \in Command /\ (pop => fifo # << >>)
  BY SendableType DEF EdgeOf, Cycle, When
<1>2. fifo' \in Seq(Command)
  <2>1. (IF pop THEN Tail(fifo) ELSE fifo) \in Seq(Command)
    BY <1>1 DEF CommandTypeOK
  <2>2. (IF push = NoCommand THEN << >> ELSE <<push>>) \in Seq(Command)
    BY <1>1, EmptyValues
  <2>3. ASSUME NEW a \in Seq(Command), NEW b \in Seq(Command) PROVE a \o b \in Seq(Command)
    OBVIOUS
  <2> QED
    BY <1>1, <2>1, <2>2, <2>3, EmptyValues DEF FifoCycle
<1>3. command_q' \in Command
  BY <1>1, EmptyValues DEF ParserCycle, CommandTypeOK
<1>4. parser_state_q' \in {"READ_HEADER", "READ_PAYLOAD", "DISPATCH_ACTION", "DISPATCH_INSTALL",
                           "WAIT_CONTROL_EVENT"}
  BY <1>1 DEF ParserCycle, CommandTypeOK
<1>5. sent' \in [Voices -> Nat]
  BY <1>1 DEF HistoryCycle, CommandTypeOK, Command
<1> QED
  BY <1>2, <1>3, <1>4, <1>5 DEF CommandTypeOK

(* What the read port delivers. *)
LEMMA StoreReadType ==
  ASSUME StoreTypeOK, NEW v \in Voices
  PROVE  /\ StoreRead(v) \in VoiceState /\ StoreRead(v) # NoState
         /\ StoreRead(v).voice = v /\ StoreRead(v).active = dynamic_mem[v].active
         /\ StoreRead(v).generation = dynamic_mem[v].generation
<1>1. dynamic_mem[v] \in [active : BOOLEAN, generation : Nat]
  BY DEF StoreTypeOK
<1>2. dynamic_mem[v].active \in BOOLEAN /\ dynamic_mem[v].generation \in Nat
  BY <1>1
<1>3. v \in 0 .. NumVoices /\ v # NoVoice
  BY CoreNumbers
<1> QED
  BY <1>2, <1>3, EmptyValues DEF StoreRead, VoiceState

(* The store's. *)
LEMMA StoreTypeKept ==
  ASSUME ScanInv, NEW flush, NEW push, NEW pop, NEW more, NEW room, NEW sample_ready,
         NEW mixing, NEW ending,
         EdgeOf(flush, push, pop, more, room, sample_ready, mixing, ending)
  PROVE  StoreTypeOK'
<1> DEFINE install == InstallFires(flush, room)
<1>1. /\ ReadPort(room) /\ WritePort(install) /\ CompletionPort(install)
      /\ ControlCycle(ControlFires(flush, room)) /\ CheckCycle(DynamicFires(room)) /\ SnapshotCycle
  BY DEF EdgeOf, Cycle
<1>2. CommandTypeOK /\ StoreTypeOK /\ RenderTypeOK
  BY DEF ScanInv
<1>3. voice_valid_q' \subseteq Voices
  BY <1>1, <1>2 DEF CompletionPort, StoreTypeOK
<1>4. dynamic_mem' \in [Voices -> [active : BOOLEAN, generation : Nat]]
  <2>1. ASSUME NEW v \in Voices, NEW a \in BOOLEAN, NEW g \in Nat
        PROVE  [dynamic_mem EXCEPT ![v] = [active |-> a, generation |-> g]]
                 \in [Voices -> [active : BOOLEAN, generation : Nat]]
    BY <1>2 DEF StoreTypeOK
  <2>2. /\ command_q.voice \in Voices /\ command_q.generation \in Nat
        /\ control_event_q.voice \in Voices /\ control_q.generation \in Nat
        /\ check_q.active \in BOOLEAN /\ check_q.generation \in Nat
    BY <1>2 DEF StoreTypeOK, CommandTypeOK, Command, VoiceState
  <2>3. (control_event_q.op = "RELEASE") \in BOOLEAN /\ TRUE \in BOOLEAN
    OBVIOUS
  <2>4. CheckApplies => check_q.voice \in Voices
    BY <1>2 DEF CheckApplies, GenerationMatch, StoreTypeOK
  <2>5. CASE install
    BY <1>1, <2>1, <2>2, <2>3, <2>5 DEF WritePort
  <2>6. CASE ~install /\ ControlApplies /\ control_event_q.op # "UPDATE"
    BY <1>1, <2>1, <2>2, <2>3, <2>6 DEF WritePort
  <2>7. CASE ~install /\ ~ControlApplies /\ CheckApplies
    BY <1>1, <2>1, <2>2, <2>4, <2>7 DEF WritePort
  <2>8. CASE ~install /\ ~(ControlApplies /\ control_event_q.op # "UPDATE")
             /\ ~(~ControlApplies /\ CheckApplies)
    BY <1>1, <1>2, <2>8 DEF WritePort, StoreTypeOK
  <2> QED
    BY <2>5, <2>6, <2>7, <2>8
<1>5. read_data_q' \in VoiceState
  <2>1. result_q # NoResult => result_q.voice \in Voices
    BY <1>2 DEF ScanInv, FlightInv, Current, StoreTypeOK
  <2>2. scan_voice_q \in Voices /\ control_event_q.voice \in Voices
    BY <1>2 DEF RenderTypeOK, StoreTypeOK, Command
  <2>3. DynamicFires(room) => result_q # NoResult
    BY DEF DynamicFires
  <2> QED
    BY <1>1, <1>2, <2>1, <2>2, <2>3, StoreReadType, EmptyValues DEF ReadPort
<1>6. read_rsp_q' \in VoiceState
  <2>1. [read_data_q EXCEPT !.active = @ /\ snapshot_capture_q \in voice_valid_q] \in VoiceState
    <3>1. (read_data_q.active /\ snapshot_capture_q \in voice_valid_q) \in BOOLEAN
      OBVIOUS
    <3> QED
      BY <1>2, <3>1 DEF StoreTypeOK, VoiceState
  <2> QED
    BY <1>1, <1>2, <2>1, EmptyValues DEF SnapshotCycle, StoreTypeOK
<1>7. /\ control_state_q' \in {"IDLE", "READ", "CAPTURE", "APPLY"}
      /\ control_event_q' \in Command /\ control_q' \in VoiceState
  BY <1>1, <1>2, EmptyValues DEF ControlCycle, StoreTypeOK, CommandTypeOK
<1>8. control_event_done_pulse' \in BOOLEAN
  BY <1>1 DEF ControlCycle, ControlDone
<1>9. /\ check_state_q' \in {"IDLE", "CAPTURE", "APPLY"}
      /\ check_q' \in VoiceState /\ check_current_q' \in VoiceState
  BY <1>1, <1>2, EmptyValues DEF CheckCycle, StoreTypeOK, RenderTypeOK
<1>10. snapshot_capture_q' \in 0 .. NumVoices
  BY <1>1, <1>2, CoreNumbers DEF SnapshotCycle, RenderTypeOK
<1> QED
  BY <1>3, <1>4, <1>5, <1>6, <1>7, <1>8, <1>9, <1>10 DEF StoreTypeOK

-----------------------------------------------------------------------------
(* The core drives the mix buffer as the pipeline's renderer does. *)

(* The abstract pipeline's registers, as the core sees them. *)
LEMMA PipeView ==
  ASSUME ScanInv
  PROVE  /\ bank_start \in [Pipe!Banks -> Nat] /\ fill_bank \in Pipe!Banks
         /\ mixed \in [Pipe!Banks -> [Frames -> SUBSET (Voices \X Nat)]]
         /\ bank_state \in [Pipe!Banks -> {"FREE", "CLEARING", "FILLING", "PUBLISHED", "OWNED"}]
         /\ complete_reg \in Pipe!Banks \cup {Pipe!NoBank} /\ clear_index \in Frames
         /\ output_buffer_q \in Pipe!Banks
BY DEF ScanInv, PP!PipeInv, PP!PipeTypeOK, PP!Banks, Pipe!Banks, PP!BankStates, PP!Frames, Frames,
       PP!NoBank, Pipe!NoBank

(* The first of the frames a voice still has to mix. *)
LEMMA FirstFrameIn ==
  ASSUME NEW e \in Entry, e.todo # {}
  PROVE  FirstFrame(e) \in e.todo /\ FirstFrame(e) \in Frames
<1>1. e.todo \subseteq Frames /\ e.todo \subseteq Nat
  BY CoreNumbers DEF Entry, Frames
<1>2. \E f \in e.todo : \A g \in e.todo : f <= g
  <2>1. PICK f \in e.todo : \A g \in e.todo : ~(g < f)
    BY <1>1, LeastNatural
  <2> QED
    BY <1>1, <2>1
<1> QED
  BY <1>1, <1>2 DEF FirstFrame

(* What the engine adds to the mix on this edge. *)
LEMMA ContributionIs ==
  ASSUME NEW mixing \in AtMostOne(engine)
  PROVE  /\ mixing = {} => Contribution(mixing) = Pipe!NoContribution
         /\ mixing # {} => \E e \in engine :
              mixing = {e} /\ Contribution(mixing) = [voice |-> {e.voice}, frame |-> FirstFrame(e)]
<1>1. mixing = {} => Contribution(mixing) = Pipe!NoContribution
  BY DEF Contribution
<1>2. ASSUME mixing # {}
      PROVE  \E e \in engine :
               mixing = {e} /\ Contribution(mixing) = [voice |-> {e.voice}, frame |-> FirstFrame(e)]
  <2>1. PICK e \in engine : mixing = {e}
    BY <1>2 DEF AtMostOne
  <2>2. (CHOOSE x \in mixing : TRUE) = e
    BY <2>1
  <2> QED
    BY <1>2, <2>1, <2>2 DEF Contribution
<1> QED
  BY <1>1, <1>2

(* It is one the abstract renderer may offer. *)
LEMMA ContributionOffered ==
  ASSUME ScanInv, NEW mixing \in AtMostOne(engine), \A e \in mixing : Mixing(e)
  PROVE  Contribution(mixing) \in Pipe!Offers
<1>1. CASE mixing = {}
  BY <1>1, ContributionIs DEF Pipe!Offers
<1>2. CASE mixing # {}
  <2>1. PICK e \in engine :
          mixing = {e} /\ Contribution(mixing) = [voice |-> {e.voice}, frame |-> FirstFrame(e)]
    BY <1>2, ContributionIs
  <2>2. e \in Entry /\ e.voice \in Voices /\ e.todo # {}
    BY <2>1 DEF ScanInv, RenderTypeOK, Entry, Mixing
  <2>3. FirstFrame(e) \in e.todo /\ FirstFrame(e) \in Frames
    BY <2>2, FirstFrameIn
  <2>4. state_q \in Scanning /\ RenderState = "RENDER"
    BY <2>1 DEF ScanInv, PhaseInv, RenderState, Scanning
  <2>5. e.voice \notin Summed(fill_bank, FirstFrame(e))
    <3>1. e.voice \in ToCome(FirstFrame(e))
      BY <2>3 DEF ToCome
    <3> QED
      BY <2>3, <2>4, <3>1 DEF ScanInv, MixInv
  <2>6. <<e.voice, bank_start[fill_bank]>> \notin mixed[fill_bank][FirstFrame(e)]
    BY <2>5 DEF Summed
  <2> DEFINE c == Contribution(mixing)
  <2>7. c.voice = {e.voice} /\ c.frame = FirstFrame(e)
        /\ c \in [voice : {{v} : v \in Voices}, frame : Frames]
    BY <2>1, <2>2, <2>3
  <2>8. \A v \in c.voice : <<v, bank_start[fill_bank]>> \notin mixed[fill_bank][c.frame]
    BY <2>6, <2>7
  <2> HIDE DEF c
  <2> QED
    BY <2>4, <2>7, <2>8 DEF Pipe!Offers, Pipe!Frames, Frames, c
<1> QED
  BY <1>1, <1>2

(* When the controller has drained the engine is empty. *)
LEMMA DrainedMeans ==
  ASSUME ScanInv, Drained
  PROVE  engine = {} /\ result_q = NoResult
<1>1. result_q = NoResult /\ outstanding_voices_q = 0
  BY DEF Drained
<1>2. IsFiniteSet(Rendered)
  <2>1. IsFiniteSet(Voices)
    BY CoreNumbers, FS_Interval DEF Voices
  <2>2. Rendered \subseteq Voices
    BY DEF ScanInv, RenderTypeOK, Rendered, Entry
  <2> QED
    BY <2>1, <2>2, FS_Subset
<1>3. Cardinality(Rendered) = 0
  BY <1>1, <1>2, FS_CardinalityType DEF ScanInv, OutstandingInv
<1>4. Rendered = {}
  BY <1>2, <1>3, FS_EmptySet
<1> QED
  BY <1>1, <1>4 DEF Rendered

(* A clock edge of the core is one of the pipeline. *)
LEMMA EdgeRefines ==
  ASSUME ScanInv, NEW flush, NEW push, NEW pop, NEW more, NEW room, NEW sample_ready,
         NEW mixing, NEW ending,
         EdgeOf(flush, push, pop, more, room, sample_ready, mixing, ending)
  PROVE  Pipe!ClockEdge
<1> DEFINE admit == Pipe!RendererAdmit(room, ActionPending)
           drained == state_q = "DRAIN" /\ Drained
           finish == RenderState = "FINISH" /\ Pipe!FinishReady
<1>1. /\ ControllerCycle(room) /\ EngineCycle(mixing, ending, room)
      /\ Pipe!BankCycle(admit, Contribution(mixing), state_q = "FINISH" /\ Pipe!FinishReady)
      /\ Pipe!OutputCycle(admit, sample_ready)
      /\ room \in BOOLEAN /\ sample_ready \in BOOLEAN /\ mixing \in AtMostOne(engine)
  BY DEF EdgeOf, Cycle, Admit, When
<1>2. ActionPending \in BOOLEAN /\ drained \in BOOLEAN
  BY DEF ActionPending
<1>3. Contribution(mixing) \in Pipe!Offers
  BY <1>1, ContributionOffered DEF EngineCycle
<1>4. drained => Contribution(mixing) = Pipe!NoContribution
  BY <1>1, DrainedMeans, ContributionIs DEF AtMostOne
<1>5. finish = (state_q = "FINISH" /\ Pipe!FinishReady)
  BY DEF RenderState
<1>6. Pipe!RendererCycle(admit, drained)
  <2>1. state_q \in {"IDLE", "WAIT_FILL", "FINISH"} \cup Scanning
    BY DEF ScanInv, RenderTypeOK
  <2>2. CASE state_q \in {"IDLE", "WAIT_FILL", "FINISH"}
    BY <1>1, <2>2 DEF ControllerCycle, Pipe!RendererCycle, RenderState, Admit, StateReadFires,
                      StateRspFires, DispatchFires
  <2>3. CASE state_q \in Scanning
    <3>1. ~Admit(room) /\ ~admit
      BY <2>3, AdmitMeans DEF Admit, Scanning
    <3>2. (drained => state_q' = "FINISH") /\ (~drained => state_q' \in Scanning)
      BY <1>1, <2>3, <3>1 DEF ControllerCycle, Scanning, StateReadFires,
                                     StateRspFires, DispatchFires
    <3> QED
      BY <2>3, <3>1, <3>2 DEF Pipe!RendererCycle, RenderState, Scanning
  <2> QED
    BY <2>1, <2>2, <2>3
<1>7. Pipe!Cycle(room, ActionPending, drained, sample_ready)
  BY <1>1, <1>3, <1>4, <1>5, <1>6 DEF Pipe!Cycle
<1> QED
  BY <1>1, <1>2, <1>7 DEF Pipe!ClockEdge

(* The pipeline of the proofs is the core's. *)
LEMMA SameEdge == Pipe!ClockEdge => PP!ClockEdge
BY DEF Pipe!ClockEdge, PP!ClockEdge, Pipe!Cycle, PP!Cycle, Pipe!RendererAdmit, PP!RendererAdmit,
       Pipe!FinishReady, PP!FinishReady, Pipe!Offers, PP!Offers, Pipe!NoContribution,
       PP!NoContribution, Pipe!BankCycle, PP!BankCycle, Pipe!OutputCycle, PP!OutputCycle,
       Pipe!RendererCycle, PP!RendererCycle, Pipe!FillReady, PP!FillReady, Pipe!ManagerRequest,
       PP!ManagerRequest, Pipe!MixReqReady, PP!MixReqReady, Pipe!Banks, PP!Banks,
       Pipe!CompleteReady, PP!CompleteReady, Pipe!LastClear, PP!LastClear, Pipe!ReleaseFires,
       PP!ReleaseFires, Pipe!SelectedFreeBank, PP!SelectedFreeBank, Pipe!NoBank, PP!NoBank,
       Pipe!AccumulatorCycle, PP!AccumulatorCycle, Pipe!Summand, PP!Summand, Pipe!NextBlock,
       PP!NextBlock, Pipe!ReadFires, PP!ReadFires, Pipe!SampleFires, PP!SampleFires,
       Pipe!LastFrame, PP!LastFrame, Pipe!Frames, PP!Frames

(* So is its reset. *)
LEMMA SameReset == Pipe!Reset => PP!Reset
BY DEF Pipe!Reset, PP!Reset, Pipe!CoreReset, PP!CoreReset, Pipe!Banks, PP!Banks, Pipe!NoBank,
       PP!NoBank

(* And its initial state. *)
LEMMA SameInit == Pipe!Init => PP!Init
BY DEF Pipe!Init, PP!Init, Pipe!PipeInit, PP!PipeInit, Pipe!Banks, PP!Banks, Pipe!NoBank,
       PP!NoBank, Pipe!Frames, PP!Frames

(* The pipeline's invariant is kept. *)
LEMMA PipeInvKept ==
  ASSUME PP!PipeInv, Pipe!ClockEdge
  PROVE  PP!PipeInv'
BY SameEdge, PP!ClockEdgeInv, CoreNumbers

-----------------------------------------------------------------------------
(* The engine. *)

(* What an edge leaves of an entry, and the entry it adds. *)
Left(e, mixing) ==
  [voice |-> e.voice, generation |-> e.generation,
   todo |-> IF e \in mixing THEN e.todo \ {FirstFrame(e)} ELSE e.todo]
Added(todo) == [voice |-> scan_voice_q, generation |-> pending_state_q.generation, todo |-> todo]

(* The entries and what is due, after an edge. *)
EngineIs(mixing, ending, todo) ==
  /\ todo \subseteq Frames /\ (~EngineStartFires => todo = {})
  /\ engine' = {Left(e, mixing) : e \in engine \ ending}
                 \cup (IF EngineStartFires THEN {Added(todo)} ELSE {})
  /\ due' = [due EXCEPT ![fill_bank] =
               IF state_q = "WAIT_FILL" THEN [f \in Frames |-> {}]
               ELSE [f \in Frames |->
                       IF f \in todo THEN due[fill_bank][f] \cup {scan_voice_q}
                                     ELSE due[fill_bank][f]]]

(* A voice enters the engine with the snapshot the controller holds. *)
LEMMA StartMeans ==
  ASSUME ScanInv, EngineStartFires
  PROVE  /\ state_q = "DISPATCH_STATE" /\ pending_state_q.active /\ DispatchFires
         /\ pending_state_q.voice = scan_voice_q /\ Current(pending_state_q)
         /\ pending_state_q.generation \in Nat
<1>1. state_q = "DISPATCH_STATE" /\ pending_state_q.active
  BY DEF EngineStartFires
<1>2. pending_state_q # NoState
  BY <1>1, EmptyValues
<1> QED
  BY <1>1, <1>2 DEF ScanInv, SnapshotInv, FlightInv, RenderTypeOK, VoiceState, DispatchFires

(* An edge of the engine, in these terms. *)
LEMMA EngineNext ==
  ASSUME ScanInv, NEW mixing, NEW ending, NEW room, EngineCycle(mixing, ending, room)
  PROVE  \E todo : EngineIs(mixing, ending, todo)
<1>1. PICK todo \in IF EngineStartFires THEN SUBSET Frames ELSE {{}} :
       /\ engine' =
            {[e EXCEPT !.todo = IF e \in mixing THEN @ \ {FirstFrame(e)} ELSE @] :
               e \in engine \ ending}
            \cup (IF EngineStartFires
                  THEN {[voice |-> scan_voice_q, generation |-> pending_state_q.generation,
                         todo |-> todo]}
                  ELSE {})
       /\ due' = [due EXCEPT ![fill_bank] =
                    IF state_q = "WAIT_FILL" THEN [f \in Frames |-> {}]
                    ELSE [f \in Frames |->
                            IF f \in todo THEN @[f] \cup {scan_voice_q} ELSE @[f]]]
  BY DEF EngineCycle
<1>2. todo \subseteq Frames /\ (~EngineStartFires => todo = {})
  BY <1>1
<1>3. ASSUME NEW e \in engine
      PROVE  [e EXCEPT !.todo = IF e \in mixing THEN @ \ {FirstFrame(e)} ELSE @] = Left(e, mixing)
  <2>1. e \in [voice : Voices, generation : Nat, todo : SUBSET Frames]
    BY DEF ScanInv, RenderTypeOK, Entry
  <2> QED
    BY <2>1 DEF Left
<1>4. {[e EXCEPT !.todo = IF e \in mixing THEN @ \ {FirstFrame(e)} ELSE @] : e \in engine \ ending}
        = {Left(e, mixing) : e \in engine \ ending}
  BY <1>3
<1> QED
  BY <1>1, <1>2, <1>4 DEF EngineIs, Added

(* The entries after an edge, one by one. *)
LEMMA EngineEntries ==
  ASSUME ScanInv, NEW mixing, NEW ending, NEW todo, EngineIs(mixing, ending, todo)
  PROVE  /\ \A d \in engine' :
              \/ \E e \in engine \ ending :
                   /\ d = Left(e, mixing)
                   /\ d.voice = e.voice /\ d.generation = e.generation /\ d.todo \subseteq e.todo
              \/ /\ EngineStartFires /\ d = Added(todo) /\ d.voice = scan_voice_q
                 /\ d.generation = pending_state_q.generation /\ d.todo = todo
         /\ \A e \in engine \ ending : Left(e, mixing) \in engine'
         /\ EngineStartFires => Added(todo) \in engine'
         /\ engine' \subseteq Entry
<1>1. ASSUME NEW d \in engine'
      PROVE  \/ \E e \in engine \ ending :
                   /\ d = Left(e, mixing)
                   /\ d.voice = e.voice /\ d.generation = e.generation /\ d.todo \subseteq e.todo
             \/ /\ EngineStartFires /\ d = Added(todo) /\ d.voice = scan_voice_q
                /\ d.generation = pending_state_q.generation /\ d.todo = todo
  <2>1. (\E e \in engine \ ending : d = Left(e, mixing)) \/ (EngineStartFires /\ d = Added(todo))
    BY DEF EngineIs
  <2>2. ASSUME NEW e \in engine \ ending, d = Left(e, mixing)
        PROVE  d.voice = e.voice /\ d.generation = e.generation /\ d.todo \subseteq e.todo
    BY <2>2 DEF Left
  <2>3. ASSUME d = Added(todo)
        PROVE  d.voice = scan_voice_q /\ d.generation = pending_state_q.generation /\ d.todo = todo
    BY <2>3 DEF Added
  <2> QED
    BY <2>1, <2>2, <2>3
<1>2. (\A e \in engine \ ending : Left(e, mixing) \in engine')
      /\ (EngineStartFires => Added(todo) \in engine')
  BY DEF EngineIs
<1>3. ASSUME NEW d \in engine' PROVE d \in Entry
  <2>1. ASSUME NEW e \in engine \ ending PROVE Left(e, mixing) \in Entry
    BY DEF Left, Entry, ScanInv, RenderTypeOK
  <2>2. ASSUME EngineStartFires PROVE Added(todo) \in Entry
    BY <2>2, StartMeans DEF Added, Entry, EngineIs, ScanInv, RenderTypeOK
  <2> QED
    BY <2>1, <2>2 DEF EngineIs
<1> QED
  BY <1>1, <1>2, <1>3

(* The edge on which the entry x ends. *)
EndsWith(x, mixing, ending, room) ==
  /\ ending = {x} /\ (result_q = NoResult \/ DynamicFires(room))
  /\ x.todo = {} \/ (x \in mixing /\ Cardinality(x.todo) = 1)
  /\ result_q'.voice = x.voice /\ result_q'.generation = x.generation
  /\ result_q' \in VoiceState /\ result_q' # NoResult

(* The result register after an edge. *)
LEMMA ResultNext ==
  ASSUME ScanInv, NEW mixing, NEW ending \in AtMostOne(engine), NEW room,
         EngineCycle(mixing, ending, room)
  PROVE  /\ ending = {} => result_q' = IF DynamicFires(room) THEN NoResult ELSE result_q
         /\ ending # {} => \E x \in engine : EndsWith(x, mixing, ending, room)
<1>1. ending = {} => result_q' = IF DynamicFires(room) THEN NoResult ELSE result_q
  BY DEF EngineCycle
<1>2. ASSUME ending # {}
      PROVE  \E x \in engine : EndsWith(x, mixing, ending, room)
  <2>1. PICK x \in engine : ending = {x}
    BY <1>2 DEF AtMostOne
  <2>2. (CHOOSE y \in ending : TRUE) = x
    BY <2>1
  <2>3. PICK alive \in BOOLEAN :
          result_q' = [voice |-> x.voice, active |-> alive, generation |-> x.generation]
    BY <1>2, <2>2 DEF EngineCycle
  <2>4. x.voice \in Voices /\ x.generation \in Nat
    BY DEF ScanInv, RenderTypeOK, Entry
  <2>5. Ending(x, mixing, room)
    BY <2>1 DEF EngineCycle
  <2>6. x.voice \in 0 .. NumVoices /\ x.voice # NoVoice
    BY <2>4, CoreNumbers
  <2>7. result_q' \in VoiceState /\ result_q'.voice = x.voice /\ result_q'.generation = x.generation
    BY <2>3, <2>4, <2>6 DEF VoiceState
  <2>8. result_q' # NoResult
    BY <2>6, <2>7, EmptyValues
  <2> QED
    BY <2>1, <2>5, <2>7, <2>8 DEF Ending, EndsWith
<1> QED
  BY <1>1, <1>2

-----------------------------------------------------------------------------
(* The controller. *)

(* Its next state, by its state. *)
LEMMA ControllerNext ==
  ASSUME ScanInv, NEW room, ControllerCycle(room)
  PROVE  /\ state_q = "IDLE" => state_q' = (IF Admit(room) THEN "WAIT_FILL" ELSE "IDLE")
         /\ state_q = "WAIT_FILL" =>
              state_q' = (IF Pipe!FillReady THEN "REQUEST_STATE" ELSE "WAIT_FILL")
         /\ state_q = "REQUEST_STATE" =>
              state_q' = (IF StateReadFires THEN "WAIT_STATE" ELSE "REQUEST_STATE")
         /\ state_q = "WAIT_STATE" =>
              state_q' = (IF StateRspFires THEN "DISPATCH_STATE" ELSE "WAIT_STATE")
         /\ state_q = "DISPATCH_STATE" =>
              state_q' = (IF ~DispatchFires THEN "DISPATCH_STATE"
                          ELSE IF scan_voice_q = NumVoices - 1 THEN "DRAIN" ELSE "REQUEST_STATE")
         /\ state_q = "DRAIN" => state_q' = (IF Drained THEN "FINISH" ELSE "DRAIN")
         /\ state_q = "FINISH" => state_q' = (IF Pipe!FinishReady THEN "IDLE" ELSE "FINISH")
         /\ scan_voice_q' = (IF Admit(room) THEN 0
                             ELSE IF DispatchFires /\ scan_voice_q # NumVoices - 1
                                  THEN scan_voice_q + 1 ELSE scan_voice_q)
         /\ pending_state_q' = (IF StateRspFires THEN read_rsp_q
                                ELSE IF DispatchFires THEN NoState ELSE pending_state_q)
<1>1. state_q # "IDLE" => ~Admit(room)
  BY AdmitMeans
<1>2. /\ state_q # "REQUEST_STATE" => ~StateReadFires
      /\ state_q # "WAIT_STATE" => ~StateRspFires
      /\ state_q # "DISPATCH_STATE" => ~DispatchFires
  BY DEF StateReadFires, StateRspFires, DispatchFires
<1>3. /\ state_q = "IDLE" => state_q' = (IF Admit(room) THEN "WAIT_FILL" ELSE "IDLE")
      /\ state_q = "WAIT_FILL" =>
           state_q' = (IF Pipe!FillReady THEN "REQUEST_STATE" ELSE "WAIT_FILL")
      /\ state_q = "REQUEST_STATE" =>
           state_q' = (IF StateReadFires THEN "WAIT_STATE" ELSE "REQUEST_STATE")
      /\ state_q = "WAIT_STATE" =>
           state_q' = (IF StateRspFires THEN "DISPATCH_STATE" ELSE "WAIT_STATE")
  BY <1>1, <1>2 DEF ControllerCycle
<1>4. /\ state_q = "DISPATCH_STATE" =>
           state_q' = (IF ~DispatchFires THEN "DISPATCH_STATE"
                       ELSE IF scan_voice_q = NumVoices - 1 THEN "DRAIN" ELSE "REQUEST_STATE")
      /\ state_q = "DRAIN" => state_q' = (IF Drained THEN "FINISH" ELSE "DRAIN")
      /\ state_q = "FINISH" => state_q' = (IF Pipe!FinishReady THEN "IDLE" ELSE "FINISH")
  BY <1>1, <1>2 DEF ControllerCycle
<1>5. /\ scan_voice_q' = (IF Admit(room) THEN 0
                          ELSE IF DispatchFires /\ scan_voice_q # NumVoices - 1
                               THEN scan_voice_q + 1 ELSE scan_voice_q)
      /\ pending_state_q' = (IF StateRspFires THEN read_rsp_q
                             ELSE IF DispatchFires THEN NoState ELSE pending_state_q)
  BY DEF ControllerCycle
<1> QED
  BY <1>3, <1>4, <1>5

(* The types of the controller and the engine. *)
LEMMA RenderTypeKept ==
  ASSUME ScanInv, NEW flush, NEW push, NEW pop, NEW more, NEW room, NEW sample_ready,
         NEW mixing, NEW ending,
         EdgeOf(flush, push, pop, more, room, sample_ready, mixing, ending)
  PROVE  RenderTypeOK'
<1>1. /\ ControllerCycle(room) /\ EngineCycle(mixing, ending, room)
      /\ ending \in AtMostOne(engine) /\ mixing \in AtMostOne(engine)
  BY DEF EdgeOf, Cycle
<1>2. RenderTypeOK /\ StoreTypeOK
  BY DEF ScanInv
<1>3. state_q' \in {"IDLE", "WAIT_FILL", "FINISH"} \cup Scanning
  BY <1>1, <1>2, ControllerNext DEF RenderTypeOK, Scanning
<1>4. scan_voice_q' \in Voices
  BY <1>1, <1>2, CoreNumbers, ControllerNext DEF RenderTypeOK, Voices
<1>5. pending_state_q' \in VoiceState
  BY <1>1, <1>2, ControllerNext, EmptyValues DEF RenderTypeOK, StoreTypeOK
<1>6. result_q' \in VoiceState
  BY <1>1, <1>2, ResultNext, EmptyValues DEF RenderTypeOK, EndsWith
<1>7. outstanding_voices_q' \in Int
  BY <1>1, <1>2 DEF ControllerCycle, RenderTypeOK
<1>8. PICK todo : EngineIs(mixing, ending, todo)
  BY <1>1, EngineNext
<1>9. engine' \subseteq Entry
  BY <1>8, EngineEntries
<1>10. due' \in [Pipe!Banks -> [Frames -> SUBSET Voices]]
  <2>1. due \in [Pipe!Banks -> [Frames -> SUBSET Voices]] /\ fill_bank \in Pipe!Banks
        /\ scan_voice_q \in Voices
    BY <1>2, PipeView DEF RenderTypeOK
  <2>2. [f \in Frames |-> IF f \in todo THEN due[fill_bank][f] \cup {scan_voice_q}
                                        ELSE due[fill_bank][f]] \in [Frames -> SUBSET Voices]
    BY <2>1
  <2>3. [f \in Frames |-> {}] \in [Frames -> SUBSET Voices]
    OBVIOUS
  <2> QED
    BY <1>8, <2>1, <2>2, <2>3 DEF EngineIs
<1> QED
  BY <1>3, <1>4, <1>5, <1>6, <1>7, <1>9, <1>10 DEF RenderTypeOK

(* With nothing in the engine and no voice dispatched, nothing enters it. *)
LEMMA EngineStaysEmpty ==
  ASSUME ScanInv, NEW flush, NEW push, NEW pop, NEW more, NEW room, NEW sample_ready,
         NEW mixing, NEW ending,
         EdgeOf(flush, push, pop, more, room, sample_ready, mixing, ending),
         engine = {}, result_q = NoResult, state_q # "DISPATCH_STATE"
  PROVE  engine' = {} /\ result_q' = NoResult /\ check_state_q' # "CAPTURE"
         /\ mixing = {} /\ ending = {} /\ ~EngineStartFires /\ ~DynamicFires(room)
<1>1. /\ EngineCycle(mixing, ending, room) /\ CheckCycle(DynamicFires(room))
      /\ ending \in AtMostOne(engine) /\ mixing \in AtMostOne(engine)
  BY DEF EdgeOf, Cycle
<1>2. mixing = {} /\ ending = {}
  BY <1>1 DEF AtMostOne
<1>3. ~EngineStartFires /\ ~DynamicFires(room)
  BY DEF EngineStartFires, DynamicFires
<1>4. PICK todo : EngineIs(mixing, ending, todo)
  BY <1>1, EngineNext
<1>5. engine' = {}
  BY <1>3, <1>4 DEF EngineIs
<1>6. result_q' = NoResult
  BY <1>1, <1>2, ResultNext
<1>7. check_state_q' # "CAPTURE"
  BY <1>1, <1>3 DEF CheckCycle
<1> QED
  BY <1>2, <1>3, <1>5, <1>6, <1>7

(* The turns of the store's clients. *)
LEMMA PhaseKept ==
  ASSUME ScanInv, NEW flush, NEW push, NEW pop, NEW more, NEW room, NEW sample_ready,
         NEW mixing, NEW ending,
         EdgeOf(flush, push, pop, more, room, sample_ready, mixing, ending)
  PROVE  PhaseInv'
<1> DEFINE fires == ControlFires(flush, room)
<1>1. /\ ControllerCycle(room) /\ EngineCycle(mixing, ending, room)
      /\ ParserCycle(flush, room, pop, more) /\ ControlCycle(fires)
      /\ CheckCycle(DynamicFires(room))
      /\ Pipe!BankCycle(Admit(room), Contribution(mixing), state_q = "FINISH" /\ Pipe!FinishReady)
      /\ pop \in When(parser_state_q = "READ_HEADER" /\ fifo # << >>)
  BY DEF EdgeOf, Cycle
<1>2. PhaseInv /\ CommandTypeOK /\ StoreTypeOK /\ RenderTypeOK
  BY DEF ScanInv
<1>3. fires => /\ state_q = "IDLE" /\ ~Admit(room) /\ control_state_q = "IDLE"
               /\ check_state_q = "IDLE" /\ ~flush
               /\ parser_state_q = "DISPATCH_ACTION" /\ command_q.op \in VoiceEvents
  BY StoreIdleMeans DEF ControlFires
<1>4. parser_state_q # "READ_HEADER" => ~Admit(room)
  BY AdmitMeans
<1>5. fires => parser_state_q' = "WAIT_CONTROL_EVENT" /\ command_q' = command_q
  <2>1. ASSUME fires PROVE parser_state_q' = "WAIT_CONTROL_EVENT"
    BY <1>1, <1>3, <2>1 DEF ParserCycle, VoiceEvents, AudioFires
  <2> QED
    BY <1>1, <1>3, <2>1 DEF ParserCycle, When
<1>6. engine' # {} \/ result_q' # NoResult \/ check_state_q' = "CAPTURE" => state_q' \in Scanning
  <2>1. CASE state_q \in {"IDLE", "WAIT_FILL", "FINISH"}
    BY <2>1, NothingInFlight, EngineStaysEmpty
  <2>2. CASE state_q = "DRAIN" /\ Drained
    BY <2>2, DrainedMeans, EngineStaysEmpty
  <2>3. CASE state_q \in Scanning /\ ~(state_q = "DRAIN" /\ Drained)
    BY <1>1, <2>3, ControllerNext DEF Scanning
  <2> QED
    BY <1>2, <2>1, <2>2, <2>3 DEF RenderTypeOK, Scanning
<1>7. check_state_q' = "APPLY" => state_q' \in Scanning \cup {"FINISH"}
  <2>1. check_state_q' = "APPLY" => check_state_q = "CAPTURE"
    BY <1>1 DEF CheckCycle
  <2>2. state_q \in Scanning => state_q' \in Scanning \cup {"FINISH"}
    BY <1>1, ControllerNext DEF Scanning
  <2> QED
    BY <1>2, <2>1, <2>2 DEF PhaseInv
<1>8. control_state_q' = "READ" => fires
  BY <1>1 DEF ControlCycle
<1>9. control_state_q' = "CAPTURE" => control_state_q = "READ"
  BY <1>1 DEF ControlCycle
<1>10. control_state_q' = "APPLY" => control_state_q = "CAPTURE"
  BY <1>1 DEF ControlCycle
<1>11. control_state_q' \in {"READ", "CAPTURE"} => state_q' = "IDLE"
  BY <1>1, <1>2, <1>3, <1>4, <1>8, <1>9, ControllerNext DEF PhaseInv
<1>12. control_state_q' = "APPLY" =>
         state_q' = "IDLE" \/ (state_q' = "WAIT_FILL" /\ bank_state'[fill_bank'] = "CLEARING")
  <2> SUFFICES ASSUME control_state_q' = "APPLY", Admit(room)
               PROVE  bank_state'[fill_bank'] = "CLEARING"
    BY <1>1, <1>2, <1>10, ControllerNext DEF PhaseInv
  <2>1. state_q = "IDLE"
    BY AdmitMeans
  <2>2. fill_bank' = Pipe!SelectedFreeBank /\ Pipe!SelectedFreeBank \in Pipe!Banks
    BY <1>1 DEF Pipe!BankCycle, Pipe!SelectedFreeBank, Pipe!Banks
  <2> QED
    BY <1>1, <2>1, <2>2 DEF Pipe!BankCycle
<1>13. control_state_q' = "READ" => parser_state_q' = "WAIT_CONTROL_EVENT"
  BY <1>5, <1>8
<1>14. parser_state_q' = "WAIT_CONTROL_EVENT" =>
         fires \/ (/\ parser_state_q = "WAIT_CONTROL_EVENT" /\ ~control_event_done_pulse
                   /\ command_q' = command_q)
  BY <1>1 DEF ParserCycle, When
<1>15. parser_state_q' = "WAIT_CONTROL_EVENT" => state_q' = "IDLE"
  BY <1>1, <1>2, <1>3, <1>4, <1>14, ControllerNext DEF PhaseInv
<1>16. control_event_done_pulse' = (control_state_q = "APPLY")
  BY <1>1 DEF ControlCycle, ControlDone
<1>17. control_event_done_pulse' => control_state_q' = "IDLE"
  BY <1>1, <1>3, <1>16 DEF ControlCycle
<1>18. WaitsForOwnEvent'
  <2> SUFFICES ASSUME parser_state_q' = "WAIT_CONTROL_EVENT"
               PROVE  /\ control_state_q' # "IDLE" => control_event_q' = command_q'
                      /\ (control_state_q' # "IDLE") # control_event_done_pulse'
    BY DEF WaitsForOwnEvent
  <2>1. CASE fires
    <3>1. control_state_q' = "READ" /\ control_event_q' = command_q /\ command_q' = command_q
      BY <1>1, <1>5, <2>1 DEF ControlCycle
    <3>2. ~control_event_done_pulse' /\ control_event_done_pulse' \in BOOLEAN
      BY <1>3, <1>16, <2>1
    <3> QED
      BY <3>1, <3>2
  <2>2. CASE ~fires
    <3>1. /\ parser_state_q = "WAIT_CONTROL_EVENT" /\ ~control_event_done_pulse
          /\ command_q' = command_q
      BY <1>14, <2>2
    <3>2. control_state_q # "IDLE" /\ control_event_q = command_q
      BY <1>2, <3>1 DEF PhaseInv, WaitsForOwnEvent, StoreTypeOK
    <3>3. CASE control_state_q = "APPLY"
      <4>1. control_state_q' = "IDLE" /\ control_event_done_pulse' = TRUE
        BY <1>1, <1>16, <1>17, <2>2, <3>3 DEF ControlCycle
      <4> QED
        BY <4>1
    <3>4. CASE control_state_q # "APPLY"
      <4>1. control_state_q' # "IDLE" /\ control_event_q' = control_event_q
        BY <1>1, <1>2, <2>2, <3>2, <3>4 DEF ControlCycle, StoreTypeOK
      <4>2. control_event_done_pulse' = FALSE
        BY <1>16, <3>4
      <4> QED
        BY <3>1, <3>2, <4>1, <4>2
    <3> QED
      BY <3>3, <3>4
  <2> QED
    BY <2>1, <2>2
<1> QED
  BY <1>6, <1>7, <1>11, <1>12, <1>13, <1>15, <1>17, <1>18 DEF PhaseInv

(* The snapshot on its way. *)
LEMMA SnapshotKept ==
  ASSUME ScanInv, NEW flush, NEW push, NEW pop, NEW more, NEW room, NEW sample_ready,
         NEW mixing, NEW ending,
         EdgeOf(flush, push, pop, more, room, sample_ready, mixing, ending)
  PROVE  SnapshotInv'
<1>1. /\ ControllerCycle(room) /\ SnapshotCycle /\ ReadPort(room)
      /\ WritePort(InstallFires(flush, room)) /\ CompletionPort(InstallFires(flush, room))
  BY DEF EdgeOf, Cycle
<1>2. SnapshotInv /\ StoreTypeOK /\ RenderTypeOK
  BY DEF ScanInv
<1>3. scan_voice_q \in Voices /\ scan_voice_q # NoVoice
  BY <1>2, CoreNumbers DEF RenderTypeOK
<1>4. /\ StateReadFires => /\ state_q = "REQUEST_STATE" /\ state_q' = "WAIT_STATE"
                           /\ snapshot_capture_q = NoVoice /\ read_rsp_q = NoSnapshot
                           /\ check_state_q = "IDLE" /\ result_q = NoResult
      /\ StateRspFires => /\ state_q = "WAIT_STATE" /\ state_q' = "DISPATCH_STATE"
                          /\ read_rsp_q # NoSnapshot
      /\ DispatchFires => state_q = "DISPATCH_STATE"
  BY <1>1, ControllerNext DEF StateReadFires, StateRspFires, DispatchFires
<1>5. state_q \in {"REQUEST_STATE", "WAIT_STATE"} => scan_voice_q' = scan_voice_q
  BY <1>1, <1>4, ControllerNext, AdmitMeans
<1>6. snapshot_capture_q # NoVoice => state_q = "WAIT_STATE" /\ ~StateRspFires
  BY <1>2, <1>4 DEF SnapshotInv
<1>7. state_q' # "WAIT_STATE" => snapshot_capture_q' = NoVoice /\ read_rsp_q' = NoSnapshot
  <2>1. ASSUME state_q' # "WAIT_STATE"
        PROVE  ~StateReadFires /\ (state_q = "WAIT_STATE" => StateRspFires)
    BY <1>1, <1>4, <2>1, ControllerNext
  <2> QED
    BY <1>1, <1>2, <1>6, <2>1 DEF SnapshotCycle, SnapshotInv
<1>8. snapshot_capture_q' # NoVoice => StateReadFires
  BY <1>1 DEF SnapshotCycle
<1>9. ASSUME StateReadFires
      PROVE  /\ snapshot_capture_q' = scan_voice_q' /\ read_data_q' = StoreRead(scan_voice_q)'
             /\ read_rsp_q' = NoSnapshot
  <2>1. snapshot_capture_q' = scan_voice_q /\ scan_voice_q' = scan_voice_q
    BY <1>1, <1>4, <1>5, <1>9 DEF SnapshotCycle
  <2>2. read_rsp_q' = NoSnapshot
    BY <1>1, <1>4, <1>9 DEF SnapshotCycle
  <2>3. dynamic_mem' = dynamic_mem
    BY <1>1, <1>4, <1>9, ScanWrites
  <2>4. read_data_q' = StoreRead(scan_voice_q)
    BY <1>1, <1>4, <1>9, DynamicMeans DEF ReadPort
  <2> QED
    BY <2>1, <2>2, <2>3, <2>4 DEF StoreRead
<1>10. read_rsp_q' # NoSnapshot => read_rsp_q'.voice = scan_voice_q'
  <2> SUFFICES ASSUME read_rsp_q' # NoSnapshot PROVE read_rsp_q'.voice = scan_voice_q'
    OBVIOUS
  <2>1. CASE snapshot_capture_q # NoVoice
    <3>1. read_data_q.voice = scan_voice_q /\ read_data_q \in VoiceState
      BY <1>2, <1>3, <2>1, StoreReadType DEF SnapshotInv
    <3>2. read_rsp_q' = [read_data_q EXCEPT !.active = @ /\ snapshot_capture_q \in voice_valid_q]
      BY <1>1, <2>1 DEF SnapshotCycle
    <3>3. read_rsp_q'.voice = read_data_q.voice
      BY <3>1, <3>2 DEF VoiceState
    <3> QED
      BY <1>5, <1>6, <2>1, <3>1, <3>3
  <2>2. CASE snapshot_capture_q = NoVoice
    <3>1. read_rsp_q' = read_rsp_q
      BY <1>1, <2>2 DEF SnapshotCycle
    <3> QED
      BY <1>2, <1>5, <3>1 DEF SnapshotInv
  <2> QED
    BY <2>1, <2>2
<1>11. state_q' # "DISPATCH_STATE" => pending_state_q' = NoState
  <2> SUFFICES ASSUME state_q' # "DISPATCH_STATE" PROVE pending_state_q' = NoState
    OBVIOUS
  <2>1. ~StateRspFires /\ (state_q = "DISPATCH_STATE" => DispatchFires)
    BY <1>1, <1>4, ControllerNext
  <2> QED
    BY <1>1, <1>2, <2>1, ControllerNext DEF SnapshotInv
<1>12. pending_state_q' # NoState => pending_state_q'.voice = scan_voice_q'
  <2> SUFFICES ASSUME pending_state_q' # NoState PROVE pending_state_q'.voice = scan_voice_q'
    OBVIOUS
  <2>1. CASE StateRspFires
    BY <1>1, <1>2, <1>4, <1>5, <2>1, ControllerNext DEF SnapshotInv
  <2>2. CASE ~StateRspFires
    <3>1. ~DispatchFires /\ pending_state_q' = pending_state_q
      BY <1>1, <2>2, ControllerNext
    <3>2. state_q = "DISPATCH_STATE"
      BY <1>2, <3>1 DEF SnapshotInv
    <3> QED
      BY <1>1, <1>2, <3>1, <3>2, ControllerNext, AdmitMeans DEF SnapshotInv
  <2> QED
    BY <2>1, <2>2
<1>13. NoSnapshot' = NoSnapshot /\ NoVoice' = NoVoice /\ NoState' = NoState
  BY DEF NoSnapshot, NoVoice, NoState
<1> QED
  BY <1>7, <1>8, <1>9, <1>10, <1>11, <1>12, <1>13 DEF SnapshotInv

-----------------------------------------------------------------------------
(* Voices in flight. *)

CurrentNext(s) ==
  /\ s.voice \in voice_valid_q'
  /\ dynamic_mem'[s.voice].active
  /\ dynamic_mem'[s.voice].generation = s.generation

PassedNext(v) == v < scan_voice_q' \/ (v = scan_voice_q' /\ state_q' \in {"DRAIN", "FINISH"})

(* A voice stays dispatched to the end of the scan, and becomes so when it *)
(* enters the engine.                                                      *)
LEMMA PassedKept ==
  ASSUME ScanInv, NEW room, ControllerCycle(room), NEW v \in Voices, state_q \in Scanning
  PROVE  /\ Passed(v) => PassedNext(v)
         /\ EngineStartFires /\ v = scan_voice_q => PassedNext(v)
<1>1. v \in Nat /\ scan_voice_q \in Nat
  BY CoreNumbers DEF ScanInv, RenderTypeOK
<1>2. ~Admit(room)
  BY AdmitMeans DEF Scanning
<1>3. state_q # "DISPATCH_STATE" => ~DispatchFires
  BY DEF DispatchFires
<1>4. ASSUME Passed(v) PROVE PassedNext(v)
  <2>1. CASE state_q = "DRAIN"
    BY <1>1, <1>2, <1>3, <1>4, <2>1, ControllerNext DEF Passed, PassedNext
  <2>2. CASE state_q # "DRAIN"
    <3>1. v < scan_voice_q
      BY <1>4, <2>2 DEF Passed, Scanning
    <3>2. scan_voice_q' \in {scan_voice_q, scan_voice_q + 1}
      BY <1>2, ControllerNext
    <3> QED
      BY <1>1, <3>1, <3>2 DEF PassedNext
  <2> QED
    BY <2>1, <2>2
<1>5. ASSUME EngineStartFires, v = scan_voice_q PROVE PassedNext(v)
  <2>1. DispatchFires /\ state_q = "DISPATCH_STATE"
    BY <1>5, StartMeans
  <2> QED
    BY <1>1, <1>2, <1>5, <2>1, ControllerNext DEF PassedNext
<1> QED
  BY <1>4, <1>5

(* During a scan the store changes only the voice that is written back. *)
LEMMA CurrentKept ==
  ASSUME ScanInv, NEW room, NEW flush, WritePort(InstallFires(flush, room)),
         CompletionPort(InstallFires(flush, room)), state_q \notin {"IDLE", "WAIT_FILL"},
         NEW s, Current(s), check_state_q = "APPLY" => s.voice # check_q.voice
  PROVE  CurrentNext(s)
<1>1. s.voice \in Voices /\ dynamic_mem \in [Voices -> [active : BOOLEAN, generation : Nat]]
  BY DEF ScanInv, StoreTypeOK, Current
<1>2. CASE check_state_q # "APPLY"
  BY <1>2, ScanWrites DEF Current, CurrentNext
<1>3. CASE check_state_q = "APPLY"
  <2>1. dynamic_mem'[s.voice] = dynamic_mem[s.voice]
    BY <1>1, <1>3, ScanWrites
  <2>2. s.voice \in voice_valid_q'
    BY <1>3, ScanWrites DEF Current
  <2> QED
    BY <2>1, <2>2 DEF Current, CurrentNext
<1> QED
  BY <1>2, <1>3

(* The voice being scanned is not in flight yet. *)
LEMMA ScannedIsNew ==
  ASSUME ScanInv, state_q \notin {"DRAIN", "FINISH"}
  PROVE  /\ \A e \in engine : e.voice # scan_voice_q
         /\ result_q # NoResult => result_q.voice # scan_voice_q
         /\ check_state_q # "IDLE" => check_q.voice # scan_voice_q
<1>1. scan_voice_q \in Nat
  BY CoreNumbers DEF ScanInv, RenderTypeOK
<1>2. ASSUME NEW v, Passed(v) PROVE v # scan_voice_q
  BY <1>1, <1>2 DEF Passed
<1> QED
  BY <1>2 DEF ScanInv, FlightInv

(* Which voices the engine holds after an edge. *)
LEMMA RenderedNext ==
  ASSUME ScanInv, NEW mixing, NEW ending, NEW todo, EngineIs(mixing, ending, todo)
  PROVE  /\ Rendered' = {e.voice : e \in engine \ ending}
                          \cup (IF EngineStartFires THEN {scan_voice_q} ELSE {})
         /\ \A v \in Rendered' : v \in Rendered \/ (EngineStartFires /\ v = scan_voice_q)
<1>1. ASSUME NEW e \in engine PROVE Left(e, mixing).voice = e.voice
  BY DEF Left
<1>2. Added(todo).voice = scan_voice_q
  BY DEF Added
<1>3. Rendered' = {d.voice : d \in engine'}
  BY DEF Rendered
<1>4. {d.voice : d \in {Left(e, mixing) : e \in engine \ ending}}
        = {e.voice : e \in engine \ ending}
  BY <1>1
<1>5. CASE EngineStartFires
  <2>1. engine' = {Left(e, mixing) : e \in engine \ ending} \cup {Added(todo)}
    BY <1>5 DEF EngineIs
  <2>2. {d.voice : d \in engine'} = {e.voice : e \in engine \ ending} \cup {scan_voice_q}
    BY <1>1, <1>2, <2>1
  <2> QED
    BY <1>3, <1>5, <2>2 DEF Rendered
<1>6. CASE ~EngineStartFires
  <2>1. engine' = {Left(e, mixing) : e \in engine \ ending}
    BY <1>6 DEF EngineIs
  <2> QED
    BY <1>3, <1>4, <1>6, <2>1 DEF Rendered
<1> QED
  BY <1>5, <1>6

(* What the snapshot registers hold is still so after the edge. *)
LEMMA SnapshotsCurrent ==
  ASSUME ScanInv, NEW flush, NEW push, NEW pop, NEW more, NEW room, NEW sample_ready,
         NEW mixing, NEW ending,
         EdgeOf(flush, push, pop, more, room, sample_ready, mixing, ending)
  PROVE  /\ read_rsp_q'.active => CurrentNext(read_rsp_q')
         /\ pending_state_q'.active => CurrentNext(pending_state_q')
<1>1. /\ ControllerCycle(room) /\ SnapshotCycle
      /\ WritePort(InstallFires(flush, room)) /\ CompletionPort(InstallFires(flush, room))
  BY DEF EdgeOf, Cycle
<1>2. SnapshotInv /\ FlightInv /\ StoreTypeOK /\ RenderTypeOK
  BY DEF ScanInv
<1>3. ASSUME NEW s, Current(s), s.voice = scan_voice_q, state_q \in {"WAIT_STATE", "DISPATCH_STATE"}
      PROVE  CurrentNext(s)
  <2>1. state_q \notin {"IDLE", "WAIT_FILL"} /\ state_q \notin {"DRAIN", "FINISH"}
    BY <1>3
  <2>2. check_state_q = "APPLY" => s.voice # check_q.voice
    BY <1>3, <2>1, ScannedIsNew
  <2> QED
    BY <1>1, <1>3, <2>1, <2>2, CurrentKept
<1>4. read_rsp_q.active => CurrentNext(read_rsp_q)
  BY <1>2, <1>3, EmptyValues DEF SnapshotInv, FlightInv
<1>5. pending_state_q.active => CurrentNext(pending_state_q)
  BY <1>2, <1>3, EmptyValues DEF SnapshotInv, FlightInv
<1>6. ASSUME read_rsp_q'.active PROVE CurrentNext(read_rsp_q')
  <2>1. CASE snapshot_capture_q # NoVoice
    <3>1. read_data_q = StoreRead(scan_voice_q) /\ snapshot_capture_q = scan_voice_q
          /\ state_q = "WAIT_STATE"
      BY <1>2, <2>1 DEF SnapshotInv
    <3>2. scan_voice_q \in Voices
      BY <1>2 DEF RenderTypeOK
    <3>3. read_rsp_q' = [read_data_q EXCEPT !.active = @ /\ snapshot_capture_q \in voice_valid_q]
      BY <1>1, <2>1 DEF SnapshotCycle
    <3>4. /\ read_data_q \in VoiceState /\ read_data_q.voice = scan_voice_q
          /\ read_data_q.active = dynamic_mem[scan_voice_q].active
          /\ read_data_q.generation = dynamic_mem[scan_voice_q].generation
      BY <1>2, <3>1, <3>2, StoreReadType
    <3>5. /\ read_rsp_q'.voice = scan_voice_q
          /\ read_rsp_q'.generation = dynamic_mem[scan_voice_q].generation
          /\ read_rsp_q'.active = (read_data_q.active /\ snapshot_capture_q \in voice_valid_q)
      BY <3>3, <3>4 DEF VoiceState
    <3>6. Current(read_rsp_q')
      BY <1>6, <3>1, <3>4, <3>5 DEF Current
    <3> QED
      BY <1>3, <3>1, <3>5, <3>6
  <2>2. CASE snapshot_capture_q = NoVoice
    <3>1. read_rsp_q' = read_rsp_q
      BY <1>1, <1>6, <2>2, EmptyValues DEF SnapshotCycle
    <3> QED
      BY <1>4, <1>6, <3>1
  <2> QED
    BY <2>1, <2>2
<1>7. ASSUME pending_state_q'.active PROVE CurrentNext(pending_state_q')
  <2>1. pending_state_q' \in {read_rsp_q, pending_state_q}
    BY <1>1, <1>7, ControllerNext, EmptyValues
  <2> QED
    BY <1>4, <1>5, <1>7, <2>1
<1> QED
  BY <1>6, <1>7

(* The engine and the result register. *)
LEMMA EngineCurrent ==
  ASSUME ScanInv, NEW flush, NEW push, NEW pop, NEW more, NEW room, NEW sample_ready,
         NEW mixing, NEW ending,
         EdgeOf(flush, push, pop, more, room, sample_ready, mixing, ending)
  PROVE  /\ \A d \in engine' : CurrentNext(d) /\ PassedNext(d.voice)
         /\ \A c, d \in engine' : c.voice = d.voice => c = d
         /\ result_q' # NoResult =>
              /\ CurrentNext(result_q') /\ PassedNext(result_q'.voice)
              /\ result_q'.voice \notin Rendered'
<1>1. /\ ControllerCycle(room) /\ EngineCycle(mixing, ending, room)
      /\ WritePort(InstallFires(flush, room)) /\ CompletionPort(InstallFires(flush, room))
      /\ ending \in AtMostOne(engine) /\ mixing \in AtMostOne(engine)
  BY DEF EdgeOf, Cycle
<1>2. FlightInv /\ StoreTypeOK /\ RenderTypeOK /\ PhaseInv
  BY DEF ScanInv
<1>3. PICK todo : EngineIs(mixing, ending, todo)
  BY <1>1, EngineNext
<1>4. engine # {} \/ result_q # NoResult \/ EngineStartFires =>
        state_q \in Scanning /\ state_q \notin {"IDLE", "WAIT_FILL"}
  BY <1>2, StartMeans DEF PhaseInv, Scanning
<1>5. EngineStartFires => state_q \notin {"DRAIN", "FINISH"}
  BY StartMeans
<1>6. ASSUME NEW e \in engine PROVE CurrentNext(e) /\ PassedNext(e.voice)
  <2>1. Current(e) /\ Passed(e.voice) /\ e.voice \in Voices
    BY <1>2 DEF FlightInv, RenderTypeOK, Entry
  <2>2. check_state_q = "APPLY" => e.voice # check_q.voice
    BY <1>2 DEF FlightInv, Rendered
  <2> QED
    BY <1>1, <1>4, <2>1, <2>2, CurrentKept, PassedKept
<1>7. ASSUME EngineStartFires
      PROVE  /\ PassedNext(scan_voice_q) /\ CurrentNext(pending_state_q)
             /\ pending_state_q.voice = scan_voice_q
  <2>1. Current(pending_state_q) /\ pending_state_q.voice = scan_voice_q /\ scan_voice_q \in Voices
    BY <1>2, <1>7, StartMeans DEF RenderTypeOK
  <2>2. check_state_q = "APPLY" => pending_state_q.voice # check_q.voice
    BY <1>5, <1>7, <2>1, ScannedIsNew
  <2> QED
    BY <1>1, <1>4, <1>7, <2>1, <2>2, CurrentKept, PassedKept
<1>8. ASSUME NEW d \in engine' PROVE CurrentNext(d) /\ PassedNext(d.voice)
  <2>1. CASE \E e \in engine \ ending :
               /\ d = Left(e, mixing)
               /\ d.voice = e.voice /\ d.generation = e.generation /\ d.todo \subseteq e.todo
    <3>1. PICK e \in engine : d.voice = e.voice /\ d.generation = e.generation
      BY <2>1
    <3> QED
      BY <1>6, <3>1 DEF CurrentNext
  <2>2. CASE /\ EngineStartFires /\ d = Added(todo) /\ d.voice = scan_voice_q
             /\ d.generation = pending_state_q.generation /\ d.todo = todo
    BY <1>7, <2>2 DEF CurrentNext
  <2> QED
    BY <1>3, <2>1, <2>2, EngineEntries
<1>9. ASSUME NEW c \in engine', NEW d \in engine', c.voice = d.voice PROVE c = d
  <2> DEFINE Old(x, e) == x = Left(e, mixing) /\ x.voice = e.voice
             New(x) == EngineStartFires /\ x = Added(todo) /\ x.voice = scan_voice_q
  <2>1. ASSUME NEW x \in engine' PROVE (\E e \in engine \ ending : Old(x, e)) \/ New(x)
    BY <1>3, EngineEntries
  <2>2. ASSUME NEW x, NEW e \in engine, Old(x, e), EngineStartFires PROVE x.voice # scan_voice_q
    BY <1>5, <2>2, ScannedIsNew
  <2>3. CASE New(c)
    BY <1>9, <2>1, <2>2, <2>3
  <2>4. CASE New(d)
    BY <1>9, <2>1, <2>2, <2>4
  <2>5. CASE ~New(c) /\ ~New(d)
    <3>1. PICK e \in engine \ ending : Old(c, e)
      BY <2>1, <2>5
    <3>2. PICK g \in engine \ ending : Old(d, g)
      BY <2>1, <2>5
    <3>3. e = g
      BY <1>2, <1>9, <3>1, <3>2 DEF FlightInv
    <3> QED
      BY <3>1, <3>2, <3>3
  <2> QED
    BY <2>3, <2>4, <2>5
<1>10. ASSUME result_q' # NoResult
       PROVE  /\ CurrentNext(result_q') /\ PassedNext(result_q'.voice)
              /\ result_q'.voice \notin Rendered'
  <2>1. CASE ending = {}
    <3>1. result_q' = result_q /\ result_q # NoResult
      BY <1>1, <1>10, <2>1, ResultNext
    <3>2. /\ Current(result_q) /\ Passed(result_q.voice) /\ result_q.voice \notin Rendered
          /\ result_q.voice \in Voices
      BY <1>2, <3>1 DEF FlightInv, Current, StoreTypeOK
    <3>3. check_state_q = "APPLY" => result_q.voice # check_q.voice
      BY <1>2 DEF FlightInv
    <3>4. CurrentNext(result_q) /\ PassedNext(result_q.voice)
      BY <1>1, <1>4, <3>1, <3>2, <3>3, CurrentKept, PassedKept
    <3>5. result_q.voice \notin Rendered'
      BY <1>3, <1>5, <3>1, <3>2, ScannedIsNew, RenderedNext
    <3> QED
      BY <3>1, <3>4, <3>5
  <2>2. CASE ending # {}
    <3>0. PICK x \in engine : EndsWith(x, mixing, ending, room)
      BY <1>1, <2>2, ResultNext
    <3>1. ending = {x} /\ result_q'.voice = x.voice /\ result_q'.generation = x.generation
      BY <3>0 DEF EndsWith
    <3>2. CurrentNext(result_q') /\ PassedNext(result_q'.voice)
      BY <1>6, <3>1 DEF CurrentNext
    <3>3. ASSUME NEW v \in Rendered' PROVE v # x.voice
      <4>1. CASE EngineStartFires /\ v = scan_voice_q
        BY <1>5, <4>1, ScannedIsNew
      <4>2. CASE v \in {e.voice : e \in engine \ ending}
        BY <1>2, <3>1, <4>2 DEF FlightInv
      <4> QED
        BY <1>3, <4>1, <4>2, RenderedNext
    <3> QED
      BY <3>1, <3>2, <3>3
  <2> QED
    BY <2>1, <2>2
<1> QED
  BY <1>8, <1>9, <1>10

StoreReadNext(v) ==
  [voice |-> v, active |-> dynamic_mem'[v].active, generation |-> dynamic_mem'[v].generation]

(* The write-back check. *)
LEMMA CheckCurrent ==
  ASSUME ScanInv, NEW flush, NEW push, NEW pop, NEW more, NEW room, NEW sample_ready,
         NEW mixing, NEW ending,
         EdgeOf(flush, push, pop, more, room, sample_ready, mixing, ending)
  PROVE  /\ check_state_q' # "IDLE" =>
              /\ CurrentNext(check_q') /\ PassedNext(check_q'.voice)
              /\ check_q'.voice \notin Rendered' /\ check_q'.voice # result_q'.voice
         /\ check_state_q' = "CAPTURE" => read_data_q' = StoreReadNext(check_q'.voice)
         /\ check_state_q' = "APPLY" => check_current_q' = StoreReadNext(check_q'.voice)
<1>1. /\ ControllerCycle(room) /\ EngineCycle(mixing, ending, room)
      /\ WritePort(InstallFires(flush, room)) /\ CompletionPort(InstallFires(flush, room))
      /\ CheckCycle(DynamicFires(room)) /\ ReadPort(room)
      /\ ending \in AtMostOne(engine)
  BY DEF EdgeOf, Cycle
<1>2. FlightInv /\ StoreTypeOK /\ RenderTypeOK /\ PhaseInv
  BY DEF ScanInv
<1>3. PICK todo : EngineIs(mixing, ending, todo)
  BY <1>1, EngineNext
<1>4. ASSUME NEW s, Current(s), Passed(s.voice), s.voice \notin Rendered, check_state_q # "APPLY",
             state_q \in Scanning
      PROVE  CurrentNext(s) /\ PassedNext(s.voice) /\ s.voice \notin Rendered'
  <2>1. s.voice \in Voices /\ scan_voice_q \in Nat
    BY <1>2, <1>4, CoreNumbers DEF Current, StoreTypeOK, RenderTypeOK
  <2>2. state_q \notin {"IDLE", "WAIT_FILL"}
    BY <1>4 DEF Scanning
  <2>3. CurrentNext(s) /\ PassedNext(s.voice)
    BY <1>1, <1>4, <2>1, <2>2, CurrentKept, PassedKept
  <2>4. EngineStartFires => s.voice # scan_voice_q
    BY <1>4, <2>1, StartMeans DEF Passed
  <2> QED
    BY <1>3, <1>4, <2>3, <2>4, RenderedNext
<1>5. ASSUME NEW v, v \in Voices, v \notin Rendered,
             result_q = NoResult \/ v # result_q.voice \/ DynamicFires(room)
      PROVE  v # result_q'.voice
  <2>1. v # NoResult.voice
    BY <1>5, CoreNumbers, EmptyValues
  <2>2. CASE ending = {}
    BY <1>1, <1>5, <2>1, <2>2, ResultNext
  <2>3. CASE ending # {}
    <3>1. PICK x \in engine : EndsWith(x, mixing, ending, room)
      BY <1>1, <2>3, ResultNext
    <3> QED
      BY <1>5, <3>1 DEF EndsWith, Rendered
  <2> QED
    BY <2>2, <2>3
<1>6. CASE DynamicFires(room)
  <2>1. result_q # NoResult /\ check_state_q = "IDLE" /\ state_q \in Scanning
    BY <1>2, <1>6, DynamicMeans DEF PhaseInv
  <2>2. /\ check_state_q' = "CAPTURE" /\ check_q' = result_q
        /\ read_data_q' = StoreRead(result_q.voice)
    BY <1>1, <1>6 DEF CheckCycle, ReadPort
  <2>3. /\ Current(result_q) /\ Passed(result_q.voice) /\ result_q.voice \notin Rendered
        /\ result_q.voice \in Voices
    BY <1>2, <2>1 DEF FlightInv, Current, StoreTypeOK
  <2>4. CurrentNext(result_q) /\ PassedNext(result_q.voice) /\ result_q.voice \notin Rendered'
    BY <1>4, <2>1, <2>3
  <2>5. result_q.voice # result_q'.voice
    BY <1>5, <1>6, <2>3
  <2>6. state_q \notin {"IDLE", "WAIT_FILL"}
    BY <2>1 DEF Scanning
  <2>7. dynamic_mem' = dynamic_mem
    BY <1>1, <2>1, <2>6, ScanWrites
  <2> QED
    BY <2>2, <2>4, <2>5, <2>7 DEF StoreRead, StoreReadNext
<1>7. CASE ~DynamicFires(room) /\ check_state_q = "CAPTURE"
  <2>1. /\ check_state_q' = "APPLY" /\ check_q' = check_q /\ check_current_q' = read_data_q
        /\ state_q \in Scanning
    BY <1>1, <1>2, <1>7 DEF CheckCycle, PhaseInv
  <2>2. /\ Current(check_q) /\ Passed(check_q.voice) /\ check_q.voice \notin Rendered
        /\ check_q.voice # result_q.voice /\ read_data_q = StoreRead(check_q.voice)
        /\ check_q.voice \in Voices
    BY <1>2, <1>7 DEF FlightInv, Current, StoreTypeOK
  <2>3. CurrentNext(check_q) /\ PassedNext(check_q.voice) /\ check_q.voice \notin Rendered'
    BY <1>4, <1>7, <2>1, <2>2
  <2>4. check_q.voice # result_q'.voice
    BY <1>5, <2>2
  <2>5. state_q \notin {"IDLE", "WAIT_FILL"}
    BY <2>1 DEF Scanning
  <2>6. dynamic_mem' = dynamic_mem
    BY <1>1, <1>7, <2>5, ScanWrites
  <2> QED
    BY <2>1, <2>2, <2>3, <2>4, <2>6 DEF StoreRead, StoreReadNext
<1>8. CASE ~DynamicFires(room) /\ check_state_q # "CAPTURE"
  BY <1>1, <1>8 DEF CheckCycle
<1> QED
  BY <1>6, <1>7, <1>8

(* The control path. *)
LEMMA ControlCurrent ==
  ASSUME ScanInv, NEW flush, NEW push, NEW pop, NEW more, NEW room, NEW sample_ready,
         NEW mixing, NEW ending,
         EdgeOf(flush, push, pop, more, room, sample_ready, mixing, ending)
  PROVE  /\ control_state_q' = "CAPTURE" => read_data_q' = StoreReadNext(control_event_q'.voice)
         /\ control_state_q' = "APPLY" => control_q' = StoreReadNext(control_event_q'.voice)
<1>1. /\ WritePort(InstallFires(flush, room)) /\ ControlCycle(ControlFires(flush, room))
      /\ ReadPort(room)
  BY DEF EdgeOf, Cycle
<1>2. FlightInv /\ PhaseInv
  BY DEF ScanInv
<1>3. ControlFires(flush, room) => control_state_q = "IDLE"
  BY StoreIdleMeans DEF ControlFires
<1>4. ASSUME control_state_q \in {"READ", "CAPTURE"}
      PROVE  /\ dynamic_mem' = dynamic_mem /\ control_event_q' = control_event_q
             /\ ~DynamicFires(room) /\ ~StateReadFires
  <2>1. state_q = "IDLE"
    BY <1>2, <1>4 DEF PhaseInv
  <2>2. result_q = NoResult
    BY <2>1, NothingInFlight
  <2>3. ~DynamicFires(room) /\ ~StateReadFires
    BY <2>1, <2>2 DEF DynamicFires, StateReadFires
  <2> QED
    BY <1>1, <1>3, <1>4, <2>3, ControlReads DEF ControlCycle
<1>5. ASSUME control_state_q' = "CAPTURE" PROVE read_data_q' = StoreReadNext(control_event_q'.voice)
  <2>1. control_state_q = "READ"
    BY <1>1, <1>5 DEF ControlCycle
  <2> QED
    BY <1>1, <1>4, <2>1 DEF ReadPort, StoreRead, StoreReadNext
<1>6. ASSUME control_state_q' = "APPLY" PROVE control_q' = StoreReadNext(control_event_q'.voice)
  <2>1. control_state_q = "CAPTURE" /\ control_q' = read_data_q
    BY <1>1, <1>6 DEF ControlCycle
  <2> QED
    BY <1>2, <1>4, <2>1 DEF FlightInv, StoreRead, StoreReadNext
<1> QED
  BY <1>5, <1>6

(* Between snapshot and write-back nothing changes under a voice. *)
LEMMA FlightKept ==
  ASSUME ScanInv, NEW flush, NEW push, NEW pop, NEW more, NEW room, NEW sample_ready,
         NEW mixing, NEW ending,
         EdgeOf(flush, push, pop, more, room, sample_ready, mixing, ending)
  PROVE  FlightInv'
<1>1. /\ read_rsp_q'.active => CurrentNext(read_rsp_q')
      /\ pending_state_q'.active => CurrentNext(pending_state_q')
  BY SnapshotsCurrent
<1>2. /\ \A d \in engine' : CurrentNext(d) /\ PassedNext(d.voice)
      /\ \A c, d \in engine' : c.voice = d.voice => c = d
      /\ result_q' # NoResult =>
           /\ CurrentNext(result_q') /\ PassedNext(result_q'.voice)
           /\ result_q'.voice \notin Rendered'
  BY EngineCurrent
<1>3. /\ check_state_q' # "IDLE" =>
           /\ CurrentNext(check_q') /\ PassedNext(check_q'.voice)
           /\ check_q'.voice \notin Rendered' /\ check_q'.voice # result_q'.voice
      /\ check_state_q' = "CAPTURE" => read_data_q' = StoreReadNext(check_q'.voice)
      /\ check_state_q' = "APPLY" => check_current_q' = StoreReadNext(check_q'.voice)
  BY CheckCurrent
<1>4. /\ control_state_q' = "CAPTURE" => read_data_q' = StoreReadNext(control_event_q'.voice)
      /\ control_state_q' = "APPLY" => control_q' = StoreReadNext(control_event_q'.voice)
  BY ControlCurrent
<1>5. NoResult' = NoResult
  BY DEF NoResult, NoState, NoVoice
<1> QED
  BY <1>1, <1>2, <1>3, <1>4, <1>5
  DEF FlightInv, Current, CurrentNext, Passed, PassedNext, StoreRead, StoreReadNext

(* The counter of the controller. *)
LEMMA OutstandingKept ==
  ASSUME ScanInv, NEW flush, NEW push, NEW pop, NEW more, NEW room, NEW sample_ready,
         NEW mixing, NEW ending,
         EdgeOf(flush, push, pop, more, room, sample_ready, mixing, ending)
  PROVE  OutstandingInv'
<1> DEFINE rest == {e.voice : e \in engine \ ending}
           n == Cardinality(Rendered)
           r == Cardinality(rest)
<1>1. /\ ControllerCycle(room) /\ EngineCycle(mixing, ending, room) /\ ending \in AtMostOne(engine)
  BY DEF EdgeOf, Cycle
<1>2. FlightInv /\ RenderTypeOK /\ OutstandingInv
  BY DEF ScanInv
<1>3. PICK todo : EngineIs(mixing, ending, todo)
  BY <1>1, EngineNext
<1>4. IsFiniteSet(Rendered)
  <2>1. IsFiniteSet(Voices)
    BY CoreNumbers, FS_Interval DEF Voices
  <2>2. Rendered \subseteq Voices
    BY <1>2 DEF RenderTypeOK, Rendered, Entry
  <2> QED
    BY <2>1, <2>2, FS_Subset
<1>5. n \in Nat
  BY <1>4, FS_CardinalityType
<1>6. /\ IsFiniteSet(rest) /\ rest \subseteq Rendered
      /\ ending = {} => r = n
      /\ ending # {} => r = n - 1
  <2>1. rest \subseteq Rendered
    BY DEF Rendered
  <2>2. CASE ending = {}
    <3>1. rest = Rendered
      BY <2>2 DEF Rendered
    <3> QED
      BY <1>4, <2>1, <2>2, <3>1
  <2>3. CASE ending # {}
    <3>1. PICK x \in engine : EndsWith(x, mixing, ending, room)
      BY <1>1, <2>3, ResultNext
    <3>2. ending = {x}
      BY <3>1 DEF EndsWith
    <3>3. rest = Rendered \ {x.voice} /\ x.voice \in Rendered
      BY <1>2, <3>2 DEF FlightInv, Rendered
    <3>4. IsFiniteSet(Rendered \ {x.voice}) /\ Cardinality(Rendered \ {x.voice}) = n - 1
      BY <1>4, <3>3, FS_RemoveElement
    <3> QED
      BY <2>1, <2>3, <3>3, <3>4
  <2> QED
    BY <2>2, <2>3
<1>7. Cardinality(Rendered') = r + (IF EngineStartFires THEN 1 ELSE 0)
  <2>1. Rendered' = rest \cup (IF EngineStartFires THEN {scan_voice_q} ELSE {})
    BY <1>3, RenderedNext
  <2>2. CASE EngineStartFires
    <3>1. scan_voice_q \notin Rendered
      BY <2>2, StartMeans, ScannedIsNew DEF Rendered
    <3>2. scan_voice_q \notin rest
      BY <1>6, <3>1
    <3> HIDE DEF rest
    <3>3. Cardinality(rest \cup {scan_voice_q}) = r + 1
      BY <1>6, <3>2, FS_AddElement
    <3> QED
      BY <2>1, <2>2, <3>3
  <2>3. CASE ~EngineStartFires
    <3>1. Rendered' = rest
      BY <2>1, <2>3
    <3>2. r \in Nat
      BY <1>6, FS_CardinalityType
    <3> QED
      BY <2>3, <3>1, <3>2
  <2> QED
    BY <2>2, <2>3
<1>8. outstanding_voices_q' = n + (IF result_q = NoResult THEN 0 ELSE 1)
                                + (IF EngineStartFires THEN 1 ELSE 0)
                                - (IF DynamicFires(room) THEN 1 ELSE 0)
  BY <1>1, <1>2 DEF ControllerCycle, OutstandingInv
<1>9. DynamicFires(room) => result_q # NoResult
  BY DEF DynamicFires
<1>10. CASE ending = {}
  <2>1. result_q' = IF DynamicFires(room) THEN NoResult ELSE result_q
    BY <1>1, <1>10, ResultNext
  <2>2. outstanding_voices_q' = Cardinality(Rendered') + (IF result_q' = NoResult THEN 0 ELSE 1)
    <3> HIDE DEF n, r
    <3> QED
      BY <1>5, <1>6, <1>7, <1>8, <1>9, <1>10, <2>1
  <2> QED
    BY <2>2 DEF OutstandingInv, NoResult, NoState, NoVoice
<1>11. CASE ending # {}
  <2>1. PICK x \in engine : EndsWith(x, mixing, ending, room)
    BY <1>1, <1>11, ResultNext
  <2>2. result_q' # NoResult /\ (result_q = NoResult \/ DynamicFires(room))
    BY <2>1 DEF EndsWith
  <2>3. outstanding_voices_q' = Cardinality(Rendered') + (IF result_q' = NoResult THEN 0 ELSE 1)
    <3> HIDE DEF n, r
    <3> QED
      BY <1>5, <1>6, <1>7, <1>8, <1>9, <1>11, <2>2
  <2> QED
    BY <2>3 DEF OutstandingInv, NoResult, NoState, NoVoice
<1> QED
  BY <1>10, <1>11

-----------------------------------------------------------------------------
(* The mix. *)

(* The state of the bank being filled, by the controller's state. *)
LEMMA FillBankState ==
  ASSUME ScanInv
  PROVE  /\ state_q = "IDLE" => bank_state[fill_bank] \notin {"CLEARING", "FILLING"}
         /\ state_q = "WAIT_FILL" => bank_state[fill_bank] \in {"CLEARING", "FILLING"}
         /\ state_q \in Scanning \cup {"FINISH"} => Pipe!FillReady
         /\ Pipe!FillReady <=> bank_state[fill_bank] = "FILLING"
         /\ \A b \in Pipe!Banks : complete_reg = b => bank_state[b] = "PUBLISHED"
         /\ bank_state[fill_bank] = "CLEARING" =>
              \A f \in Frames : f < clear_index => mixed[fill_bank][f] = {}
<1>1. PP!BankOwnership /\ PP!ClearedSoFar /\ fill_bank \in Pipe!Banks
  BY PipeView DEF ScanInv, PP!PipeInv, PP!BanksInOrder
<1>2. state_q \in Scanning => RenderState = "RENDER"
  BY DEF Scanning, RenderState
<1> QED
  BY <1>1, <1>2 DEF PP!BankOwnership, PP!ClearedSoFar, PP!Banks, Pipe!Banks, PP!FillReady,
                    Pipe!FillReady, PP!Frames, Frames, RenderState

(* Without a contribution the accumulators only change by the clear. *)
LEMMA MixedUntouched ==
  ASSUME ScanInv, NEW admit, NEW finish, Pipe!BankCycle(admit, Pipe!NoContribution, finish)
  PROVE  /\ bank_state[fill_bank] # "CLEARING" \/ admit => mixed' = mixed
         /\ \A b \in Pipe!Banks : b # fill_bank => mixed'[b] = mixed[b]
         /\ bank_state[fill_bank] = "CLEARING" /\ ~admit =>
              \A f \in Frames : mixed'[fill_bank][f] = IF f = clear_index THEN {}
                                                      ELSE mixed[fill_bank][f]
<1>1. /\ mixed \in [Pipe!Banks -> [Frames -> SUBSET (Voices \X Nat)]]
      /\ fill_bank \in Pipe!Banks /\ clear_index \in Frames
  BY PipeView
<1>2. mixed' = IF ~admit /\ bank_state[fill_bank] = "CLEARING"
               THEN [mixed EXCEPT ![fill_bank][clear_index] = {}] ELSE mixed
  BY DEF Pipe!BankCycle, Pipe!AccumulatorCycle
<1> QED
  BY <1>1, <1>2

(* A contribution adds its voice to its frame of the bank being filled. *)
LEMMA MixedContribution ==
  ASSUME ScanInv, NEW admit, NEW finish, NEW e \in engine, e.todo # {}, Pipe!FillReady,
         Pipe!BankCycle(admit, [voice |-> {e.voice}, frame |-> FirstFrame(e)], finish)
  PROVE  /\ \A b \in Pipe!Banks : b # fill_bank => mixed'[b] = mixed[b]
         /\ \A f \in Frames :
              mixed'[fill_bank][f] =
                IF f = FirstFrame(e)
                THEN mixed[fill_bank][f] \cup {<<e.voice, bank_start[fill_bank]>>}
                ELSE mixed[fill_bank][f]
<1>1. /\ mixed \in [Pipe!Banks -> [Frames -> SUBSET (Voices \X Nat)]] /\ fill_bank \in Pipe!Banks
  BY PipeView
<1>2. FirstFrame(e) \in Frames
  BY FirstFrameIn DEF ScanInv, RenderTypeOK
<1> DEFINE c == [voice |-> {e.voice}, frame |-> FirstFrame(e)]
<1>3. c # Pipe!NoContribution /\ c.frame = FirstFrame(e) /\ c.voice = {e.voice}
  BY DEF Pipe!NoContribution
<1>4. Pipe!Summand(c) = {<<e.voice, bank_start[fill_bank]>>}
  BY <1>3 DEF Pipe!Summand
<1>5. ~(~admit /\ bank_state[fill_bank] = "CLEARING")
  BY DEF Pipe!FillReady
<1> HIDE DEF c
<1>6. Pipe!BankCycle(admit, c, finish)
  BY DEF c
<1>7. mixed' = [mixed EXCEPT ![fill_bank][c.frame] = @ \cup Pipe!Summand(c)]
  BY <1>3, <1>5, <1>6 DEF Pipe!BankCycle, Pipe!AccumulatorCycle
<1> QED
  BY <1>1, <1>2, <1>3, <1>4, <1>7

SummedNext(b, f) == {s[1] : s \in mixed'[b][f]}
ToComeNext(f) == {e.voice : e \in {x \in engine' : f \in x.todo}}

(* The voice that the edge adds to frame f. *)
Adds(mixing, f) == {e.voice : e \in {x \in mixing : FirstFrame(x) = f}}

(* During a scan a frame sums what is offered for it, *)
LEMMA SummedStep ==
  ASSUME ScanInv, NEW mixing \in AtMostOne(engine), \A e \in mixing : Mixing(e),
         NEW admit, NEW finish, Pipe!BankCycle(admit, Contribution(mixing), finish),
         state_q \in Scanning \cup {"FINISH"}
  PROVE  /\ \A b \in Pipe!Banks : b # fill_bank => mixed'[b] = mixed[b]
         /\ \A f \in Frames : SummedNext(fill_bank, f) = Summed(fill_bank, f) \cup Adds(mixing, f)
<1>1. Pipe!FillReady /\ bank_state[fill_bank] # "CLEARING"
  BY FillBankState
<1>2. CASE mixing = {}
  <2>1. Pipe!BankCycle(admit, Pipe!NoContribution, finish)
    BY <1>2, ContributionIs
  <2>2. mixed' = mixed
    BY <1>1, <2>1, MixedUntouched
  <2> QED
    BY <1>2, <2>2 DEF SummedNext, Summed, Adds
<1>3. CASE mixing # {}
  <2>1. PICK e \in engine :
          mixing = {e} /\ Contribution(mixing) = [voice |-> {e.voice}, frame |-> FirstFrame(e)]
    BY <1>3, ContributionIs
  <2>2. e.todo # {}
    BY <2>1 DEF Mixing
  <2>3. Pipe!BankCycle(admit, [voice |-> {e.voice}, frame |-> FirstFrame(e)], finish)
    BY <2>1
  <2>4. /\ \A b \in Pipe!Banks : b # fill_bank => mixed'[b] = mixed[b]
        /\ \A f \in Frames :
             mixed'[fill_bank][f] =
               IF f = FirstFrame(e)
               THEN mixed[fill_bank][f] \cup {<<e.voice, bank_start[fill_bank]>>}
               ELSE mixed[fill_bank][f]
    BY <1>1, <2>2, <2>3, MixedContribution
  <2>5. ASSUME NEW f \in Frames
        PROVE  SummedNext(fill_bank, f) = Summed(fill_bank, f) \cup Adds(mixing, f)
    <3>1. CASE f = FirstFrame(e)
      <4>1. Adds(mixing, f) = {e.voice}
        BY <2>1, <3>1 DEF Adds
      <4> DEFINE p == <<e.voice, bank_start[fill_bank]>>
                 before == mixed[fill_bank][f]
                 after == mixed'[fill_bank][f]
      <4>2. after = before \cup {p}
        BY <2>4, <3>1
      <4>3. p[1] = e.voice
        OBVIOUS
      <4> HIDE DEF p, before, after
      <4>4. {s[1] : s \in after} = {s[1] : s \in before} \cup {e.voice}
        BY <4>2, <4>3
      <4> QED
        BY <4>1, <4>4 DEF SummedNext, Summed, before, after
    <3>2. CASE f # FirstFrame(e)
      <4>1. Adds(mixing, f) = {}
        BY <2>1, <3>2 DEF Adds
      <4>2. mixed'[fill_bank][f] = mixed[fill_bank][f]
        BY <2>4, <3>2
      <4> QED
        BY <4>1, <4>2 DEF SummedNext, Summed
    <3> QED
      BY <3>1, <3>2
  <2> QED
    BY <2>4, <2>5
<1> QED
  BY <1>2, <1>3

(* which is then no longer to come; the voice that ends has nothing left,  *)
(* and the voice that starts brings its frames.                            *)
LEMMA ToComeStep ==
  ASSUME ScanInv, NEW mixing \in AtMostOne(engine), NEW ending \in AtMostOne(engine), NEW room,
         EngineCycle(mixing, ending, room), NEW todo, EngineIs(mixing, ending, todo),
         NEW f \in Frames
  PROVE  /\ ToComeNext(f) = (ToCome(f) \ Adds(mixing, f))
                              \cup (IF f \in todo THEN {scan_voice_q} ELSE {})
         /\ Adds(mixing, f) \subseteq ToCome(f)
<1>1. FlightInv /\ RenderTypeOK
  BY DEF ScanInv
<1>2. mixing \subseteq engine
  BY DEF AtMostOne
<1>3. ASSUME NEW m \in mixing PROVE m \in engine /\ FirstFrame(m) \in m.todo /\ m \in Entry
  <2>1. m \in Entry /\ m.todo # {}
    BY <1>1, <1>2 DEF RenderTypeOK, EngineCycle, Mixing
  <2> QED
    BY <1>2, <2>1, FirstFrameIn
<1>4. Adds(mixing, f) \subseteq ToCome(f)
  BY <1>3 DEF Adds, ToCome
<1>5. ASSUME NEW e \in engine, NEW m \in mixing, e.voice = m.voice PROVE e = m
  BY <1>1, <1>2, <1>5 DEF FlightInv
<1>6. ASSUME NEW v \in ToComeNext(f)
      PROVE  v \in (ToCome(f) \ Adds(mixing, f)) \cup (IF f \in todo THEN {scan_voice_q} ELSE {})
  <2>1. PICK d \in engine' : f \in d.todo /\ v = d.voice
    BY DEF ToComeNext
  <2>2. CASE \E e \in engine \ ending : d = Left(e, mixing)
    <3>1. PICK e \in engine \ ending : d = Left(e, mixing)
      BY <2>2
    <3>2. /\ v = e.voice /\ f \in e.todo /\ (e \in mixing => f # FirstFrame(e))
      BY <2>1, <3>1 DEF Left
    <3>3. v \notin Adds(mixing, f)
      BY <1>5, <3>2 DEF Adds
    <3> QED
      BY <3>2, <3>3 DEF ToCome
  <2>3. CASE EngineStartFires /\ d.voice = scan_voice_q /\ d.todo = todo
    BY <2>1, <2>3
  <2> QED
    BY <2>2, <2>3, EngineEntries
<1>7. ASSUME NEW v \in ToCome(f), v \notin Adds(mixing, f) PROVE v \in ToComeNext(f)
  <2>1. PICK e \in engine : f \in e.todo /\ v = e.voice
    BY DEF ToCome
  <2>2. e \in mixing => f # FirstFrame(e)
    BY <1>7, <2>1 DEF Adds
  <2>3. e \notin ending
    <3> SUFFICES ASSUME e \in ending PROVE FALSE
      OBVIOUS
    <3>1. e.todo = {} \/ (e \in mixing /\ Cardinality(e.todo) = 1)
      BY DEF EngineCycle, Ending
    <3>2. e \in mixing /\ Cardinality(e.todo) = 1 /\ FirstFrame(e) \in e.todo
      BY <1>3, <2>1, <3>1
    <3>3. IsFiniteSet(e.todo)
      <4>1. IsFiniteSet(Frames)
        BY CoreNumbers, FS_Interval DEF Frames
      <4>2. e.todo \subseteq Frames
        BY <1>1 DEF RenderTypeOK, Entry
      <4> QED
        BY <4>1, <4>2, FS_Subset
    <3>4. PICK y : e.todo = {y}
      BY <3>2, <3>3, FS_Singleton
    <3> QED
      BY <2>1, <2>2, <3>2, <3>4
  <2>4. Left(e, mixing) \in engine'
    BY <2>3, EngineEntries
  <2>5. f \in Left(e, mixing).todo /\ Left(e, mixing).voice = v
    BY <2>1, <2>2 DEF Left
  <2> QED
    BY <2>4, <2>5 DEF ToComeNext
<1>8. ASSUME f \in todo PROVE scan_voice_q \in ToComeNext(f)
  <2>1. EngineStartFires
    BY <1>8 DEF EngineIs
  <2>2. Added(todo) \in engine'
    BY <2>1, EngineEntries
  <2>3. Added(todo).voice = scan_voice_q /\ Added(todo).todo = todo
    BY DEF Added
  <2> QED
    BY <1>8, <2>2, <2>3 DEF ToComeNext
<1> QED
  BY <1>4, <1>6, <1>7, <1>8

(* What is due changes in the bank being filled only: it is forgotten      *)
(* while the bank is cleared, and grows by the frames of the voice that    *)
(* starts.                                                                 *)
LEMMA DueNext ==
  ASSUME ScanInv, NEW mixing, NEW ending, NEW todo, EngineIs(mixing, ending, todo)
  PROVE  /\ \A b \in Pipe!Banks : b # fill_bank => due'[b] = due[b]
         /\ state_q = "WAIT_FILL" => \A f \in Frames : due'[fill_bank][f] = {}
         /\ state_q # "WAIT_FILL" => \A f \in Frames :
              due'[fill_bank][f] = due[fill_bank][f]
                                     \cup (IF f \in todo THEN {scan_voice_q} ELSE {})
         /\ state_q \notin Scanning => todo = {}
<1>1. due \in [Pipe!Banks -> [Frames -> SUBSET Voices]] /\ fill_bank \in Pipe!Banks
  BY PipeView DEF ScanInv, RenderTypeOK
<1>2. state_q \notin Scanning => todo = {}
  BY StartMeans DEF EngineIs, Scanning
<1> DEFINE next == IF state_q = "WAIT_FILL" THEN [f \in Frames |-> {}]
                   ELSE [f \in Frames |->
                           IF f \in todo THEN due[fill_bank][f] \cup {scan_voice_q}
                                         ELSE due[fill_bank][f]]
<1>3. due' = [due EXCEPT ![fill_bank] = next]
  BY DEF EngineIs
<1>4. /\ state_q = "WAIT_FILL" => \A f \in Frames : next[f] = {}
      /\ state_q # "WAIT_FILL" => \A f \in Frames :
           next[f] = due[fill_bank][f] \cup (IF f \in todo THEN {scan_voice_q} ELSE {})
  OBVIOUS
<1> HIDE DEF next
<1>5. due'[fill_bank] = next /\ \A b \in Pipe!Banks : b # fill_bank => due'[b] = due[b]
  BY <1>1, <1>3
<1> QED
  BY <1>2, <1>4, <1>5

(* A bank whose clear has ended is empty. *)
LEMMA ClearEnds ==
  ASSUME ScanInv, NEW room, ControllerCycle(room),
         NEW finish, finish => state_q = "FINISH",
         Pipe!BankCycle(Admit(room), Pipe!NoContribution, finish),
         state_q' = "WAIT_FILL", bank_state'[fill_bank'] = "FILLING"
  PROVE  \A f \in Frames : mixed'[fill_bank'][f] = {}
<1>1. fill_bank \in Pipe!Banks /\ clear_index \in Frames
  BY PipeView
<1>2. ~Admit(room) /\ fill_bank' = fill_bank
  <2>1. ASSUME Admit(room) PROVE FALSE
    <3>1. fill_bank' = Pipe!SelectedFreeBank /\ Pipe!SelectedFreeBank \in Pipe!Banks
      BY <2>1 DEF Pipe!BankCycle, Pipe!SelectedFreeBank, Pipe!Banks
    <3>2. ~finish
      BY <2>1, AdmitMeans
    <3> QED
      BY <2>1, <3>1, <3>2 DEF Pipe!BankCycle
  <2> QED
    BY <2>1 DEF Pipe!BankCycle
<1>3. state_q = "WAIT_FILL" /\ ~Pipe!FillReady
  BY <1>2, ControllerNext DEF ScanInv, RenderTypeOK, Scanning
<1>4. bank_state[fill_bank] = "CLEARING" /\ ~finish
  BY <1>3, FillBankState
<1>5. Pipe!LastClear
  <2>1. bank_state'[fill_bank] =
          IF Pipe!LastClear THEN "FILLING"
          ELSE IF Pipe!ReleaseFires /\ fill_bank = output_buffer_q THEN "FREE"
          ELSE IF complete_reg # Pipe!NoBank /\ Pipe!CompleteReady /\ fill_bank = complete_reg
               THEN "OWNED"
          ELSE "CLEARING"
    BY <1>1, <1>2, <1>4 DEF Pipe!BankCycle
  <2> QED
    BY <1>2, <2>1
<1>6. ASSUME NEW f \in Frames PROVE f = clear_index \/ f < clear_index
  BY <1>1, <1>5, CoreNumbers DEF Pipe!LastClear, Frames
<1> QED
  BY <1>2, <1>4, <1>6, MixedUntouched, FillBankState

(* A bank that is published or played after the edge was so before it, or  *)
(* is the one the controller finishes.                                     *)
LEMMA PublishedBefore ==
  ASSUME ScanInv, NEW admit, NEW contribution, NEW finish,
         Pipe!BankCycle(admit, contribution, finish), NEW b \in Pipe!Banks,
         bank_state'[b] \in {"PUBLISHED", "OWNED"}
  PROVE  (finish /\ b = fill_bank) \/ bank_state[b] \in {"PUBLISHED", "OWNED"}
<1>1. bank_state'[b] =
       IF finish /\ b = fill_bank THEN "PUBLISHED"
       ELSE IF admit /\ b = Pipe!SelectedFreeBank THEN "CLEARING"
       ELSE IF (~admit /\ bank_state[fill_bank] = "CLEARING" /\ Pipe!LastClear) /\ b = fill_bank
            THEN "FILLING"
       ELSE IF Pipe!ReleaseFires /\ b = output_buffer_q THEN "FREE"
       ELSE IF (complete_reg # Pipe!NoBank /\ Pipe!CompleteReady) /\ b = complete_reg THEN "OWNED"
       ELSE bank_state[b]
  BY DEF Pipe!BankCycle
<1>2. complete_reg = b => bank_state[b] = "PUBLISHED"
  BY FillBankState
<1> QED
  BY <1>1, <1>2

(* The mix of the block. *)
LEMMA MixKept ==
  ASSUME ScanInv, NEW flush, NEW push, NEW pop, NEW more, NEW room, NEW sample_ready,
         NEW mixing, NEW ending,
         EdgeOf(flush, push, pop, more, room, sample_ready, mixing, ending)
  PROVE  MixInv'
<1> DEFINE finish == state_q = "FINISH" /\ Pipe!FinishReady
<1>1. /\ ControllerCycle(room) /\ EngineCycle(mixing, ending, room)
      /\ mixing \in AtMostOne(engine) /\ ending \in AtMostOne(engine)
      /\ Pipe!BankCycle(Admit(room), Contribution(mixing), finish)
      /\ \A e \in mixing : Mixing(e)
  BY DEF EdgeOf, Cycle, EngineCycle
<1>2. MixInv /\ RenderTypeOK /\ FlightInv
  BY DEF ScanInv
<1>3. PICK todo : EngineIs(mixing, ending, todo)
  BY <1>1, EngineNext
<1>4. fill_bank \in Pipe!Banks /\ mixed \in [Pipe!Banks -> [Frames -> SUBSET (Voices \X Nat)]]
  BY PipeView
<1>5. state_q # "IDLE" => ~Admit(room) /\ fill_bank' = fill_bank
  BY <1>1, AdmitMeans DEF Pipe!BankCycle
<1>6. ASSUME state_q \notin Scanning
      PROVE  /\ engine = {} /\ engine' = {} /\ mixing = {}
             /\ Pipe!BankCycle(Admit(room), Pipe!NoContribution, finish)
  <2>1. engine = {} /\ result_q = NoResult /\ state_q # "DISPATCH_STATE"
    BY <1>2, <1>6, NothingInFlight DEF RenderTypeOK, Scanning
  <2>2. engine' = {} /\ mixing = {}
    BY <2>1, EngineStaysEmpty
  <2> QED
    BY <1>1, <2>1, <2>2, ContributionIs
<1>7. state_q' = "WAIT_FILL" => state_q \in {"IDLE", "WAIT_FILL"}
  BY <1>1, <1>2, ControllerNext DEF RenderTypeOK, Scanning
<1>8. state_q' = "WAIT_FILL" /\ bank_state'[fill_bank'] = "FILLING" =>
        \A f \in Frames : mixed'[fill_bank'][f] = {}
  <2> SUFFICES ASSUME state_q' = "WAIT_FILL", bank_state'[fill_bank'] = "FILLING"
               PROVE  \A f \in Frames : mixed'[fill_bank'][f] = {}
    OBVIOUS
  <2>1. Pipe!BankCycle(Admit(room), Pipe!NoContribution, finish)
    BY <1>6, <1>7 DEF Scanning
  <2>2. finish => state_q = "FINISH"
    OBVIOUS
  <2> HIDE DEF finish
  <2> QED
    BY <1>1, <2>1, <2>2, ClearEnds
<1>9. ASSUME state_q \in Scanning, NEW f \in Frames
      PROVE  /\ due'[fill_bank][f] = SummedNext(fill_bank, f) \cup ToComeNext(f)
             /\ SummedNext(fill_bank, f) \cap ToComeNext(f) = {}
             /\ \A v \in SummedNext(fill_bank, f) : PassedNext(v)
  <2> DEFINE new == IF f \in todo THEN {scan_voice_q} ELSE {}
  <2>1. SummedNext(fill_bank, f) = Summed(fill_bank, f) \cup Adds(mixing, f)
    BY <1>1, <1>9, SummedStep
  <2>2. /\ ToComeNext(f) = (ToCome(f) \ Adds(mixing, f)) \cup new
        /\ Adds(mixing, f) \subseteq ToCome(f)
    BY <1>1, <1>3, ToComeStep
  <2>3. due'[fill_bank][f] = due[fill_bank][f] \cup new
    BY <1>3, <1>9, DueNext DEF Scanning
  <2>4. /\ due[fill_bank][f] = Summed(fill_bank, f) \cup ToCome(f)
        /\ Summed(fill_bank, f) \cap ToCome(f) = {}
        /\ \A v \in Summed(fill_bank, f) : Passed(v)
    BY <1>2, <1>9 DEF MixInv
  <2>5. \A v \in ToCome(f) : Passed(v) /\ v \in Voices
    BY <1>2 DEF FlightInv, RenderTypeOK, Entry, ToCome
  <2>6. \A v \in Summed(fill_bank, f) : v \in Voices
    <3>1. mixed[fill_bank][f] \subseteq Voices \X Nat
      BY <1>4
    <3> QED
      BY <3>1 DEF Summed
  <2>7. \A v \in SummedNext(fill_bank, f) : Passed(v) /\ v \in Voices
    BY <2>1, <2>2, <2>4, <2>5, <2>6
  <2>8. \A v \in new : ~Passed(v)
    <3>1. f \in todo => EngineStartFires
      BY <1>3 DEF EngineIs
    <3>2. EngineStartFires => ~Passed(scan_voice_q)
      BY <1>2, StartMeans, CoreNumbers DEF Passed, RenderTypeOK
    <3> QED
      BY <3>1, <3>2
  <2> HIDE DEF new
  <2>9. \A v \in SummedNext(fill_bank, f) : PassedNext(v)
    BY <1>1, <1>9, <2>7, PassedKept
  <2> QED
    BY <2>1, <2>2, <2>3, <2>4, <2>7, <2>8, <2>9
<1>10. ASSUME state_q = "FINISH"
       PROVE  /\ mixed' = mixed
              /\ \A f \in Frames :
                   /\ due'[fill_bank][f] = due[fill_bank][f]
                   /\ due[fill_bank][f] = Summed(fill_bank, f) /\ ToComeNext(f) = {}
                   /\ SummedNext(fill_bank, f) = Summed(fill_bank, f)
  <2>1. engine = {} /\ engine' = {} /\ Pipe!BankCycle(Admit(room), Pipe!NoContribution, finish)
        /\ state_q \notin Scanning
    BY <1>6, <1>10 DEF Scanning
  <2>2. bank_state[fill_bank] # "CLEARING"
    BY <1>10, FillBankState
  <2> HIDE DEF finish
  <2>3. mixed' = mixed
    BY <2>1, <2>2, MixedUntouched
  <2>4. ASSUME NEW f \in Frames PROVE due'[fill_bank][f] = due[fill_bank][f]
    BY <1>3, <1>10, <2>1, DueNext
  <2>5. ASSUME NEW f \in Frames
        PROVE  /\ due[fill_bank][f] = Summed(fill_bank, f) /\ ToComeNext(f) = {}
               /\ SummedNext(fill_bank, f) = Summed(fill_bank, f)
    BY <1>2, <1>10, <2>1, <2>3 DEF MixInv, ToCome, ToComeNext, Summed, SummedNext
  <2> QED
    BY <2>3, <2>4, <2>5
<1>11. ASSUME state_q = "WAIT_FILL", Pipe!FillReady, NEW f \in Frames
       PROVE  due'[fill_bank][f] = {} /\ SummedNext(fill_bank, f) = {} /\ ToComeNext(f) = {}
  <2>1. engine' = {} /\ Pipe!BankCycle(Admit(room), Pipe!NoContribution, finish)
    BY <1>6, <1>11 DEF Scanning
  <2>2. bank_state[fill_bank] # "CLEARING"
    BY <1>11, FillBankState
  <2> HIDE DEF finish
  <2>3. mixed' = mixed
    BY <2>1, <2>2, MixedUntouched
  <2>4. mixed[fill_bank][f] = {}
    BY <1>2, <1>11 DEF MixInv
  <2>5. due'[fill_bank][f] = {}
    BY <1>3, <1>11, DueNext
  <2> QED
    BY <2>1, <2>3, <2>4, <2>5 DEF SummedNext, ToComeNext
<1>12. state_q' \in Scanning \cup {"FINISH"} =>
         /\ fill_bank' = fill_bank
         /\ \/ state_q = "WAIT_FILL" /\ Pipe!FillReady /\ state_q' \in Scanning
            \/ state_q \in Scanning
            \/ state_q = "FINISH" /\ state_q' = "FINISH"
  BY <1>1, <1>2, <1>5, ControllerNext DEF RenderTypeOK, Scanning
<1>13. state_q' \in Scanning \cup {"FINISH"} =>
         \A f \in Frames : due'[fill_bank'][f] = SummedNext(fill_bank', f) \cup ToComeNext(f)
  BY <1>9, <1>10, <1>11, <1>12
<1>14. state_q' \in Scanning => \A f \in Frames :
         /\ SummedNext(fill_bank', f) \cap ToComeNext(f) = {}
         /\ \A v \in SummedNext(fill_bank', f) : PassedNext(v)
  <2>1. "FINISH" \notin Scanning
    BY DEF Scanning
  <2> QED
    BY <1>9, <1>11, <1>12, <2>1
<1>15. ASSUME NEW b \in Pipe!Banks, bank_state'[b] \in {"PUBLISHED", "OWNED"}, NEW f \in Frames
       PROVE  SummedNext(b, f) = due'[b][f]
  <2>1. CASE finish /\ b = fill_bank
    BY <1>10, <2>1
  <2>2. CASE bank_state[b] \in {"PUBLISHED", "OWNED"}
    <3>1. Summed(b, f) = due[b][f]
      BY <1>2, <2>2 DEF MixInv, BlockIsComplete, Summed
    <3>2. CASE state_q = "IDLE"
      <4>1. bank_state[fill_bank] # "CLEARING" /\ state_q \notin Scanning
        BY <3>2, FillBankState DEF Scanning
      <4>2. Pipe!BankCycle(Admit(room), Pipe!NoContribution, finish)
        BY <1>6, <4>1
      <4>3. mixed' = mixed
        <5> HIDE DEF finish
        <5> QED
          BY <4>1, <4>2, MixedUntouched
      <4>4. due'[b][f] = due[b][f]
        BY <1>3, <3>2, <4>1, DueNext
      <4> QED
        BY <3>1, <4>3, <4>4 DEF Summed, SummedNext
    <3>3. CASE state_q # "IDLE"
      <4>1. b # fill_bank
        BY <1>2, <2>2, <3>3, FillBankState DEF RenderTypeOK, Scanning
      <4>2. due'[b] = due[b]
        BY <1>3, <4>1, DueNext
      <4>3. mixed'[b] = mixed[b]
        <5>1. CASE state_q \in Scanning
          <6> HIDE DEF finish
          <6> QED
            BY <1>1, <4>1, <5>1, SummedStep
        <5>2. CASE state_q \notin Scanning
          <6>1. Pipe!BankCycle(Admit(room), Pipe!NoContribution, finish)
            BY <1>6, <5>2
          <6> HIDE DEF finish
          <6> QED
            BY <4>1, <6>1, MixedUntouched
        <5> QED
          BY <5>1, <5>2
      <4> QED
        BY <3>1, <4>2, <4>3 DEF Summed, SummedNext
    <3> QED
      BY <3>2, <3>3
  <2>3. (finish /\ b = fill_bank) \/ bank_state[b] \in {"PUBLISHED", "OWNED"}
    <3> HIDE DEF finish
    <3> QED
      BY <1>1, <1>15, PublishedBefore
  <2> QED
    BY <2>1, <2>2, <2>3
<1>16. BlockIsComplete'
  BY <1>15 DEF BlockIsComplete, SummedNext, Pipe!Banks, Frames
<1> QED
  BY <1>8, <1>13, <1>14, <1>16
  DEF MixInv, Summed, SummedNext, ToCome, ToComeNext, Passed, PassedNext, Pipe!FillReady, Frames

-----------------------------------------------------------------------------
(* Every step keeps the invariant. *)

(* With the core's registers at their reset values. *)
Quiet ==
  /\ control_state_q = "IDLE" /\ control_event_done_pulse = FALSE /\ check_state_q = "IDLE"
  /\ parser_state_q = "READ_HEADER"
  /\ snapshot_capture_q = NoVoice /\ read_rsp_q = NoSnapshot /\ pending_state_q = NoState
  /\ state_q = "IDLE" /\ outstanding_voices_q = 0 /\ engine = {} /\ result_q = NoResult
  /\ \A b \in Pipe!Banks : bank_state[b] = "FREE"

(* Then there is nothing in flight to speak of. *)
LEMMA QuietInv ==
  ASSUME Quiet
  PROVE  PhaseInv /\ SnapshotInv /\ FlightInv /\ OutstandingInv /\ MixInv
<1> USE DEF Quiet
<1>1. PhaseInv
  BY DEF PhaseInv, WaitsForOwnEvent, Scanning
<1>2. SnapshotInv
  BY DEF SnapshotInv
<1>3. FlightInv
  BY EmptyValues DEF FlightInv
<1>4. OutstandingInv
  <2>1. Rendered = {}
    BY DEF Rendered
  <2>2. Cardinality({}) = 0
    BY FS_EmptySet
  <2> QED
    BY <2>1, <2>2 DEF OutstandingInv
<1>5. MixInv
  BY DEF MixInv, BlockIsComplete, Scanning
<1> QED
  BY <1>1, <1>2, <1>3, <1>4, <1>5

(* The same of the next state. *)
LEMMA QuietInvNext ==
  Quiet' => (PhaseInv /\ SnapshotInv /\ FlightInv /\ OutstandingInv /\ MixInv)'
<1>1. Quiet => PhaseInv /\ SnapshotInv /\ FlightInv /\ OutstandingInv /\ MixInv
  BY QuietInv
<1> QED
  BY <1>1, PTL

(* The core starts where the pipeline starts. *)
LEMMA InitRefines == Init => Pipe!Init
BY DEF Init, Pipe!Init, RenderState

(* In the initial state the invariant holds. *)
LEMMA InitScanInv == Init => ScanInv
<1> SUFFICES ASSUME Init PROVE ScanInv
  OBVIOUS
<1>1. PP!PipeInv
  BY InitRefines, SameInit, PP!InitInv, CoreNumbers
<1>2. CommandTypeOK
  BY EmptyValues, CoreNumbers DEF Init, CommandTypeOK
<1>3. StoreTypeOK
  BY EmptyValues, CoreNumbers DEF Init, StoreTypeOK, Silent
<1>4. RenderTypeOK
  BY EmptyValues, CoreNumbers DEF Init, RenderTypeOK
<1>5. Quiet
  BY DEF Quiet, Init, Pipe!PipeInit
<1> QED
  BY <1>1, <1>2, <1>3, <1>4, <1>5, QuietInv DEF ScanInv

(* A session reset is a reset of the pipeline. *)
LEMMA ResetRefines == SessionReset => Pipe!Reset
BY DEF SessionReset, Pipe!Reset, RenderState

(* A session reset leaves nothing in flight. *)
LEMMA ResetScanInv ==
  ASSUME ScanInv, SessionReset
  PROVE  ScanInv'
<1>1. PP!PipeInv'
  BY ResetRefines, SameReset, PP!ResetInv, CoreNumbers DEF ScanInv
<1>2. CommandTypeOK'
  BY EmptyValues, CoreNumbers DEF SessionReset, CommandTypeOK
<1>3. StoreTypeOK'
  BY EmptyValues, CoreNumbers DEF ScanInv, SessionReset, StoreTypeOK
<1>4. RenderTypeOK'
  BY EmptyValues, CoreNumbers DEF ScanInv, SessionReset, RenderTypeOK
<1>5. Quiet'
  BY DEF Quiet, SessionReset, Pipe!CoreReset, NoSnapshot, NoResult
<1>6. (PhaseInv /\ SnapshotInv /\ FlightInv /\ OutstandingInv /\ MixInv)'
  BY <1>5, QuietInvNext
<1> QED
  BY <1>1, <1>2, <1>3, <1>4, <1>6 DEF ScanInv

(* A step that changes nothing. *)
LEMMA StutterScanInv ==
  ASSUME ScanInv, UNCHANGED coreVars
  PROVE  ScanInv'
<1> USE DEF coreVars, commandVars, storeVars, renderVars, pipelineVars, historyVars
<1>1. UNCHANGED RenderState
  BY DEF RenderState
<1>2. PP!PipeInv'
  <2>1. UNCHANGED PP!pipeVars
    BY <1>1 DEF PP!pipeVars, PP!bankVars, PP!outputVars
  <2> QED
    BY <2>1, PP!StutterInv, CoreNumbers DEF ScanInv
<1>3. CommandTypeOK' /\ StoreTypeOK' /\ RenderTypeOK'
  BY DEF ScanInv, CommandTypeOK, StoreTypeOK, RenderTypeOK
<1>4. PhaseInv'
  BY DEF ScanInv, PhaseInv, WaitsForOwnEvent
<1>5. SnapshotInv'
  BY DEF ScanInv, SnapshotInv, StoreRead, NoSnapshot
<1>6. FlightInv'
  BY DEF ScanInv, FlightInv, Current, Passed, Rendered, StoreRead, NoResult
<1>7. OutstandingInv'
  BY DEF ScanInv, OutstandingInv, Rendered, NoResult
<1>8. MixInv'
  BY DEF ScanInv, MixInv, Summed, ToCome, Passed, BlockIsComplete, Pipe!FillReady
<1> QED
  BY <1>2, <1>3, <1>4, <1>5, <1>6, <1>7, <1>8 DEF ScanInv

(* The inputs of a clock edge. *)
LEMMA EdgeInputs ==
  ASSUME ClockEdge
  PROVE  \E flush, push, pop, more, room, sample_ready, mixing, ending :
           EdgeOf(flush, push, pop, more, room, sample_ready, mixing, ending)
BY DEF ClockEdge, EdgeOf

(* A clock edge. *)
LEMMA EdgeScanInv ==
  ASSUME ScanInv, ClockEdge
  PROVE  ScanInv' /\ Pipe!ClockEdge
<1>1. PICK flush, push, pop, more, room, sample_ready, mixing, ending :
        EdgeOf(flush, push, pop, more, room, sample_ready, mixing, ending)
  BY EdgeInputs
<1>2. Pipe!ClockEdge
  BY <1>1, EdgeRefines
<1>3. PP!PipeInv'
  BY <1>2, PipeInvKept DEF ScanInv
<1>4. CommandTypeOK' /\ StoreTypeOK' /\ RenderTypeOK'
  BY <1>1, CommandTypeKept, StoreTypeKept, RenderTypeKept DEF ScanInv
<1>5. PhaseInv' /\ SnapshotInv'
  BY <1>1, PhaseKept, SnapshotKept
<1>6. FlightInv' /\ OutstandingInv' /\ MixInv'
  BY <1>1, FlightKept, OutstandingKept, MixKept
<1> QED
  BY <1>2, <1>3, <1>4, <1>5, <1>6 DEF ScanInv

(* The inductive invariant of the scan holds always: the core's own        *)
(* registers together with the banks it fills.                             *)
THEOREM CoreInvariant == CoreSpec => []ScanInv
<1>1. ScanInv /\ [Next]_coreVars => ScanInv'
  BY EdgeScanInv, ResetScanInv, StutterScanInv DEF Next
<1> QED
  BY InitScanInv, <1>1, PTL DEF CoreSpec

(* For every number of voices, every block length and every stream of      *)
(* commands, flushes and session resets: no control event is applied       *)
(* during a scan, each client of the store's one read register finds its   *)
(* own voice in it, the parser's wait is for its own event, a result finds *)
(* the generation it was rendered from, and a block is published with      *)
(* every frame of every voice in the mix.                                  *)
THEOREM BlockSeesOneState == CoreSpec => []ScanUndisturbed
<1>1. ASSUME ScanInv PROVE ScanUndisturbed
  <2>1. ScanSeesSettledState
    BY <1>1, NothingInFlight DEF ScanSeesSettledState, ScanInv, PhaseInv
  <2>2. ReadRegisterOwned
    BY <1>1 DEF ReadRegisterOwned, ScanInv, FlightInv, SnapshotInv, StoreRead
  <2>3. WriteBackIsCurrent
    BY <1>1, CheckMeans DEF WriteBackIsCurrent
  <2> QED
    BY <1>1, <2>1, <2>2, <2>3 DEF ScanUndisturbed, ScanInv, PhaseInv, MixInv
<1> QED
  BY CoreInvariant, <1>1, PTL

(* The core drives the mix buffer the way BlockPipeline's renderer does:   *)
(* every clock edge and every session reset of the core is one of the      *)
(* abstract pipeline, with the controller's states mapped to the           *)
(* renderer's.                                                             *)
THEOREM CoreImplementsPipeline == CoreSpec => ImplementsPipeline
<1>1. ScanInv /\ [Next]_coreVars => [Pipe!Next]_(Pipe!pipeVars)
  <2> SUFFICES ASSUME ScanInv, [Next]_coreVars PROVE [Pipe!Next]_(Pipe!pipeVars)
    OBVIOUS
  <2>1. CASE ClockEdge
    BY <2>1, EdgeScanInv DEF Pipe!Next
  <2>2. CASE SessionReset
    BY <2>2, ResetRefines DEF Pipe!Next
  <2>3. CASE UNCHANGED coreVars
    <3>1. UNCHANGED RenderState
      BY <2>3 DEF RenderState, coreVars, renderVars
    <3> QED
      BY <2>3, <3>1 DEF coreVars, pipelineVars, Pipe!pipeVars, Pipe!bankVars, Pipe!outputVars
  <2> QED
    BY <2>1, <2>2, <2>3 DEF Next
<1> QED
  BY InitRefines, CoreInvariant, <1>1, PTL DEF CoreSpec, ImplementsPipeline, Pipe!Spec

(* The timeline of the core: the two banks carry it in order, with the     *)
(* core itself as the renderer.                                            *)
THEOREM CorePlaysInOrder == CoreSpec => []Pipe!BanksInOrder
<1>1. ASSUME ScanInv PROVE Pipe!BanksInOrder
  BY <1>1 DEF ScanInv, PP!PipeInv, PP!BanksInOrder, Pipe!BanksInOrder,
      PP!TimelineInOrder, Pipe!TimelineInOrder, PP!NoResidue, Pipe!NoResidue,
      PP!BankOwnership, Pipe!BankOwnership, PP!FillReady, Pipe!FillReady,
      PP!Banks, Pipe!Banks, PP!Frames, Pipe!Frames, PP!NoBank, Pipe!NoBank
<1> QED
  BY CoreInvariant, <1>1, PTL

-----------------------------------------------------------------------------
(* Generations. *)

(* Where entry i of the command FIFO comes from: what it held moves up by  *)
(* one when its head is popped, and what is pushed comes last.             *)
FifoEntry(push, pop, i) ==
  \/ /\ i + (IF pop THEN 1 ELSE 0) \in 1 .. Len(fifo)
     /\ fifo'[i] = fifo[i + (IF pop THEN 1 ELSE 0)]
  \/ push # NoCommand /\ fifo'[i] = push /\ i = Len(fifo')

(* An edge of the command FIFO. *)
LEMMA FifoNext ==
  ASSUME CommandTypeOK, NEW flush, NEW push \in Command, NEW pop, pop => fifo # << >>,
         FifoCycle(flush, push, pop), NEW i \in 1 .. Len(fifo')
  PROVE  FifoEntry(push, pop, i)
<1> DEFINE kept == IF pop THEN Tail(fifo) ELSE fifo
           new == IF push = NoCommand THEN << >> ELSE <<push>>
           shift == IF pop THEN 1 ELSE 0
<1>1. fifo \in Seq(Command)
  BY DEF CommandTypeOK
<1>2. ~flush
  <2> SUFFICES ASSUME flush PROVE FALSE
    OBVIOUS
  <2>1. fifo' = << >>
    BY DEF FifoCycle
  <2>2. Len(<< >>) = 0
    OBVIOUS
  <2> QED
    BY <2>1, <2>2
<1>3. fifo' = kept \o new
  BY <1>2 DEF FifoCycle
<1>4. /\ kept \in Seq(Command) /\ Len(kept) = Len(fifo) - shift
      /\ \A j \in 1 .. Len(kept) : kept[j] = fifo[j + shift] /\ j + shift \in 1 .. Len(fifo)
  BY <1>1
<1>5. /\ new \in Seq(Command) /\ (push = NoCommand => Len(new) = 0)
      /\ (push # NoCommand => Len(new) = 1 /\ new[1] = push)
  BY EmptyValues
<1> HIDE DEF kept, new, shift
<1>6. /\ Len(kept \o new) = Len(kept) + Len(new)
      /\ \A j \in 1 .. Len(kept) + Len(new) :
           (kept \o new)[j] = IF j <= Len(kept) THEN kept[j] ELSE new[j - Len(kept)]
  BY <1>4, <1>5, ST!ConcatProperties
<1>7. Len(kept) \in Nat /\ Len(new) \in Nat /\ i \in 1 .. Len(kept) + Len(new)
  BY <1>3, <1>4, <1>5, <1>6
<1>8. CASE i \in 1 .. Len(kept)
  BY <1>3, <1>4, <1>6, <1>7, <1>8 DEF shift, FifoEntry
<1>9. CASE i \notin 1 .. Len(kept)
  <2>0. Len(new) # 0 /\ (Len(new) = 1 => i = Len(kept) + 1)
    <3>1. ASSUME NEW k \in Nat, NEW n \in Nat, i \in 1 .. k + n, i \notin 1 .. k
          PROVE  n # 0 /\ (n = 1 => i = k + 1)
      BY <3>1
    <3> QED
      BY <1>7, <1>9, <3>1
  <2>1. push # NoCommand /\ i = Len(kept) + 1 /\ Len(new) = 1
    BY <1>5, <2>0
  <2>2. fifo'[i] = new[1] /\ i = Len(fifo')
    BY <1>3, <1>6, <1>7, <2>1
  <2> QED
    BY <1>5, <2>1, <2>2 DEF FifoEntry
<1> QED
  BY <1>8, <1>9

(* The generations that sound. *)
Live == {<<v, dynamic_mem[v].generation>> : v \in voice_valid_q}
LiveNext == {<<v, dynamic_mem'[v].generation>> : v \in voice_valid_q'}

(* A START replaces what the slot holds. *)
Installs ==
  /\ command_q.op = "START"
  /\ voice_valid_q' = voice_valid_q \cup {command_q.voice}
  /\ dynamic_mem' = [dynamic_mem EXCEPT ![command_q.voice] =
                       [active |-> TRUE, generation |-> command_q.generation]]
  /\ completion_event' = NoCompletion

(* Voice v ends and is reported. *)
Retires(v) ==
  /\ voice_valid_q' = voice_valid_q \ {v}
  /\ \A u \in voice_valid_q : u # v => dynamic_mem'[u] = dynamic_mem[u]
  /\ completion_event' = [voice |-> v, generation |-> dynamic_mem[v].generation]

(* Nothing begins or ends. *)
Sounds ==
  /\ voice_valid_q' = voice_valid_q
  /\ \A u \in voice_valid_q : dynamic_mem'[u] = dynamic_mem[u]
  /\ completion_event' = NoCompletion

(* A record of the store from its fields. *)
LEMMA StateOfFields ==
  ASSUME StoreTypeOK, NEW v \in Voices, dynamic_mem[v].active
  PROVE  dynamic_mem[v] = [active |-> TRUE, generation |-> dynamic_mem[v].generation]
<1>1. dynamic_mem[v] \in [active : BOOLEAN, generation : Nat]
  BY DEF StoreTypeOK
<1>2. dynamic_mem[v].active = TRUE
  BY <1>1
<1> QED
  BY <1>1, <1>2

(* What an edge does to the generations in the store. *)
LEMMA StoreOutcome ==
  ASSUME ScanInv, EventInv, FreshInv, NEW room, NEW flush, WritePort(InstallFires(flush, room)),
         CompletionPort(InstallFires(flush, room))
  PROVE  \/ InstallFires(flush, room) /\ Installs
         \/ ~InstallFires(flush, room) /\ ((\E v \in voice_valid_q : Retires(v)) \/ Sounds)
<1> DEFINE install == InstallFires(flush, room)
<1>1. StoreTypeOK /\ CommandTypeOK /\ FlightInv
  BY DEF ScanInv
<1>2. /\ dynamic_mem \in [Voices -> [active : BOOLEAN, generation : Nat]]
      /\ voice_valid_q \subseteq Voices
      /\ command_q.voice \in Voices /\ control_event_q.voice \in Voices
  BY <1>1 DEF StoreTypeOK, CommandTypeOK, Command
<1>3. install => control_state_q = "IDLE" /\ check_state_q = "IDLE" /\ command_q.op = "START"
  BY StoreIdleMeans DEF InstallFires, FreshInv
<1>4. control_state_q # "IDLE" => check_state_q = "IDLE"
  BY NothingInFlight
<1>5. CASE install
  <2>1. ~ControlApplies /\ ~CheckApplies /\ ~ControlEnds /\ ~CheckEnds
    BY <1>3, <1>5 DEF ControlApplies, CheckApplies, ControlEnds, CheckEnds
  <2>2. voice_valid_q' = voice_valid_q \cup {command_q.voice}
    BY <1>2, <1>5, <2>1 DEF CompletionPort
  <2>3. completion_event' = NoCompletion
    BY <2>1 DEF CompletionPort, NextCompletion
  <2> QED
    BY <1>3, <1>5, <2>2, <2>3 DEF Installs, WritePort
<1>6. CASE ~install /\ ControlApplies
  <2> DEFINE v == control_event_q.voice
  <2>1. control_q = StoreRead(v) /\ v \in voice_valid_q /\ control_q.active
        /\ check_state_q = "IDLE"
    BY <1>1, <1>4, <1>6 DEF ControlApplies, GenerationMatch, FlightInv
  <2>2. control_q.generation = dynamic_mem[v].generation /\ dynamic_mem[v].active
    BY <1>1, <1>2, <2>1, StoreReadType
  <2>3. ~CheckApplies /\ ~CheckEnds
    BY <2>1 DEF CheckApplies, CheckEnds
  <2>4. CASE control_event_q.op \in {"STOP", "RELEASE_NOW"}
    <3>1. ControlEnds
      BY <1>6, <2>4 DEF ControlEnds
    <3>2. voice_valid_q' = voice_valid_q \ {v}
      BY <1>2, <1>6, <2>3, <3>1 DEF CompletionPort
    <3>3. completion_event' = [voice |-> v, generation |-> dynamic_mem[v].generation]
      BY <2>2, <2>3, <3>1 DEF CompletionPort, NextCompletion
    <3>4. \E x : dynamic_mem' = [dynamic_mem EXCEPT ![v] = x]
      BY <1>6, <2>4 DEF WritePort
    <3>5. \A u \in voice_valid_q : u # v => dynamic_mem'[u] = dynamic_mem[u]
      BY <1>2, <3>4
    <3> QED
      BY <1>6, <2>1, <3>2, <3>3, <3>5 DEF Retires
  <2>5. CASE control_event_q.op \notin {"STOP", "RELEASE_NOW"}
    <3>1. ~ControlEnds
      BY <2>5 DEF ControlEnds
    <3>2. voice_valid_q' = voice_valid_q /\ completion_event' = NoCompletion
      BY <1>6, <2>3, <3>1 DEF CompletionPort, NextCompletion
    <3>3. CASE control_event_q.op # "RELEASE"
      <4>1. control_event_q.op = "UPDATE"
        BY <1>6, <2>5, <3>3 DEF EventInv, VoiceEvents, ControlApplies
      <4> QED
        BY <1>6, <3>2, <4>1 DEF WritePort, Sounds
    <3>4. CASE control_event_q.op = "RELEASE"
      <4>1. dynamic_mem' = [dynamic_mem EXCEPT ![v] =
                              [active |-> TRUE, generation |-> dynamic_mem[v].generation]]
        BY <1>6, <2>2, <3>4 DEF WritePort
      <4>2. dynamic_mem[v] = [active |-> TRUE, generation |-> dynamic_mem[v].generation]
        BY <1>1, <1>2, <2>2, StateOfFields
      <4>3. \A u \in voice_valid_q : dynamic_mem'[u] = dynamic_mem[u]
        BY <1>2, <4>1, <4>2
      <4> QED
        BY <1>6, <3>2, <4>3 DEF Sounds
    <3> QED
      BY <3>3, <3>4
  <2> QED
    BY <2>4, <2>5
<1>7. CASE ~install /\ ~ControlApplies /\ CheckApplies
  <2> DEFINE v == check_q.voice
  <2>1. /\ v \in voice_valid_q /\ dynamic_mem[v].active
        /\ dynamic_mem[v].generation = check_q.generation
    BY <1>1, <1>7 DEF CheckApplies, FlightInv, Current
  <2>2. ~ControlEnds
    BY <1>7 DEF ControlEnds
  <2>3. dynamic_mem' = [dynamic_mem EXCEPT ![v] =
                          [active |-> check_q.active, generation |-> check_q.generation]]
    BY <1>7 DEF WritePort
  <2>4. CASE ~check_q.active
    <3>1. CheckEnds
      BY <1>7, <2>4 DEF CheckEnds
    <3>2. voice_valid_q' = voice_valid_q \ {v}
      BY <1>2, <1>7, <2>1, <2>2, <3>1 DEF CompletionPort
    <3>3. completion_event' = [voice |-> v, generation |-> dynamic_mem[v].generation]
      BY <2>1, <3>1 DEF CompletionPort, NextCompletion
    <3>4. \A u \in voice_valid_q : u # v => dynamic_mem'[u] = dynamic_mem[u]
      BY <1>2, <2>3
    <3> QED
      BY <1>7, <2>1, <3>2, <3>3, <3>4 DEF Retires
  <2>5. CASE check_q.active
    <3>1. ~CheckEnds
      BY <2>5 DEF CheckEnds
    <3>2. voice_valid_q' = voice_valid_q /\ completion_event' = NoCompletion
      BY <1>7, <2>2, <3>1 DEF CompletionPort, NextCompletion
    <3>3. check_q.active = TRUE
      BY <1>1, <2>5 DEF StoreTypeOK, VoiceState
    <3>4. dynamic_mem[v] = [active |-> TRUE, generation |-> check_q.generation]
      BY <1>1, <1>2, <2>1, StateOfFields
    <3>5. \A u \in voice_valid_q : dynamic_mem'[u] = dynamic_mem[u]
      BY <1>2, <2>3, <3>3, <3>4
    <3> QED
      BY <1>7, <3>2, <3>5 DEF Sounds
  <2> QED
    BY <2>4, <2>5
<1>8. CASE ~install /\ ~ControlApplies /\ ~CheckApplies
  <2>1. ~ControlEnds /\ ~CheckEnds
    BY <1>8 DEF ControlEnds, CheckEnds
  <2>2. voice_valid_q' = voice_valid_q /\ completion_event' = NoCompletion
    BY <1>8, <2>1 DEF CompletionPort, NextCompletion
  <2> QED
    BY <1>8, <2>2 DEF WritePort, Sounds
<1> QED
  BY <1>5, <1>6, <1>7, <1>8

AnnouncedOf(c) == {p \in Voices \X Generations : c = [voice |-> p[1], generation |-> p[2]]}

(* The completion port announces one generation, or none. *)
LEMMA AnnouncedIs ==
  /\ AnnouncedOf(NoCompletion) = {}
  /\ \A v \in Voices, g \in Generations :
       AnnouncedOf([voice |-> v, generation |-> g]) = {<<v, g>>}
<1>1. ASSUME NEW p \in AnnouncedOf(NoCompletion) PROVE FALSE
  <2>1. p[1] \in Voices /\ NoCompletion = [voice |-> p[1], generation |-> p[2]]
    BY DEF AnnouncedOf
  <2>2. NoCompletion.voice = NoVoice
    BY DEF NoCompletion
  <2> QED
    BY <2>1, <2>2, CoreNumbers
<1>2. ASSUME NEW v \in Voices, NEW g \in Generations
      PROVE  AnnouncedOf([voice |-> v, generation |-> g]) = {<<v, g>>}
  <2> DEFINE c == [voice |-> v, generation |-> g]
  <2>1. <<v, g>> \in AnnouncedOf(c)
    BY DEF AnnouncedOf
  <2>2. ASSUME NEW p \in AnnouncedOf(c) PROVE p = <<v, g>>
    <3>1. p \in Voices \X Generations /\ c = [voice |-> p[1], generation |-> p[2]]
      BY DEF AnnouncedOf
    <3>2. c.voice = v /\ c.generation = g /\ c.voice = p[1] /\ c.generation = p[2]
      BY <3>1
    <3> QED
      BY <3>1, <3>2
  <2> QED
    BY <2>1, <2>2
<1> QED
  BY <1>1, <1>2

(* The account, with its three places named. *)
Account(live, super, done, announced, all) ==
  /\ all = live \cup super \cup (done \cup announced)
  /\ live \cap (super \cup (done \cup announced)) = {}
  /\ super \cap (done \cup announced) = {}
  /\ announced \cap done = {}

(* A START: the slot's generation moves to the superseded ones. *)
LEMMA AccountInstalls ==
  ASSUME NEW live, NEW super, NEW done, NEW announced, NEW all,
         Account(live, super, done, announced, all),
         NEW old, old \subseteq live, NEW p, p \notin all
  PROVE  Account((live \ old) \cup {p}, super \cup old, done \cup announced, {}, all \cup {p})
BY DEF Account

(* An end: the slot's generation moves to the completion port. *)
LEMMA AccountRetires ==
  ASSUME NEW live, NEW super, NEW done, NEW announced, NEW all,
         Account(live, super, done, announced, all), NEW p \in live
  PROVE  Account(live \ {p}, super, done \cup announced, {p}, all)
BY DEF Account

(* Else: the port's generation has been taken. *)
LEMMA AccountSounds ==
  ASSUME NEW live, NEW super, NEW done, NEW announced, NEW all,
         Account(live, super, done, announced, all)
  PROVE  Account(live, super, done \cup announced, {}, all)
BY DEF Account

(* GenerationsAccounted, in these terms. *)
LEMMA AccountedMeans ==
  ASSUME HistoryTypeOK
  PROVE  GenerationsAccounted <=>
           /\ Account(Live, superseded, completed, AnnouncedOf(completion_event), installed)
           /\ \A v \in voice_valid_q : dynamic_mem[v].active
<1>1. CASE completion_event = NoCompletion
  <2>1. AnnouncedOf(completion_event) = {}
    BY <1>1, AnnouncedIs
  <2> QED
    BY <1>1, <2>1 DEF GenerationsAccounted, Account, Live, AnnouncedOf
<1>2. CASE completion_event # NoCompletion
  <2> DEFINE p == <<completion_event.voice, completion_event.generation>>
  <2>1. completion_event \in [voice : Voices, generation : Generations]
    BY <1>2 DEF HistoryTypeOK
  <2>2. AnnouncedOf(completion_event) = {p}
    BY <2>1, AnnouncedIs
  <2>3. AnnouncedOf(completion_event) \cap completed = {} <=> p \notin completed
    BY <2>2
  <2> HIDE DEF p
  <2>4. GenerationsAccounted <=>
          /\ installed = Live \cup superseded \cup (completed \cup AnnouncedOf(completion_event))
          /\ Live \cap (superseded \cup (completed \cup AnnouncedOf(completion_event))) = {}
          /\ superseded \cap (completed \cup AnnouncedOf(completion_event)) = {}
          /\ \A v \in voice_valid_q : dynamic_mem[v].active
          /\ p \notin completed
    BY <1>2 DEF GenerationsAccounted, Live, AnnouncedOf, p
  <2> QED
    BY <2>3, <2>4 DEF Account
<1> QED
  BY <1>1, <1>2

(* What the generations that sound become. *)
LEMMA LiveIs ==
  ASSUME StoreTypeOK, CommandTypeOK
  PROVE  /\ Installs =>
              LiveNext = (Live \ {p \in Live : p[1] = command_q.voice})
                           \cup {<<command_q.voice, command_q.generation>>}
         /\ \A v \in voice_valid_q :
              Retires(v) => LiveNext = Live \ {<<v, dynamic_mem[v].generation>>}
         /\ Sounds => LiveNext = Live
<1>1. /\ dynamic_mem \in [Voices -> [active : BOOLEAN, generation : Nat]]
      /\ voice_valid_q \subseteq Voices /\ command_q.voice \in Voices
  BY DEF StoreTypeOK, CommandTypeOK, Command
<1>2. ASSUME Installs
      PROVE  LiveNext = (Live \ {p \in Live : p[1] = command_q.voice})
                          \cup {<<command_q.voice, command_q.generation>>}
  <2> DEFINE w == command_q.voice
             q == <<command_q.voice, command_q.generation>>
  <2>1. dynamic_mem'[w].generation = command_q.generation /\ w \in voice_valid_q'
        /\ voice_valid_q' = voice_valid_q \cup {w}
    BY <1>1, <1>2 DEF Installs
  <2>2. ASSUME NEW u \in voice_valid_q, u # w
        PROVE  u \in voice_valid_q' /\ dynamic_mem'[u].generation = dynamic_mem[u].generation
    BY <1>1, <1>2, <2>2 DEF Installs
  <2>3. ASSUME NEW p \in LiveNext
        PROVE  p \in (Live \ {x \in Live : x[1] = w}) \cup {q}
    <3>1. PICK u \in voice_valid_q' : p = <<u, dynamic_mem'[u].generation>>
      BY DEF LiveNext
    <3>2. CASE u = w
      BY <2>1, <3>1, <3>2
    <3>3. CASE u # w
      BY <2>1, <2>2, <3>1, <3>3 DEF Live
    <3> QED
      BY <3>2, <3>3
  <2>4. q \in LiveNext
    BY <2>1 DEF LiveNext
  <2>5. ASSUME NEW p \in Live, p[1] # w PROVE p \in LiveNext
    <3>1. PICK u \in voice_valid_q : p = <<u, dynamic_mem[u].generation>>
      BY DEF Live
    <3>2. u # w
      BY <2>5, <3>1
    <3> QED
      BY <2>2, <3>1, <3>2 DEF LiveNext
  <2> QED
    BY <2>3, <2>4, <2>5
<1>3. ASSUME NEW v \in voice_valid_q, Retires(v)
      PROVE  LiveNext = Live \ {<<v, dynamic_mem[v].generation>>}
  <2>1. ASSUME NEW u \in voice_valid_q'
        PROVE  u \in voice_valid_q /\ u # v /\ dynamic_mem'[u] = dynamic_mem[u]
    BY <1>3 DEF Retires
  <2>2. ASSUME NEW u \in voice_valid_q, u # v PROVE u \in voice_valid_q'
    BY <1>3, <2>2 DEF Retires
  <2>3. ASSUME NEW p \in LiveNext PROVE p \in Live \ {<<v, dynamic_mem[v].generation>>}
    BY <2>1 DEF Live, LiveNext
  <2>4. ASSUME NEW p \in Live, p # <<v, dynamic_mem[v].generation>> PROVE p \in LiveNext
    <3>1. PICK u \in voice_valid_q : p = <<u, dynamic_mem[u].generation>>
      BY DEF Live
    <3>2. u # v
      BY <2>4, <3>1
    <3> QED
      BY <2>1, <2>2, <3>1, <3>2 DEF LiveNext
  <2> QED
    BY <2>3, <2>4
<1>4. ASSUME Sounds PROVE LiveNext = Live
  BY <1>4 DEF Sounds, Live, LiveNext
<1> QED
  BY <1>2, <1>3, <1>4

AccountedSo ==
  /\ Account(Live, superseded, completed, AnnouncedOf(completion_event), installed)
  /\ \A v \in voice_valid_q : dynamic_mem[v].active

(* The account is what GenerationsAccounted says, after a step too. *)
LEMMA AccountedNext == HistoryTypeOK' /\ AccountedSo' => GenerationsAccounted'
<1>1. HistoryTypeOK /\ AccountedSo => GenerationsAccounted
  BY AccountedMeans DEF AccountedSo
<1> QED
  BY <1>1, PTL

(* A START is sent with the slot's next generation. *)
LEMMA PushMeans ==
  ASSUME CommandTypeOK, NEW push \in {NoCommand} \cup Sendable, push.op = "START"
  PROVE  /\ push.voice \in Voices /\ push.generation = sent[push.voice] + 1
         /\ sent[push.voice] < MaxGeneration /\ sent[push.voice] \in Nat
<1>1. push \in Sendable
  BY EmptyValues
<1>2. ASSUME NEW v \in Voices, sent[v] < MaxGeneration,
             push = [op |-> "START", voice |-> v, generation |-> sent[v] + 1]
      PROVE  /\ push.voice \in Voices /\ push.generation = sent[push.voice] + 1
             /\ sent[push.voice] < MaxGeneration /\ sent[push.voice] \in Nat
  BY <1>2 DEF CommandTypeOK
<1>3. ASSUME NEW o \in Events, NEW v, NEW g, push = [op |-> o, voice |-> v, generation |-> g]
      PROVE  FALSE
  BY <1>3, CoreAssumption
<1> QED
  BY <1>1, <1>2, <1>3 DEF Sendable

(* The account of the generations. *)
LEMMA AccountKept ==
  ASSUME ScanInv, GenerationInv, NEW flush, NEW push, NEW pop, NEW more, NEW room,
         NEW sample_ready, NEW mixing, NEW ending,
         EdgeOf(flush, push, pop, more, room, sample_ready, mixing, ending)
  PROVE  HistoryTypeOK' /\ GenerationsAccounted'
<1> DEFINE install == InstallFires(flush, room)
           taken == completed \cup AnnouncedOf(completion_event)
           p == <<command_q.voice, command_q.generation>>
           old == {x \in Live : x[1] = command_q.voice}
<1>1. /\ WritePort(install) /\ CompletionPort(install) /\ HistoryCycle(push, install)
      /\ push \in {NoCommand} \cup Sendable
  BY DEF EdgeOf, Cycle
<1>2. StoreTypeOK /\ CommandTypeOK /\ HistoryTypeOK /\ EventInv /\ FreshInv
  BY DEF ScanInv, GenerationInv
<1>3. AccountedSo
  BY <1>2, AccountedMeans DEF GenerationInv, AccountedSo
<1>4. Account(Live, superseded, completed, AnnouncedOf(completion_event), installed)
  BY <1>3 DEF AccountedSo
<1>5. Live \subseteq installed /\ Live \subseteq Voices \X Generations
  BY <1>2, <1>4 DEF Account, HistoryTypeOK
<1>6. completed' = taken /\ taken \subseteq Voices \X Generations
  <2>1. CASE completion_event = NoCompletion
    BY <1>1, <1>2, <2>1, AnnouncedIs DEF HistoryCycle, HistoryTypeOK
  <2>2. CASE completion_event # NoCompletion
    <3>1. completion_event \in [voice : Voices, generation : Generations]
      BY <1>2, <2>2 DEF HistoryTypeOK
    <3>2. AnnouncedOf(completion_event) =
            {<<completion_event.voice, completion_event.generation>>}
      BY <3>1, AnnouncedIs
    <3> QED
      BY <1>1, <1>2, <2>2, <3>1, <3>2 DEF HistoryCycle, HistoryTypeOK
  <2> QED
    BY <2>1, <2>2
<1>7. sent' \in [Voices -> Generations]
  <2>1. CASE push.op # "START"
    BY <1>1, <1>2, <2>1 DEF HistoryCycle, HistoryTypeOK
  <2>2. CASE push.op = "START"
    <3>1. /\ push.voice \in Voices /\ sent[push.voice] < MaxGeneration
          /\ sent[push.voice] \in Nat
      BY <1>1, <1>2, <2>2, PushMeans
    <3>2. sent[push.voice] + 1 \in Generations
      BY <3>1, CoreNumbers DEF Generations
    <3>3. sent' = [sent EXCEPT ![push.voice] = sent[push.voice] + 1]
      BY <1>1, <1>2, <2>2, <3>1 DEF HistoryCycle, HistoryTypeOK
    <3> QED
      BY <1>2, <3>1, <3>2, <3>3 DEF HistoryTypeOK
  <2> QED
    BY <2>1, <2>2
<1> DEFINE Goal == /\ installed' \subseteq Voices \X Generations
                   /\ superseded' \subseteq Voices \X Generations
                   /\ completion_event' \in
                        {NoCompletion} \cup [voice : Voices, generation : Generations]
                   /\ AccountedSo'
<1>8. Live' = LiveNext
  BY DEF Live, LiveNext
<1>9. AnnouncedOf(completion_event)' = AnnouncedOf(completion_event')
  BY DEF AnnouncedOf
<1>10. AccountedSo' <=>
         /\ Account(LiveNext, superseded', taken, AnnouncedOf(completion_event'), installed')
         /\ \A v \in voice_valid_q' : dynamic_mem'[v].active
  BY <1>6, <1>8, <1>9 DEF AccountedSo, Account
<1>11. ASSUME install, Installs PROVE Goal
  <2>1. command_q.op = "START" /\ command_q \in ToInstall /\ command_q.voice \in Voices
    BY <1>2, <1>11 DEF Installs, ToInstall, CommandTypeOK, Command
  <2>2. command_q.generation \in Generations
    <3>1. /\ command_q.generation \in 1 .. sent[command_q.voice]
          /\ sent[command_q.voice] \in Generations
      BY <1>2, <2>1 DEF FreshInv, HistoryTypeOK
    <3> QED
      BY <3>1, CoreNumbers DEF Generations
  <2>3. p \notin installed
    <3> SUFFICES ASSUME p \in installed PROVE FALSE
      OBVIOUS
    <3>1. p[2] < command_q.generation
      BY <1>2, <2>1 DEF FreshInv
    <3> QED
      BY <2>2, <3>1, CoreNumbers DEF Generations
  <2>4. installed' = installed \cup {p} /\ superseded' = superseded \cup old
    BY <1>1, <1>11 DEF HistoryCycle, Live
  <2>5. LiveNext = (Live \ old) \cup {p} /\ completion_event' = NoCompletion
    BY <1>2, <1>11, LiveIs DEF Installs
  <2>6. Account((Live \ old) \cup {p}, superseded \cup old, taken, {}, installed \cup {p})
    BY <1>4, <2>3, AccountInstalls
  <2>7. \A v \in voice_valid_q' : dynamic_mem'[v].active
    BY <1>2, <1>3, <1>11, <2>1 DEF Installs, AccountedSo, StoreTypeOK
  <2>8. p \in Voices \X Generations
    BY <2>1, <2>2
  <2>9. installed' \subseteq Voices \X Generations /\ superseded' \subseteq Voices \X Generations
    BY <1>2, <1>5, <2>4, <2>8 DEF HistoryTypeOK
  <2> HIDE DEF p, old, taken
  <2> QED
    BY <1>10, <2>4, <2>5, <2>6, <2>7, <2>9, AnnouncedIs
<1>12. ASSUME ~install, NEW v \in voice_valid_q, Retires(v) PROVE Goal
  <2> DEFINE q == <<v, dynamic_mem[v].generation>>
  <2>1. q \in Live
    BY DEF Live
  <2>2. v \in Voices /\ dynamic_mem[v].generation \in Generations
    BY <1>5, <2>1
  <2>3. installed' = installed /\ superseded' = superseded
    BY <1>1, <1>12 DEF HistoryCycle
  <2>4. LiveNext = Live \ {q}
    BY <1>2, <1>12, LiveIs
  <2>5. completion_event' = [voice |-> v, generation |-> dynamic_mem[v].generation]
    BY <1>12 DEF Retires
  <2>6. AnnouncedOf(completion_event') = {q}
    BY <2>2, <2>5, AnnouncedIs
  <2>7. Account(Live \ {q}, superseded, taken, {q}, installed)
    BY <1>4, <2>1, AccountRetires
  <2>8. \A u \in voice_valid_q' : dynamic_mem'[u].active
    BY <1>3, <1>12 DEF Retires, AccountedSo
  <2>9. completion_event' \in [voice : Voices, generation : Generations]
    BY <2>2, <2>5
  <2> HIDE DEF q, taken
  <2> QED
    BY <1>2, <1>10, <2>3, <2>4, <2>6, <2>7, <2>8, <2>9 DEF HistoryTypeOK
<1>13. ASSUME ~install, Sounds PROVE Goal
  <2>1. installed' = installed /\ superseded' = superseded
    BY <1>1, <1>13 DEF HistoryCycle
  <2>2. LiveNext = Live /\ completion_event' = NoCompletion
    BY <1>2, <1>13, LiveIs DEF Sounds
  <2>3. Account(Live, superseded, taken, {}, installed)
    BY <1>4, AccountSounds
  <2>4. \A u \in voice_valid_q' : dynamic_mem'[u].active
    BY <1>3, <1>13 DEF Sounds, AccountedSo
  <2> HIDE DEF taken
  <2> QED
    BY <1>2, <1>10, <2>1, <2>2, <2>3, <2>4, AnnouncedIs DEF HistoryTypeOK
<1>14. Goal
  <2>1. \/ install /\ Installs
        \/ ~install /\ ((\E v \in voice_valid_q : Retires(v)) \/ Sounds)
    BY <1>1, <1>2, StoreOutcome
  <2> HIDE DEF install, Goal
  <2> QED
    BY <1>11, <1>12, <1>13, <2>1
<1>15. HistoryTypeOK'
  BY <1>6, <1>7, <1>14 DEF HistoryTypeOK, Generations, Voices, NoCompletion, NoVoice
<1> QED
  BY <1>14, <1>15, AccountedNext

(* The parser's command after an edge. *)
LEMMA CommandNext ==
  ASSUME ScanInv, FreshInv, NEW flush, NEW push, NEW pop, NEW more, NEW room, NEW sample_ready,
         NEW mixing, NEW ending,
         EdgeOf(flush, push, pop, more, room, sample_ready, mixing, ending)
  PROVE  /\ pop => fifo # << >> /\ command_q' = fifo[1] /\ 1 \in 1 .. Len(fifo)
         /\ ~pop => command_q' \in {command_q, NoCommand}
         /\ InstallFires(flush, room) => ~pop /\ command_q' = NoCommand
         /\ parser_state_q' = "DISPATCH_INSTALL" => command_q'.op = "START"
<1>1. /\ ParserCycle(flush, room, pop, more)
      /\ pop \in When(parser_state_q = "READ_HEADER" /\ fifo # << >>) /\ (pop => ~flush)
  BY DEF EdgeOf, Cycle
<1>2. pop => parser_state_q = "READ_HEADER" /\ fifo # << >>
  BY <1>1 DEF When
<1>3. pop => command_q' = fifo[1] /\ 1 \in 1 .. Len(fifo)
  <2> SUFFICES ASSUME pop PROVE command_q' = fifo[1] /\ 1 \in 1 .. Len(fifo)
    OBVIOUS
  <2>1. fifo \in Seq(Command) /\ fifo # << >>
    BY <1>2 DEF ScanInv, CommandTypeOK
  <2>2. Head(fifo) = fifo[1] /\ 1 \in 1 .. Len(fifo)
    BY <2>1
  <2> QED
    BY <1>1, <2>2 DEF ParserCycle
<1>4. ~pop => command_q' \in {command_q, NoCommand}
  BY <1>1 DEF ParserCycle
<1>5. ASSUME InstallFires(flush, room) PROVE ~pop /\ command_q' = NoCommand
  <2>1. parser_state_q = "DISPATCH_INSTALL" /\ ~flush /\ ~ControlFires(flush, room)
    BY <1>5 DEF InstallFires, ControlFires
  <2>2. parser_state_q' = "READ_HEADER"
    BY <1>1, <1>5, <2>1 DEF ParserCycle
  <2> QED
    BY <1>1, <1>2, <2>1, <2>2 DEF ParserCycle
<1>6. ASSUME parser_state_q' = "DISPATCH_INSTALL" PROVE command_q'.op = "START"
  <2>1. \/ parser_state_q = "DISPATCH_ACTION" /\ command_q.op = "START"
        \/ parser_state_q = "DISPATCH_INSTALL"
    BY <1>1, <1>6 DEF ParserCycle
  <2>2. command_q.op = "START" /\ ~pop
    BY <1>2, <2>1 DEF FreshInv
  <2> QED
    BY <1>1, <1>6, <2>2 DEF ParserCycle
<1> QED
  BY <1>2, <1>3, <1>4, <1>5, <1>6

(* Generations come in order. *)
LEMMA FreshKept ==
  ASSUME ScanInv, GenerationInv, NEW flush, NEW push, NEW pop, NEW more, NEW room,
         NEW sample_ready, NEW mixing, NEW ending,
         EdgeOf(flush, push, pop, more, room, sample_ready, mixing, ending)
  PROVE  FreshInv'
<1> DEFINE install == InstallFires(flush, room)
           shift == IF pop THEN 1 ELSE 0
           p == <<command_q.voice, command_q.generation>>
<1>1. /\ FifoCycle(flush, push, pop) /\ HistoryCycle(push, install)
      /\ push \in {NoCommand} \cup Sendable
  BY DEF EdgeOf, Cycle
<1>2. CommandTypeOK /\ HistoryTypeOK /\ FreshInv
  BY DEF ScanInv, GenerationInv
<1>3. push \in Command /\ fifo \in Seq(Command) /\ command_q \in Command
  BY <1>1, <1>2, SendableType DEF CommandTypeOK
<1>4. /\ pop => fifo # << >> /\ command_q' = fifo[1] /\ 1 \in 1 .. Len(fifo)
      /\ ~pop => command_q' \in {command_q, NoCommand}
      /\ install => ~pop /\ command_q' = NoCommand
      /\ parser_state_q' = "DISPATCH_INSTALL" => command_q'.op = "START"
  BY <1>2, CommandNext
<1>5. ASSUME NEW i \in 1 .. Len(fifo')
      PROVE  \/ i + shift \in 1 .. Len(fifo) /\ fifo'[i] = fifo[i + shift]
             \/ push # NoCommand /\ fifo'[i] = push /\ i = Len(fifo')
  <2>1. FifoEntry(push, pop, i)
    BY <1>1, <1>2, <1>3, <1>4, FifoNext
  <2> QED
    BY <2>1 DEF FifoEntry
<1>6. Len(fifo') \in Nat
  BY CommandTypeKept DEF ScanInv, CommandTypeOK
<1> HIDE DEF shift
<1>7. /\ \A v \in Voices : sent[v] \in Nat /\ sent'[v] \in Nat /\ sent[v] <= sent'[v]
      /\ push.op = "START" => /\ push.voice \in Voices /\ push.generation = sent[push.voice] + 1
                              /\ sent'[push.voice] = sent[push.voice] + 1
  <2>1. sent \in [Voices -> Nat]
    BY <1>2 DEF CommandTypeOK
  <2>2. CASE push.op # "START"
    <3>1. sent' = sent
      BY <1>1, <2>2 DEF HistoryCycle
    <3> QED
      BY <2>1, <2>2, <3>1
  <2>3. CASE push.op = "START"
    <3>1. push.voice \in Voices /\ push.generation = sent[push.voice] + 1
      BY <1>1, <1>2, <2>3, PushMeans
    <3>2. sent' = [sent EXCEPT ![push.voice] = sent[push.voice] + 1]
      BY <1>1, <2>1, <2>3, <3>1 DEF HistoryCycle
    <3> QED
      BY <2>1, <3>1, <3>2
  <2> QED
    BY <2>2, <2>3
<1>8. \A i \in 1 .. Len(fifo) : fifo[i] \in Command
  BY <1>3
<1>9. \A c \in ToInstall : /\ c.op = "START" /\ c.voice \in Voices /\ c.generation \in Nat
                           /\ 1 <= c.generation /\ c.generation <= sent[c.voice]
  <2>1. ASSUME NEW c \in ToInstall PROVE c \in Command /\ c.op = "START"
    BY <1>3, <1>8 DEF ToInstall
  <2>2. ASSUME NEW c \in ToInstall PROVE c.voice \in Voices /\ c.generation \in Nat
    BY <2>1 DEF Command
  <2>3. ASSUME NEW c \in ToInstall PROVE c.generation \in 1 .. sent[c.voice]
    BY <1>2 DEF FreshInv
  <2> QED
    BY <1>7, <2>1, <2>2, <2>3
<1>10. ASSUME NEW c \in ToInstall, push.op = "START", c.voice = push.voice
       PROVE  c.generation < push.generation
  BY <1>7, <1>9, <1>10
<1>11. ASSUME NEW i \in 1 .. Len(fifo), fifo[i].op = "START" PROVE fifo[i] \in ToInstall
  BY <1>11 DEF ToInstall
<1>12. ASSUME NEW c \in ToInstall'
       PROVE  /\ c.op = "START"
              /\ \/ c \in ToInstall /\ (install => \E i \in 1 .. Len(fifo) : c = fifo[i])
                 \/ c = push
  <2>1. c.op = "START" /\ (c = command_q' \/ \E i \in 1 .. Len(fifo') : c = fifo'[i])
    BY DEF ToInstall
  <2>2. CASE c = command_q'
    <3>1. c # NoCommand
      BY <2>1, EmptyValues
    <3> QED
      BY <1>4, <1>11, <2>1, <2>2, <3>1 DEF ToInstall
  <2>3. CASE \E i \in 1 .. Len(fifo') : c = fifo'[i]
    BY <1>5, <1>11, <2>1, <2>3
  <2> QED
    BY <2>1, <2>2, <2>3
<1>13. install => command_q.op = "START" /\ command_q \in ToInstall
  BY <1>2 DEF InstallFires, FreshInv, ToInstall
<1>14. ASSUME NEW q \in installed' PROVE q \in installed \/ (install /\ q = p)
  BY <1>1 DEF HistoryCycle
<1>15. \A q \in installed : q[1] \in Voices /\ q[2] \in Nat /\ q[2] <= sent[q[1]]
  BY <1>2, CoreNumbers DEF HistoryTypeOK, FreshInv, Generations
<1>16. install => p[1] = command_q.voice /\ p[2] = command_q.generation /\ p[1] \in Voices
                  /\ p[2] \in Nat /\ p[2] <= sent[p[1]]
  BY <1>9, <1>13
<1> HIDE DEF p
<1>17. \A q \in installed' : q[1] \in Voices /\ q[2] \in Nat /\ q[2] <= sent[q[1]]
  BY <1>14, <1>15, <1>16
<1>18. \A q \in installed' : q[2] <= sent'[q[1]]
  BY <1>7, <1>17
<1>19. ASSUME NEW c \in ToInstall' PROVE c.generation \in 1 .. sent'[c.voice]
  <2>1. CASE c \in ToInstall
    BY <1>7, <1>9, <2>1
  <2>2. CASE c = push
    BY <1>7, <1>12, <2>2
  <2> QED
    BY <1>12, <2>1, <2>2
<1>20. ASSUME NEW c \in ToInstall', NEW q \in installed', q[1] = c.voice
       PROVE  q[2] < c.generation
  <2>1. CASE c = push
    BY <1>7, <1>12, <1>17, <1>20, <2>1
  <2>2. CASE c \in ToInstall /\ (install => \E i \in 1 .. Len(fifo) : c = fifo[i])
    <3>1. CASE q \in installed
      BY <1>2, <1>20, <2>2, <3>1 DEF FreshInv
    <3>2. CASE install /\ q = p
      <4>1. PICK i \in 1 .. Len(fifo) : c = fifo[i]
        BY <2>2, <3>2
      <4>2. c.op = "START" /\ c.voice = command_q.voice
        BY <1>12, <1>16, <1>20, <3>2
      <4>3. command_q.generation < fifo[i].generation
        BY <1>2, <1>13, <3>2, <4>1, <4>2 DEF FreshInv
      <4> QED
        BY <1>16, <3>2, <4>1, <4>3
    <3> QED
      BY <1>14, <3>1, <3>2
  <2> QED
    BY <1>12, <2>1, <2>2
<1>21. ASSUME command_q'.op = "START", NEW i \in 1 .. Len(fifo'), fifo'[i].op = "START",
              fifo'[i].voice = command_q'.voice
       PROVE  command_q'.generation < fifo'[i].generation
  <2>1. command_q' \in ToInstall /\ (~pop => command_q' = command_q)
    BY <1>4, <1>11, <1>21, EmptyValues DEF ToInstall
  <2>2. CASE fifo'[i] = push
    BY <1>10, <1>21, <2>1, <2>2
  <2>3. CASE i + shift \in 1 .. Len(fifo) /\ fifo'[i] = fifo[i + shift]
    <3>1. CASE pop
      <4>1. i + 1 \in 1 .. Len(fifo) /\ fifo'[i] = fifo[i + 1] /\ 1 < i + 1
        BY <1>6, <2>3, <3>1 DEF shift
      <4> DEFINE k == i + 1
      <4>2. k \in 1 .. Len(fifo) /\ fifo'[i] = fifo[k] /\ 1 < k
        BY <4>1
      <4> HIDE DEF k
      <4> QED
        BY <1>2, <1>4, <1>21, <3>1, <4>2 DEF FreshInv
    <3>2. CASE ~pop
      <4>1. i \in 1 .. Len(fifo) /\ fifo'[i] = fifo[i]
        BY <1>6, <2>3, <3>2 DEF shift
      <4> QED
        BY <1>2, <1>21, <2>1, <3>2, <4>1 DEF FreshInv
    <3> QED
      BY <3>1, <3>2
  <2> QED
    BY <1>5, <2>2, <2>3
<1>22. ASSUME NEW i \in 1 .. Len(fifo'), NEW j \in 1 .. Len(fifo'), i < j,
              fifo'[i].op = "START", fifo'[j].op = "START", fifo'[i].voice = fifo'[j].voice
       PROVE  fifo'[i].generation < fifo'[j].generation
  <2> DEFINE k == i + shift
             m == j + shift
  <2>1. i # Len(fifo')
    BY <1>6, <1>22
  <2>2. k \in 1 .. Len(fifo) /\ fifo'[i] = fifo[k]
    BY <1>5, <2>1
  <2>3. CASE fifo'[j] = push
    BY <1>10, <1>11, <1>22, <2>2, <2>3
  <2>4. CASE m \in 1 .. Len(fifo) /\ fifo'[j] = fifo[m]
    <3>1. k < m
      BY <1>6, <1>22 DEF shift
    <3> HIDE DEF k, m
    <3> QED
      BY <1>2, <1>22, <2>2, <2>4, <3>1 DEF FreshInv
  <2> QED
    BY <1>5, <2>3, <2>4
<1> QED
  BY <1>4, <1>18, <1>19, <1>20, <1>21, <1>22 DEF FreshInv

(* A clock edge. *)
LEMMA EdgeGenerationInv ==
  ASSUME ScanInv, GenerationInv, ClockEdge
  PROVE  GenerationInv'
<1>1. PICK flush, push, pop, more, room, sample_ready, mixing, ending :
        EdgeOf(flush, push, pop, more, room, sample_ready, mixing, ending)
  BY EdgeInputs
<1>2. HistoryTypeOK' /\ GenerationsAccounted' /\ FreshInv'
  BY <1>1, AccountKept, FreshKept
<1>3. EventInv'
  <2>1. ControlCycle(ControlFires(flush, room))
    BY <1>1 DEF EdgeOf, Cycle
  <2>2. CASE ControlFires(flush, room)
    BY <2>1, <2>2 DEF ControlCycle, EventInv, ControlFires, VoiceEvents
  <2>3. CASE ~ControlFires(flush, room)
    BY <2>1, <2>3 DEF ControlCycle, EventInv, GenerationInv, VoiceEvents
  <2> QED
    BY <2>2, <2>3
<1> QED
  BY <1>2, <1>3 DEF GenerationInv

Unbegun ==
  /\ fifo = << >> /\ command_q = NoCommand /\ parser_state_q = "READ_HEADER"
  /\ control_state_q = "IDLE" /\ voice_valid_q = {} /\ completion_event = NoCompletion
  /\ sent = [v \in Voices |-> 0] /\ installed = {} /\ superseded = {} /\ completed = {}

(* A session that has not begun has nothing to account for. *)
LEMMA NothingToAccount ==
  ASSUME Unbegun
  PROVE  GenerationInv
<1> USE DEF Unbegun
<1>1. HistoryTypeOK
  BY CoreNumbers DEF HistoryTypeOK, Generations
<1>2. EventInv
  BY DEF EventInv
<1>3. FreshInv
  <2>1. ToInstall = {}
    BY EmptyValues DEF ToInstall
  <2>2. Len(fifo) = 0
    OBVIOUS
  <2> QED
    BY <2>1, <2>2, EmptyValues DEF FreshInv
<1>4. AccountedSo
  BY AnnouncedIs DEF AccountedSo, Account, Live
<1> QED
  BY <1>1, <1>2, <1>3, <1>4, AccountedMeans DEF GenerationInv, AccountedSo

(* A session reset begins the account again, *)
LEMMA ResetGenerationInv == SessionReset => GenerationInv'
<1>1. Unbegun => GenerationInv
  BY NothingToAccount
<1>2. SessionReset => Unbegun'
  BY DEF SessionReset, Unbegun, NoCommand, NoCompletion, NoVoice, Voices
<1> QED
  BY <1>1, <1>2, PTL

(* and a step that changes nothing leaves it. *)
LEMMA StutterGenerationInv ==
  ASSUME GenerationInv, UNCHANGED coreVars
  PROVE  GenerationInv'
BY DEF GenerationInv, HistoryTypeOK, EventInv, FreshInv, ToInstall, GenerationsAccounted,
       coreVars, commandVars, storeVars, historyVars

(* Every generation installed in this session is sounding, was replaced by *)
(* a later START, or was reported, and only one of the three; nothing is   *)
(* reported twice.  So the store's one completion port, which the control  *)
(* path and the write-back path share, loses no event, for every number of *)
(* voices and every interleaving of commands, flushes, blocks and resets.  *)
THEOREM EveryGenerationAccounted == CoreSpec => []GenerationsAccounted
<1>1. Init => GenerationInv
  BY NothingToAccount DEF Init, Unbegun
<1>2. ScanInv /\ GenerationInv /\ [Next]_coreVars => GenerationInv'
  BY EdgeGenerationInv, ResetGenerationInv, StutterGenerationInv DEF Next
<1>3. GenerationInv => GenerationsAccounted
  BY DEF GenerationInv
<1> QED
  BY CoreInvariant, <1>1, <1>2, <1>3, PTL DEF CoreSpec
=============================================================================
