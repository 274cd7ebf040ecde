----------------------------- MODULE RenderCore -----------------------------
(***************************************************************************)
(* voice_major_render_core, edge by edge: the command plane that parses    *)
(* the command stream, the voice state store with its one read register,   *)
(* its control path and its generation-checked write-back path, the block  *)
(* controller that scans the voices of a block, the voice engine, and the  *)
(* mix buffer and output of BlockPipeline.  All of them move on every      *)
(* clock edge; the environment chooses the command stream, the flush, room *)
(* in the output FIFO and how long a voice takes to render.                *)
(*                                                                         *)
(* A command is one element of the FIFO.  A parser that waits for the      *)
(* payload words of a command, or for the FIFO's head register, waits      *)
(* nondeterministically long.  A register nobody reads before it is        *)
(* written again holds its No... value.  Diagnostics counters, parameter   *)
(* words and the audio configuration are left out.                         *)
(***************************************************************************)
EXTENDS Integers, Sequences, FiniteSets

CONSTANTS
  NumVoices,
  FrameCount,
  EngineSlots,     \* voices the engine can hold at once
  FifoDepth,       \* bound: commands in the word FIFO
  MaxGeneration,   \* bound: STARTs sent to each voice
  MaxBlocks,       \* bound: blocks on the timeline
  Events           \* what the MCU sends besides START

ASSUME CoreAssumption ==
  /\ {NumVoices, FrameCount, EngineSlots, FifoDepth} \subseteq Nat \ {0}
  /\ {MaxGeneration, MaxBlocks} \subseteq Nat
  /\ Events \subseteq {"STOP", "RELEASE", "RELEASE_NOW", "UPDATE", "AUDIO", "INVALID"}

Voices == 0 .. NumVoices - 1
Frames == 0 .. FrameCount - 1
Generations == 0 .. MaxGeneration
NoVoice == NumVoices

VARIABLES
  \* command plane
  fifo, parser_state_q, command_q,
  \* block_voice_state_store
  voice_valid_q,       \* set of voices
  dynamic_mem,
  read_data_q,         \* dynamic_read_data_q, with the voice it was read for
  control_state_q, control_event_q, control_q, control_event_done_pulse,
  check_state_q, check_q, check_current_q,
  snapshot_capture_q,  \* the voice being captured, or NoVoice
  read_rsp_q,          \* state_read_rsp, or NoSnapshot
  completion_event,    \* the completion port, or NoCompletion
  \* block controller and engine
  state_q, scan_voice_q, pending_state_q, outstanding_voices_q,
  engine,              \* voices being rendered, with the frames left to mix
  result_q,            \* the engine's result register, or NoResult
  \* mix buffer and output: see BlockPipeline
  bank_state, bank_start, fill_bank, clear_index, complete_reg, mixed,
  output_state_q, output_buffer_q, output_index_q, read_rsp_reg,
  render_request_active_q, request_accepted_pulse, next_block_q, played,
  \* history
  sent,                \* last generation started on each voice by the MCU
  installed,           \* generations installed in this session
  superseded,          \* those replaced by a START while still sounding
  completed,           \* those reported on the completion port
  due                  \* what the block in each bank must contain

commandVars == <<fifo, parser_state_q, command_q>>
storeVars == <<voice_valid_q, dynamic_mem, read_data_q,
               control_state_q, control_event_q, control_q, control_event_done_pulse,
               check_state_q, check_q, check_current_q, snapshot_capture_q,
               read_rsp_q, completion_event>>
renderVars == <<state_q, scan_voice_q, pending_state_q, outstanding_voices_q,
                engine, result_q>>
pipelineVars == <<bank_state, bank_start, fill_bank, clear_index, complete_reg, mixed,
                  output_state_q, output_buffer_q, output_index_q, read_rsp_reg,
                  render_request_active_q, request_accepted_pulse, next_block_q, played>>
historyVars == <<sent, installed, superseded, completed, due>>
coreVars == <<commandVars, storeVars, renderVars, pipelineVars, historyVars>>

(* The block controller as the pipeline sees it. *)
RenderState ==
  IF state_q \in {"IDLE", "WAIT_FILL", "FINISH"} THEN state_q
  ELSE "RENDER"

Pipe == INSTANCE BlockPipeline WITH render_state <- RenderState

NoCommand == [op |-> "NONE", voice |-> 0, generation |-> 0]
NoState == [voice |-> NoVoice, active |-> FALSE, generation |-> 0]
NoSnapshot == NoState
NoResult == NoState
NoCompletion == [voice |-> NoVoice, generation |-> 0]

Silent == [active |-> FALSE, generation |-> 0]

Init ==
  /\ fifo = << >> /\ parser_state_q = "READ_HEADER" /\ command_q = NoCommand
  /\ voice_valid_q = {}
  /\ dynamic_mem = [v \in Voices |-> Silent]
  /\ read_data_q = NoState
  /\ control_state_q = "IDLE" /\ control_event_q = NoCommand /\ control_q = NoState
  /\ control_event_done_pulse = FALSE
  /\ check_state_q = "IDLE" /\ check_q = NoState /\ check_current_q = NoState
  /\ snapshot_capture_q = NoVoice /\ read_rsp_q = NoSnapshot
  /\ completion_event = NoCompletion
  /\ state_q = "IDLE" /\ scan_voice_q = 0 /\ pending_state_q = NoState
  /\ outstanding_voices_q = 0 /\ engine = {} /\ result_q = NoResult
  /\ Pipe!PipeInit
  /\ sent = [v \in Voices |-> 0]
  /\ installed = {} /\ superseded = {} /\ completed = {}
  /\ due = [b \in Pipe!Banks |-> [f \in Frames |-> {}]]

-----------------------------------------------------------------------------
(* Combinational signals. *)

VoiceEvents == {"STOP", "RELEASE", "RELEASE_NOW", "UPDATE"}

(* Mutant of ActionPending: a command already out of the FIFO does not count. *)
ActionPendingFifoOnly == fifo # << >>

ActionPending == parser_state_q # "READ_HEADER" \/ fifo # << >>

Admit(room) == Pipe!RendererAdmit(room, ActionPending)
RenderBusy(room) == state_q # "IDLE" \/ Admit(room)

StoreIdle(room) ==
  ~RenderBusy(room) /\ control_state_q = "IDLE" /\ check_state_q = "IDLE"

InstallFires(flush, room) ==
  parser_state_q = "DISPATCH_INSTALL" /\ ~flush /\ StoreIdle(room)

ControlFires(flush, room) ==
  /\ parser_state_q = "DISPATCH_ACTION" /\ ~flush
  /\ command_q.op \in VoiceEvents
  /\ StoreIdle(room)

AudioFires(flush, room) == command_q.op = "AUDIO" /\ ~RenderBusy(room) /\ ~flush

(* The engine's result goes to the write-back path of the store. *)
DynamicFires(room) == result_q # NoResult /\ RenderBusy(room) /\ check_state_q = "IDLE"

StateReadFires ==
  /\ state_q = "REQUEST_STATE"
  /\ snapshot_capture_q = NoVoice /\ read_rsp_q = NoSnapshot
  /\ check_state_q = "IDLE" /\ result_q = NoResult

StateRspFires ==
  state_q = "WAIT_STATE" /\ read_rsp_q # NoSnapshot /\ pending_state_q = NoState

EngineStartFires ==
  /\ state_q = "DISPATCH_STATE" /\ pending_state_q.active
  /\ Cardinality(engine) < EngineSlots

(* A silent voice is passed over, a sounding one goes to the engine. *)
DispatchFires ==
  state_q = "DISPATCH_STATE" /\ (~pending_state_q.active \/ EngineStartFires)

(* Mutant of GenerationMatch: a voice of the last session still matches. *)
GenerationMatchInvalid(voice, current, generation) ==
  current.active /\ current.generation = generation

GenerationMatch(voice, current, generation) ==
  voice \in voice_valid_q /\ current.active /\ current.generation = generation

ControlApplies ==
  /\ control_state_q = "APPLY"
  /\ GenerationMatch(control_event_q.voice, control_q, control_event_q.generation)

CheckApplies ==
  /\ check_state_q = "APPLY"
  /\ GenerationMatch(check_q.voice, check_current_q, check_q.generation)

ControlEnds == ControlApplies /\ control_event_q.op \in {"STOP", "RELEASE_NOW"}
CheckEnds == CheckApplies /\ ~check_q.active

-----------------------------------------------------------------------------
(* The clock edge of the command plane. *)

(* What the MCU may send next: a START carries the slot's next generation, *)
(* an event the generation of the slot's last START.                       *)
Sendable ==
  {[op |-> "START", voice |-> v, generation |-> sent[v] + 1] :
     v \in {u \in Voices : sent[u] < MaxGeneration}}
  \cup {[op |-> o, voice |-> v, generation |-> sent[v]] :
          o \in Events \cap VoiceEvents,
          v \in {u \in Voices : sent[u] > 0}}
  \cup {[op |-> o, voice |-> 0, generation |-> 0] : o \in Events \ VoiceEvents}

FifoReady(pop) == Len(fifo) < FifoDepth \/ pop

FifoCycle(flush, push, pop) ==
  fifo' = IF flush THEN << >>
          ELSE (IF pop THEN Tail(fifo) ELSE fifo) \o
               (IF push = NoCommand THEN << >> ELSE <<push>>)

(* more: the payload word the parser waits for has not arrived. *)
ParserCycle(flush, room, pop, more) ==
  /\ parser_state_q' =
       IF flush THEN "READ_HEADER"
       ELSE IF parser_state_q = "READ_HEADER" /\ pop THEN "READ_PAYLOAD"
       ELSE IF parser_state_q = "READ_PAYLOAD" /\ ~more THEN "DISPATCH_ACTION"
       ELSE IF parser_state_q = "DISPATCH_ACTION" /\ command_q.op = "INVALID" THEN "READ_HEADER"
       ELSE IF parser_state_q = "DISPATCH_ACTION" /\ command_q.op = "START" THEN "DISPATCH_INSTALL"
       ELSE IF parser_state_q = "DISPATCH_ACTION" /\ AudioFires(flush, room) THEN "READ_HEADER"
       ELSE IF ControlFires(flush, room) THEN "WAIT_CONTROL_EVENT"
       ELSE IF InstallFires(flush, room) THEN "READ_HEADER"
       ELSE IF parser_state_q = "WAIT_CONTROL_EVENT" /\ control_event_done_pulse THEN "READ_HEADER"
       ELSE parser_state_q
  /\ command_q' = IF pop THEN Head(fifo)
                  ELSE IF parser_state_q' = "READ_HEADER" THEN NoCommand
                  ELSE command_q

-----------------------------------------------------------------------------
(* The clock edge of the voice state store. *)

StoreRead(v) == [voice |-> v, active |-> dynamic_mem[v].active,
                 generation |-> dynamic_mem[v].generation]

(* One synchronous read port serves the write-back check, the snapshot and *)
(* the control path, in that order.                                        *)
ReadPort(room) ==
  read_data_q' = IF DynamicFires(room) THEN StoreRead(result_q.voice)
                 ELSE IF StateReadFires THEN StoreRead(scan_voice_q)
                 ELSE IF control_state_q = "READ" THEN StoreRead(control_event_q.voice)
                 ELSE NoState

(* One write port: an install, else a control event, else a write-back. *)
WritePort(install) ==
  dynamic_mem' =
    IF install THEN
           [dynamic_mem EXCEPT ![command_q.voice] =
              [active |-> TRUE, generation |-> command_q.generation]]
    ELSE IF ControlApplies /\ control_event_q.op # "UPDATE" THEN
           [dynamic_mem EXCEPT ![control_event_q.voice] =
              [active |-> control_event_q.op = "RELEASE",
               generation |-> control_q.generation]]
    ELSE IF ~ControlApplies /\ CheckApplies THEN
           [dynamic_mem EXCEPT ![check_q.voice] =
              [active |-> check_q.active, generation |-> check_q.generation]]
    ELSE dynamic_mem

NextCompletion ==
  IF CheckEnds THEN [voice |-> check_q.voice, generation |-> check_q.generation]
  ELSE IF ControlEnds THEN
         [voice |-> control_event_q.voice, generation |-> control_q.generation]
  ELSE NoCompletion

(* The valid bits and the completion port, a single registered event. *)
CompletionPort(install) ==
  /\ voice_valid_q' =
       ((voice_valid_q \cup {v \in Voices : install /\ v = command_q.voice})
          \ {v \in Voices : ControlEnds /\ v = control_event_q.voice})
          \ {v \in Voices : CheckEnds /\ v = check_q.voice}
  /\ completion_event' = NextCompletion

(* Mutant of ControlDone: only an event that applied is reported done. *)
ControlDoneApplied == ControlApplies

ControlDone == control_state_q = "APPLY"

ControlCycle(fires) ==
  /\ control_state_q' = IF fires THEN "READ"
                        ELSE IF control_state_q = "READ" THEN "CAPTURE"
                        ELSE IF control_state_q = "CAPTURE" THEN "APPLY"
                        ELSE "IDLE"
  /\ control_event_q' = IF fires THEN command_q
                        ELSE IF control_state_q = "APPLY" THEN NoCommand
                        ELSE control_event_q
  /\ control_q' = IF control_state_q = "CAPTURE" THEN read_data_q ELSE NoState
  /\ control_event_done_pulse' = ControlDone

CheckCycle(fires) ==
  /\ check_state_q' = IF fires THEN "CAPTURE"
                      ELSE IF check_state_q = "CAPTURE" THEN "APPLY"
                      ELSE "IDLE"
  /\ check_q' = IF fires THEN result_q
                ELSE IF check_state_q = "APPLY" THEN NoState
                ELSE check_q
  /\ check_current_q' = IF check_state_q = "CAPTURE" THEN read_data_q ELSE NoState

SnapshotCycle ==
  /\ snapshot_capture_q' = IF StateReadFires THEN scan_voice_q ELSE NoVoice
  /\ read_rsp_q' =
       IF snapshot_capture_q # NoVoice THEN
              [read_data_q EXCEPT !.active = @ /\ snapshot_capture_q \in voice_valid_q]
       ELSE IF StateRspFires THEN NoSnapshot
       ELSE read_rsp_q

-----------------------------------------------------------------------------
(* The clock edge of the block controller and of the engine. *)

(* Mutant of Drained: voices still in the engine are not waited for. *)
DrainedEarly == result_q = NoResult /\ pending_state_q = NoState

Drained == outstanding_voices_q = 0 /\ result_q = NoResult /\ pending_state_q = NoState

ControllerCycle(room) ==
  /\ state_q' =
       IF Admit(room) THEN "WAIT_FILL"
       ELSE IF state_q = "WAIT_FILL" /\ Pipe!FillReady THEN "REQUEST_STATE"
       ELSE IF StateReadFires THEN "WAIT_STATE"
       ELSE IF StateRspFires THEN "DISPATCH_STATE"
       ELSE IF DispatchFires
         THEN (IF scan_voice_q = NumVoices - 1 THEN "DRAIN" ELSE "REQUEST_STATE")
       ELSE IF state_q = "DRAIN" /\ Drained THEN "FINISH"
       ELSE IF state_q = "FINISH" /\ Pipe!FinishReady THEN "IDLE"
       ELSE state_q
  /\ scan_voice_q' = IF Admit(room) THEN 0
                     ELSE IF DispatchFires /\ scan_voice_q # NumVoices - 1 THEN scan_voice_q + 1
                     ELSE scan_voice_q
  /\ pending_state_q' = IF StateRspFires THEN read_rsp_q
                        ELSE IF DispatchFires THEN NoState
                        ELSE pending_state_q
  /\ outstanding_voices_q' = outstanding_voices_q
                               + (IF EngineStartFires THEN 1 ELSE 0)
                               - (IF DynamicFires(room) THEN 1 ELSE 0)

(* The engine holds a voice until its last frame is accepted by the mix    *)
(* buffer; that edge also publishes the voice's result, so it needs the    *)
(* result register.  A voice with nothing to mix only needs the register.  *)
FirstFrame(entry) == CHOOSE f \in entry.todo : \A g \in entry.todo : f <= g

Mixing(entry) == entry.todo # {} /\ Pipe!FillReady

Ending(entry, mixing, room) ==
  /\ result_q = NoResult \/ DynamicFires(room)
  /\ entry.todo = {} \/ (entry \in mixing /\ Cardinality(entry.todo) = 1)

EngineCycle(mixing, ending, room) ==
  /\ \A e \in mixing : Mixing(e)
  /\ \A e \in ending : Ending(e, mixing, room)
  /\ \A e \in mixing : Cardinality(e.todo) = 1 => e \in ending
  /\ \E todo \in IF EngineStartFires THEN SUBSET Frames ELSE {{}} :
       /\ engine' =
            {[e EXCEPT !.todo = IF e \in mixing THEN @ \ {FirstFrame(e)} ELSE @] :
               e \in engine \ ending}
            \cup (IF EngineStartFires
                  THEN {[voice |-> scan_voice_q, generation |-> pending_state_q.generation,
                         todo |-> todo]}
                  ELSE {})
       /\ due' = [due EXCEPT ![fill_bank] =
                    IF state_q = "WAIT_FILL" THEN [f \in Frames |-> {}]
                    ELSE [f \in Frames |->
                            IF f \in todo THEN @[f] \cup {scan_voice_q} ELSE @[f]]]
  /\ \E alive \in IF ending = {} THEN {FALSE} ELSE BOOLEAN :
       result_q' =
         IF ending # {}
         THEN LET e == CHOOSE x \in ending : TRUE
              IN [voice |-> e.voice, active |-> alive, generation |-> e.generation]
         ELSE IF DynamicFires(room) THEN NoResult ELSE result_q

AtMostOne(S) == {{}} \cup {{x} : x \in S}

Contribution(mixing) ==
  IF mixing = {} THEN Pipe!NoContribution
  ELSE LET e == CHOOSE x \in mixing : TRUE
       IN [voice |-> {e.voice}, frame |-> FirstFrame(e)]

-----------------------------------------------------------------------------
(* The whole core. *)

HistoryCycle(push, install) ==
  LET live == {<<v, dynamic_mem[v].generation>> : v \in voice_valid_q}
  IN
  /\ sent' = IF push.op = "START" THEN [sent EXCEPT ![push.voice] = @ + 1] ELSE sent
  /\ installed' = IF install THEN installed \cup {<<command_q.voice, command_q.generation>>}
                             ELSE installed
  /\ superseded' = IF install THEN superseded \cup {p \in live : p[1] = command_q.voice}
                              ELSE superseded
  /\ completed' = IF completion_event = NoCompletion THEN completed
                  ELSE completed \cup {<<completion_event.voice, completion_event.generation>>}

(* One clock edge. *)
Cycle(flush, push, pop, more, room, sample_ready, mixing, ending) ==
  LET install == InstallFires(flush, room)
      finish == state_q = "FINISH" /\ Pipe!FinishReady
  IN
  /\ push # NoCommand => ~flush /\ FifoReady(pop)
  /\ pop => ~flush
  /\ FifoCycle(flush, push, pop)
  /\ ParserCycle(flush, room, pop, more)
  /\ ReadPort(room)
  /\ WritePort(install)
  /\ CompletionPort(install)
  /\ ControlCycle(ControlFires(flush, room))
  /\ CheckCycle(DynamicFires(room))
  /\ SnapshotCycle
  /\ ControllerCycle(room)
  /\ EngineCycle(mixing, ending, room)
  /\ Pipe!BankCycle(Admit(room), Contribution(mixing), finish)
  /\ Pipe!OutputCycle(Admit(room), sample_ready)
  /\ HistoryCycle(push, install)

(* An input that no component looks at on this edge is held low. *)
When(condition) == IF condition THEN BOOLEAN ELSE {FALSE}

ClockEdge ==
  \E flush \in BOOLEAN,
     pop \in When(parser_state_q = "READ_HEADER" /\ fifo # << >>),
     push \in {NoCommand} \cup Sendable,
     more \in When(parser_state_q = "READ_PAYLOAD"),
     room \in When(state_q = "IDLE"),
     sample_ready \in When(output_state_q = "READ_RESPONSE"),
     mixing, ending \in AtMostOne(engine) :
       Cycle(flush, push, pop, more, room, sample_ready, mixing, ending)

(* A render session reset: every register of the core, not its memories.   *)
(* The MCU counts generations from the start again (app_reset_local_session). *)
SessionReset ==
  /\ fifo' = << >> /\ parser_state_q' = "READ_HEADER" /\ command_q' = NoCommand
  /\ voice_valid_q' = {}
  /\ control_state_q' = "IDLE" /\ control_event_q' = NoCommand /\ control_q' = NoState
  /\ control_event_done_pulse' = FALSE
  /\ check_state_q' = "IDLE" /\ check_q' = NoState /\ check_current_q' = NoState
  /\ read_data_q' = NoState
  /\ snapshot_capture_q' = NoVoice /\ read_rsp_q' = NoSnapshot
  /\ completion_event' = NoCompletion
  /\ state_q' = "IDLE" /\ scan_voice_q' = 0 /\ pending_state_q' = NoState
  /\ outstanding_voices_q' = 0 /\ engine' = {} /\ result_q' = NoResult
  /\ Pipe!CoreReset
  /\ sent' = [v \in Voices |-> 0]
  /\ installed' = {} /\ superseded' = {} /\ completed' = {}
  /\ UNCHANGED <<dynamic_mem, due>>

Next == ClockEdge \/ SessionReset

CoreSpec == Init /\ [][Next]_coreVars

(* The payload of a command that has begun arrives, the effects keep       *)
(* taking samples, and the engine renders: memory answers every read.      *)
CoreFairness ==
  /\ WF_coreVars(\E room \in BOOLEAN, mixing, ending \in AtMostOne(engine) :
       Cycle(FALSE, NoCommand, FALSE, FALSE, room, FALSE, mixing, ending))
  /\ WF_coreVars(\E room \in BOOLEAN, mixing, ending \in AtMostOne(engine) :
       Cycle(FALSE, NoCommand, FALSE, FALSE, room, TRUE, mixing, ending))
  /\ WF_coreVars(\E room \in BOOLEAN, mixing, ending \in AtMostOne(engine) :
       /\ mixing \cup ending # {}
       /\ Cycle(FALSE, NoCommand, FALSE, FALSE, room, FALSE, mixing, ending))

FairCoreSpec == CoreSpec /\ CoreFairness

-----------------------------------------------------------------------------
(* Properties. *)

(* The block sees one state of every voice: from the first snapshot of a   *)
(* block to its end no control event is being applied, not even one that a *)
(* flush left behind in the store while it let the block be admitted.      *)
ScanSeesSettledState ==
  state_q \in {"REQUEST_STATE", "WAIT_STATE", "DISPATCH_STATE", "DRAIN", "FINISH"} =>
    control_state_q = "IDLE" /\ parser_state_q # "WAIT_CONTROL_EVENT"

(* The read register serves three clients; each finds its own voice in it. *)
ReadRegisterOwned ==
  /\ control_state_q = "APPLY" => control_q.voice = control_event_q.voice
  /\ check_state_q = "APPLY" => check_current_q.voice = check_q.voice
  /\ read_rsp_q # NoSnapshot => read_rsp_q.voice = scan_voice_q
  /\ pending_state_q # NoState => pending_state_q.voice = scan_voice_q

(* A rendered voice finds its own generation when its state is written     *)
(* back: no START, STOP or reset gets between the snapshot and the result. *)
WriteBackIsCurrent == check_state_q = "APPLY" => CheckApplies

(* Every installed generation is sounding, was replaced by a later START,  *)
(* or is reported, and only one of the three: the single completion port   *)
(* loses no event and repeats none.                                        *)
GenerationsAccounted ==
  LET live == {<<v, dynamic_mem[v].generation>> : v \in voice_valid_q}
      reported == completed \cup
        {p \in Voices \X Generations : completion_event = [voice |-> p[1], generation |-> p[2]]}
  IN
  /\ installed = live \cup superseded \cup reported
  /\ live \cap (superseded \cup reported) = {}
  /\ superseded \cap reported = {}
  /\ \A v \in voice_valid_q : dynamic_mem[v].active
  /\ completion_event # NoCompletion =>
       <<completion_event.voice, completion_event.generation>> \notin completed

(* The parser's wait ends with the event it waits for: while it waits the  *)
(* store is working on its command, or has just finished it.               *)
WaitsForOwnEvent ==
  parser_state_q = "WAIT_CONTROL_EVENT" =>
    /\ control_state_q # "IDLE" => control_event_q = command_q
    /\ (control_state_q # "IDLE") # control_event_done_pulse

(* A published block holds every frame of every voice of the block: the    *)
(* controller does not finish while a voice still has frames to mix.       *)
BlockIsComplete ==
  \A b \in Pipe!Banks : bank_state[b] \in {"PUBLISHED", "OWNED"} =>
    \A f \in Frames : {s[1] : s \in mixed[b][f]} = due[b][f]

(* A block renders one settled state of the voices: no control event is    *)
(* applied during the scan, the three clients of the read register find    *)
(* their own voice in it, a result finds the generation it was rendered    *)
(* from, and the block ends with every frame of every voice in the mix.    *)
ScanUndisturbed ==
  /\ ScanSeesSettledState
  /\ ReadRegisterOwned
  /\ WaitsForOwnEvent
  /\ WriteBackIsCurrent
  /\ BlockIsComplete

(* Commands wait for the renderer, the renderer for a bank and for the     *)
(* store, a bank for the output: whoever has begun gets to its end.        *)
CommandsAndBlocksEnd ==
  /\ parser_state_q # "READ_HEADER" ~> parser_state_q = "READ_HEADER"
  /\ state_q # "IDLE" ~> state_q = "IDLE"

(* The core drives the mix buffer the way BlockPipeline's renderer does. *)
ImplementsPipeline == Pipe!Spec
=============================================================================
