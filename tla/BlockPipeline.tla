--------------------------- MODULE BlockPipeline ---------------------------
(***************************************************************************)
(* The double-buffered block pipeline between the voice renderer and the   *)
(* audio output: block_mix_buffer (two banks), the output manager that     *)
(* drains a published bank frame by frame, and the output scheduler that   *)
(* walks the audio timeline.  A step is one clock edge; every component    *)
(* moves on every edge.                                                    *)
(*                                                                         *)
(* The renderer is the promise the pipeline relies on: after a block is    *)
(* admitted it waits for a cleared bank, contributes each voice at most    *)
(* once to each frame, and then asks for the block to be finished.         *)
(* RenderCore shows that the real controller keeps it.                     *)
(***************************************************************************)
EXTENDS Integers

CONSTANTS
  Voices,      \* voice slots
  FrameCount,  \* MAX_BLOCK_FRAMES
  MaxBlocks    \* bound: blocks put on the timeline

ASSUME PipelineAssumption ==
  /\ FrameCount \in Nat \ {0}
  /\ MaxBlocks \in Nat

Banks == {0, 1}
Frames == 0 .. FrameCount - 1
NoBank == 2
NoContribution == [voice |-> {}, frame |-> 0]

VARIABLES
  \* block_mix_buffer
  bank_state,          \* FREE, CLEARING, FILLING, PUBLISHED or OWNED, per bank
  bank_start,          \* bank_start_frame, in blocks
  fill_bank,
  clear_index,
  complete_reg,        \* the published bank, NoBank when block_complete_valid is low
  mixed,               \* accum_l/accum_r: what each frame of each bank has summed
  \* voice_major_block_output_manager and voice_major_output_scheduler
  output_state_q,      \* OUTPUT_IDLE, ..._READ_REQUEST, ..._READ_RESPONSE, ..._RELEASE
  output_buffer_q,
  output_index_q,
  read_rsp_reg,        \* the frame read from the bank, as a set of contributions
  render_request_active_q,
  request_accepted_pulse,
  next_block_q,        \* next_frame_q / MAX_BLOCK_FRAMES
  \* the renderer
  render_state,        \* IDLE, WAIT_FILL, RENDER or FINISH
  \* history
  played               \* frames handed to the effects so far

bankVars == <<bank_state, bank_start, fill_bank, clear_index, complete_reg, mixed>>
outputVars == <<output_state_q, output_buffer_q, output_index_q, read_rsp_reg,
                render_request_active_q, request_accepted_pulse, next_block_q, played>>
pipeVars == <<bankVars, outputVars, render_state>>

PipeInit ==
  /\ bank_state = [b \in Banks |-> "FREE"]
  /\ bank_start = [b \in Banks |-> 0]
  /\ fill_bank = 0
  /\ clear_index = 0
  /\ complete_reg = NoBank
  /\ mixed = [b \in Banks |-> [f \in Frames |-> {}]]
  /\ output_state_q = "IDLE"
  /\ output_buffer_q = 0
  /\ output_index_q = 0
  /\ read_rsp_reg = {}
  /\ render_request_active_q = FALSE
  /\ request_accepted_pulse = FALSE
  /\ next_block_q = 0
  /\ played = 0

Init == PipeInit /\ render_state = "IDLE"

-----------------------------------------------------------------------------
(* Combinational signals. *)

SelectedFreeBank == IF bank_state[0] = "FREE" THEN 0 ELSE 1

(* block_req_ready of the mix buffer. *)
MixReqReady ==
  /\ \E b \in Banks : bank_state[b] = "FREE"
  /\ \A b \in Banks : bank_state[b] \notin {"CLEARING", "FILLING"}

(* The manager offers a request while the output FIFO has room for a block *)
(* and no earlier request is unfinished.                                   *)
ManagerRequest(room) == room /\ next_block_q < MaxBlocks /\ ~render_request_active_q

FillReady == bank_state[fill_bank] = "FILLING"
FinishReady == bank_state[fill_bank] = "FILLING" /\ complete_reg = NoBank
CompleteReady == output_state_q = "IDLE"
ReadFires == output_state_q = "READ_REQUEST" /\ bank_state[output_buffer_q] = "OWNED"

(* Mutant of ReleaseFires: it waits for a bank that is still published. *)
ReleaseFiresPublished ==
  output_state_q = "RELEASE" /\ bank_state[output_buffer_q] = "PUBLISHED"

ReleaseFires == output_state_q = "RELEASE" /\ bank_state[output_buffer_q] = "OWNED"
SampleFires(sample_ready) == output_state_q = "READ_RESPONSE" /\ sample_ready

LastFrame == output_index_q + 1 >= FrameCount

(* Mutant of LastClear: the last frame is not cleared. *)
LastClearEarly == clear_index + 2 >= FrameCount

LastClear == clear_index + 1 >= FrameCount

-----------------------------------------------------------------------------
(* The clock edge of the mix buffer, of the manager and scheduler.         *)

(* What a contribution leaves in an accumulator: which voice, which block. *)
Summand(contribution) ==
  {<<v, bank_start[fill_bank]>> : v \in contribution.voice}

AccumulatorCycle(clearing, contribution) ==
  mixed' = IF clearing THEN [mixed EXCEPT ![fill_bank][clear_index] = {}]
           ELSE IF FillReady /\ contribution # NoContribution THEN
                  [mixed EXCEPT ![fill_bank][contribution.frame] =
                     @ \cup Summand(contribution)]
           ELSE mixed

BankCycle(admit, contribution, finish) ==
  LET taken == complete_reg # NoBank /\ CompleteReady
      clearing == ~admit /\ bank_state[fill_bank] = "CLEARING"
      cleared == clearing /\ LastClear
  IN
  /\ bank_state' = [b \in Banks |->
       IF finish /\ b = fill_bank THEN "PUBLISHED"
       ELSE IF admit /\ b = SelectedFreeBank THEN "CLEARING"
       ELSE IF cleared /\ b = fill_bank THEN "FILLING"
       ELSE IF ReleaseFires /\ b = output_buffer_q THEN "FREE"
       ELSE IF taken /\ b = complete_reg THEN "OWNED"
       ELSE bank_state[b]]
  /\ fill_bank' = IF admit THEN SelectedFreeBank ELSE fill_bank
  /\ bank_start' = IF admit THEN [bank_start EXCEPT ![SelectedFreeBank] = next_block_q]
                            ELSE bank_start
  /\ clear_index' = IF admit THEN 0
                    ELSE IF clearing /\ ~cleared THEN clear_index + 1
                    ELSE clear_index
  /\ complete_reg' = IF finish THEN fill_bank
                     ELSE IF taken THEN NoBank
                     ELSE complete_reg
  /\ AccumulatorCycle(clearing, contribution)

(* The start of the next request moves one edge after its acceptance. *)
NextBlock == IF request_accepted_pulse THEN next_block_q + 1 ELSE next_block_q

OutputCycle(admit, sample_ready) ==
  LET taken == complete_reg # NoBank /\ CompleteReady
  IN
  /\ output_state_q' =
       IF taken THEN "READ_REQUEST"
       ELSE IF ReadFires THEN "READ_RESPONSE"
       ELSE IF SampleFires(sample_ready) THEN (IF LastFrame THEN "RELEASE" ELSE "READ_REQUEST")
       ELSE IF ReleaseFires THEN "IDLE"
       ELSE output_state_q
  /\ output_buffer_q' = IF taken THEN complete_reg ELSE output_buffer_q
  /\ output_index_q' = IF taken THEN 0
                       ELSE IF SampleFires(sample_ready) /\ ~LastFrame THEN output_index_q + 1
                       ELSE output_index_q
  /\ read_rsp_reg' = IF ReadFires THEN mixed[output_buffer_q][output_index_q]
                                  ELSE read_rsp_reg
  /\ render_request_active_q' = IF taken THEN FALSE
                                ELSE IF admit THEN TRUE
                                ELSE render_request_active_q
  /\ request_accepted_pulse' = admit
  /\ next_block_q' = NextBlock
  /\ played' = IF SampleFires(sample_ready) THEN played + 1 ELSE played

-----------------------------------------------------------------------------
(* The renderer's side of the contract. *)

RendererAdmit(room, pending) ==
  render_state = "IDLE" /\ ManagerRequest(room) /\ MixReqReady /\ ~pending

(* Contributions the renderer may offer on this edge. *)
Offers ==
  {NoContribution} \cup
    IF render_state = "RENDER"
    THEN {c \in [voice : {{v} : v \in Voices}, frame : Frames] :
            \A v \in c.voice : <<v, bank_start[fill_bank]>> \notin mixed[fill_bank][c.frame]}
    ELSE {}

RendererCycle(admit, drained) ==
  render_state' =
    IF admit THEN "WAIT_FILL"
    ELSE IF render_state = "WAIT_FILL" /\ FillReady THEN "RENDER"
    ELSE IF render_state = "RENDER" /\ drained THEN "FINISH"
    ELSE IF render_state = "FINISH" /\ FinishReady THEN "IDLE"
    ELSE render_state

(* One clock edge.  pending: commands hold the block back (action_pending); *)
(* drained: the renderer has nothing left to contribute.                    *)
Cycle(room, pending, drained, sample_ready) ==
  LET admit == RendererAdmit(room, pending)
      finish == render_state = "FINISH" /\ FinishReady
  IN \E contribution \in Offers :
       /\ drained => contribution = NoContribution
       /\ BankCycle(admit, contribution, finish)
       /\ OutputCycle(admit, sample_ready)
       /\ RendererCycle(admit, drained)

(* A reset starts the timeline over; the accumulators keep what they held. *)
CoreReset ==
  /\ bank_state' = [b \in Banks |-> "FREE"]
  /\ bank_start' = [b \in Banks |-> 0]
  /\ fill_bank' = 0
  /\ clear_index' = 0
  /\ complete_reg' = NoBank
  /\ mixed' = mixed
  /\ output_state_q' = "IDLE"
  /\ output_buffer_q' = 0
  /\ output_index_q' = 0
  /\ read_rsp_reg' = {}
  /\ render_request_active_q' = FALSE
  /\ request_accepted_pulse' = FALSE
  /\ next_block_q' = 0
  /\ played' = 0

Reset == CoreReset /\ render_state' = "IDLE"

ClockEdge == \E room, pending, drained, sample_ready \in BOOLEAN :
               Cycle(room, pending, drained, sample_ready)

Next == ClockEdge \/ Reset

Spec == Init /\ [][Next]_pipeVars

(* The clock runs.  The output FIFO drains at the sample rate, so it keeps *)
(* getting room and keeps taking samples; commands do not hold a block     *)
(* back for ever; the renderer ends each block.  These are independent.   *)
Fairness ==
  /\ WF_pipeVars(\E room, drained, sample_ready \in BOOLEAN :
                   room /\ Cycle(room, FALSE, drained, sample_ready))
  /\ WF_pipeVars(\E room, pending, drained \in BOOLEAN :
                   Cycle(room, pending, drained, TRUE))
  /\ WF_pipeVars(\E room, pending, sample_ready \in BOOLEAN :
                   Cycle(room, pending, TRUE, sample_ready))

FairSpec == Spec /\ Fairness

-----------------------------------------------------------------------------
(* Properties. *)

(* The frame the manager is reading is the next one of the timeline: with  *)
(* two banks in flight and the start frame advancing one edge after the    *)
(* request it belongs to, no frame is played twice, skipped or reordered.  *)
TimelineInOrder ==
  output_state_q \in {"READ_REQUEST", "READ_RESPONSE"} =>
    bank_start[output_buffer_q] * FrameCount + output_index_q = played

(* A frame reaches the effects with contributions of its own block only:   *)
(* the bank was cleared of the block it held before, whenever that was.    *)
NoResidue ==
  /\ \A b \in Banks : bank_state[b] \in {"FILLING", "PUBLISHED", "OWNED"} =>
       \A f \in Frames : \A s \in mixed[b][f] : s[2] = bank_start[b]
  /\ output_state_q = "READ_RESPONSE" =>
       \A s \in read_rsp_reg : s[2] = bank_start[output_buffer_q]

(* The bank states and the two machines that own the banks agree: at most  *)
(* one bank is being filled, exactly while the renderer has a block, and   *)
(* the manager's bank is its own while it drains it.                       *)
BankOwnership ==
  /\ (render_state # "IDLE") <=> \E b \in Banks : bank_state[b] \in {"CLEARING", "FILLING"}
  /\ render_state # "IDLE" => bank_state[fill_bank] \in {"CLEARING", "FILLING"}
  /\ render_state \in {"RENDER", "FINISH"} => FillReady
  /\ \A b \in Banks : bank_state[b] = "PUBLISHED" <=> complete_reg = b
  /\ \A b \in Banks : bank_state[b] = "OWNED" <=>
                        (output_state_q # "IDLE" /\ output_buffer_q = b)
  /\ render_request_active_q <=> (render_state # "IDLE" \/ complete_reg # NoBank)

(* The two banks carry the timeline: the frame being played is the next    *)
(* one, it holds contributions of its own block only, and the renderer,    *)
(* the completion register and the output manager agree on who owns which  *)
(* bank.                                                                   *)
BanksInOrder == TimelineInOrder /\ NoResidue /\ BankOwnership

(* The timeline never stalls: once the core is not reset any more, every   *)
(* block is asked for, rendered and played to its last frame; renderer,    *)
(* banks and output never wait on each other in a circle.                  *)
TimelineAdvances ==
  <>[][ClockEdge]_pipeVars => <>(played = MaxBlocks * FrameCount)
=============================================================================
