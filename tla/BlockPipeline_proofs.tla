------------------------ MODULE BlockPipeline_proofs ------------------------
(***************************************************************************)
(* The two banks carry the timeline for every set of voices, every block   *)
(* length and any number of blocks.                                        *)
(***************************************************************************)
EXTENDS BlockPipeline, TLAPS

-----------------------------------------------------------------------------
(* The inductive invariant. *)

BankStates == {"FREE", "CLEARING", "FILLING", "PUBLISHED", "OWNED"}

(* Every register holds a value of its width. *)
PipeTypeOK ==
  /\ bank_state \in [Banks -> BankStates]
  /\ bank_start \in [Banks -> Nat]
  /\ fill_bank \in Banks
  /\ clear_index \in Frames
  /\ complete_reg \in Banks \cup {NoBank}
  /\ mixed \in [Banks -> [Frames -> SUBSET (Voices \X Nat)]]
  /\ output_state_q \in {"IDLE", "READ_REQUEST", "READ_RESPONSE", "RELEASE"}
  /\ output_buffer_q \in Banks
  /\ output_index_q \in Frames
  /\ read_rsp_reg \in SUBSET (Voices \X Nat)
  /\ render_request_active_q \in BOOLEAN
  /\ request_accepted_pulse \in BOOLEAN
  /\ next_block_q \in Nat
  /\ played \in Nat
  /\ render_state \in {"IDLE", "WAIT_FILL", "RENDER", "FINISH"}

(* A published bank holds the next admission back: the renderer and the    *)
(* completion register never have a block each, and only the bank the      *)
(* renderer points at is being filled.                                     *)
OneUnfinished ==
  /\ \A b \in Banks : bank_state[b] \in {"CLEARING", "FILLING"} => b = fill_bank
  /\ render_state # "IDLE" => complete_reg = NoBank
  /\ request_accepted_pulse => render_request_active_q

(* The block that is to be played after those the output has taken: the    *)
(* unfinished one, or the next one to be admitted.                         *)
Upcoming == IF render_request_active_q THEN NextBlock - 1 ELSE NextBlock

(* The timeline of two blocks in flight: the unfinished block is the last  *)
(* one admitted, the one being drained is the one before it, and what has  *)
(* been played ends where they say.                                        *)
TimelinePositions ==
  /\ render_request_active_q => NextBlock > 0
  /\ render_state # "IDLE" => bank_start[fill_bank] = Upcoming
  /\ complete_reg # NoBank => bank_start[complete_reg] = Upcoming
  /\ output_state_q # "IDLE" => bank_start[output_buffer_q] + 1 = Upcoming
  /\ output_state_q \in {"IDLE", "RELEASE"} => played = Upcoming * FrameCount

(* A bank being cleared is clean up to its index. *)
ClearedSoFar ==
  \A b \in Banks : bank_state[b] = "CLEARING" =>
    \A f \in Frames : f < clear_index => mixed[b][f] = {}

PipeInv ==
  /\ PipeTypeOK
  /\ BanksInOrder
  /\ OneUnfinished
  /\ TimelinePositions
  /\ ClearedSoFar

-----------------------------------------------------------------------------
(* Facts about one edge. *)

(* A block is admitted into a free bank, with nothing unfinished. *)
LEMMA AdmitsWhenFinished ==
  ASSUME PipeInv, NEW room, NEW pending, RendererAdmit(room, pending)
  PROVE  /\ render_state = "IDLE" /\ complete_reg = NoBank
         /\ ~render_request_active_q /\ ~request_accepted_pulse
         /\ SelectedFreeBank \in Banks /\ bank_state[SelectedFreeBank] = "FREE"
         /\ \A b \in Banks : bank_state[b] \notin {"CLEARING", "FILLING"}
  BY DEF PipeInv, PipeTypeOK, OneUnfinished, BanksInOrder, BankOwnership, RendererAdmit,
         ManagerRequest, MixReqReady, SelectedFreeBank, Banks, BankStates, NoBank

(* An edge keeps the types of the bank registers. *)
LEMMA BankCycleType ==
  ASSUME PipeInv, NEW admit \in BOOLEAN, NEW finish \in BOOLEAN, NEW contribution \in Offers,
         BankCycle(admit, contribution, finish)
  PROVE  /\ bank_state' \in [Banks -> BankStates]
         /\ bank_start' \in [Banks -> Nat]
         /\ fill_bank' \in Banks
         /\ clear_index' \in Frames
         /\ complete_reg' \in Banks \cup {NoBank}
<1> USE DEF PipeInv, PipeTypeOK
<1>1. bank_state' \in [Banks -> BankStates]
  BY DEF BankCycle, BankStates
<1>2. SelectedFreeBank \in Banks
  BY DEF SelectedFreeBank, Banks
<1>3. bank_start' \in [Banks -> Nat] /\ fill_bank' \in Banks
  BY <1>2 DEF BankCycle
<1>4. clear_index' \in Frames
  BY PipelineAssumption DEF BankCycle, Frames, LastClear
<1>5. complete_reg' \in Banks \cup {NoBank}
  BY DEF BankCycle
<1> QED
  BY <1>1, <1>3, <1>4, <1>5

(* An edge keeps the types of the output registers. *)
LEMMA OutputCycleType ==
  ASSUME PipeInv, NEW admit \in BOOLEAN, NEW sample_ready \in BOOLEAN,
         OutputCycle(admit, sample_ready)
  PROVE  /\ output_state_q' \in {"IDLE", "READ_REQUEST", "READ_RESPONSE", "RELEASE"}
         /\ output_buffer_q' \in Banks
         /\ output_index_q' \in Frames
         /\ read_rsp_reg' \in SUBSET (Voices \X Nat)
         /\ render_request_active_q' \in BOOLEAN
         /\ request_accepted_pulse' \in BOOLEAN
         /\ next_block_q' \in Nat
         /\ played' \in Nat
<1> USE DEF PipeInv, PipeTypeOK, OutputCycle
<1>1. output_state_q' \in {"IDLE", "READ_REQUEST", "READ_RESPONSE", "RELEASE"}
  OBVIOUS
<1>2. output_buffer_q' \in Banks
  BY DEF Banks, NoBank
<1>3. output_index_q' \in Frames
  BY PipelineAssumption DEF Frames, LastFrame
<1>4. read_rsp_reg' \in SUBSET (Voices \X Nat)
  OBVIOUS
<1>5. render_request_active_q' \in BOOLEAN /\ request_accepted_pulse' \in BOOLEAN
  OBVIOUS
<1>6. next_block_q' \in Nat /\ played' \in Nat
  BY DEF NextBlock
<1> QED
  BY <1>1, <1>2, <1>3, <1>4, <1>5, <1>6

(* What a contribution adds to an accumulator has the type of one. *)
LEMMA AccumulatorType ==
  ASSUME PipeInv, NEW admit \in BOOLEAN, NEW finish \in BOOLEAN, NEW contribution \in Offers,
         BankCycle(admit, contribution, finish)
  PROVE  mixed' \in [Banks -> [Frames -> SUBSET (Voices \X Nat)]]
<1> USE DEF PipeInv, PipeTypeOK
<1>1. 0 \in Frames
  BY PipelineAssumption DEF Frames
<1>2. contribution.voice \subseteq Voices /\ contribution.frame \in Frames
  BY <1>1 DEF Offers, NoContribution
<1>3. Summand(contribution) \subseteq Voices \X Nat
  BY <1>2 DEF Summand
<1>4. PICK clearing : AccumulatorCycle(clearing, contribution)
  BY DEF BankCycle
<1> QED
  BY <1>2, <1>3, <1>4 DEF AccumulatorCycle

(* The renderer's state has its type. *)
LEMMA RendererType ==
  ASSUME PipeInv, NEW admit \in BOOLEAN, NEW drained \in BOOLEAN,
         RendererCycle(admit, drained)
  PROVE  render_state' \in {"IDLE", "WAIT_FILL", "RENDER", "FINISH"}
  BY DEF PipeInv, PipeTypeOK, RendererCycle

-----------------------------------------------------------------------------
(* One clock edge, conjunct by conjunct. *)

(* Ownership of the banks moves from the renderer to the completion        *)
(* register to the output and back, never to two of them at once.          *)
LEMMA EdgeOwnership ==
  ASSUME PipeInv, NEW room \in BOOLEAN, NEW pending \in BOOLEAN, NEW drained \in BOOLEAN,
         NEW sample_ready \in BOOLEAN, NEW contribution \in Offers,
         NEW admit \in BOOLEAN, admit = RendererAdmit(room, pending),
         NEW finish \in BOOLEAN, finish = (render_state = "FINISH" /\ FinishReady),
         BankCycle(admit, contribution, finish), OutputCycle(admit, sample_ready),
         RendererCycle(admit, drained)
  PROVE  BankOwnership' /\ OneUnfinished'
<1> USE DEF Banks, NoBank
<1>1. PipeTypeOK /\ BankOwnership /\ OneUnfinished
  BY DEF PipeInv, BanksInOrder
<1>2. admit => /\ render_state = "IDLE" /\ complete_reg = NoBank
               /\ ~render_request_active_q /\ ~request_accepted_pulse
               /\ SelectedFreeBank \in Banks /\ bank_state[SelectedFreeBank] = "FREE"
               /\ \A b \in Banks : bank_state[b] \notin {"CLEARING", "FILLING"}
  BY AdmitsWhenFinished
<1>3. SelectedFreeBank \in Banks
  BY DEF SelectedFreeBank
<1> DEFINE taken == complete_reg # NoBank /\ output_state_q = "IDLE"
           released == output_state_q = "RELEASE"
<1>4. ReleaseFires <=> released
  BY <1>1 DEF PipeTypeOK, BankOwnership, ReleaseFires
<1>5. /\ output_buffer_q' = IF taken THEN complete_reg ELSE output_buffer_q
      /\ (output_state_q' # "IDLE") <=> (taken \/ (output_state_q # "IDLE" /\ ~released))
      /\ render_request_active_q' = IF taken THEN FALSE
                                    ELSE IF admit THEN TRUE ELSE render_request_active_q
      /\ request_accepted_pulse' = admit
  BY <1>1, <1>4 DEF PipeTypeOK, OutputCycle, CompleteReady, ReadFires, SampleFires
<1>6. PICK clear \in BOOLEAN :
        bank_state' = [b \in Banks |->
          IF finish /\ b = fill_bank THEN "PUBLISHED"
          ELSE IF admit /\ b = SelectedFreeBank THEN "CLEARING"
          ELSE IF ~admit /\ bank_state[fill_bank] = "CLEARING" /\ clear /\ b = fill_bank
               THEN "FILLING"
          ELSE IF released /\ b = output_buffer_q THEN "FREE"
          ELSE IF taken /\ b = complete_reg THEN "OWNED"
          ELSE bank_state[b]]
  <2>1. LastClear \in BOOLEAN
    BY DEF LastClear
  <2> QED
    BY <1>4, <2>1 DEF BankCycle, CompleteReady
<1>7. /\ fill_bank' = IF admit THEN SelectedFreeBank ELSE fill_bank
      /\ complete_reg' = IF finish THEN fill_bank ELSE IF taken THEN NoBank ELSE complete_reg
  BY DEF BankCycle, CompleteReady
<1> USE DEF PipeTypeOK, BankOwnership, OneUnfinished, FillReady, FinishReady, BankStates
<1>8. CASE admit
  BY <1>1, <1>2, <1>5, <1>6, <1>7, <1>8 DEF RendererCycle
<1>9. CASE ~admit /\ finish
  <2>1. /\ render_state = "FINISH" /\ complete_reg = NoBank /\ bank_state[fill_bank] = "FILLING"
        /\ render_state' = "IDLE" /\ complete_reg' = fill_bank /\ fill_bank' = fill_bank
        /\ ~taken /\ render_request_active_q' = render_request_active_q
    BY <1>5, <1>7, <1>9 DEF RendererCycle
  <2>2. \A b \in Banks : bank_state'[b] = IF b = fill_bank THEN "PUBLISHED"
                                         ELSE IF released /\ b = output_buffer_q THEN "FREE"
                                         ELSE bank_state[b]
    BY <1>6, <1>9, <2>1
  <2> QED
    BY <1>1, <1>5, <1>9, <2>1, <2>2
<1>10. CASE ~admit /\ ~finish /\ taken
  BY <1>1, <1>5, <1>6, <1>7, <1>10 DEF RendererCycle
<1>11. CASE ~admit /\ ~finish /\ ~taken
  BY <1>1, <1>5, <1>6, <1>7, <1>11 DEF RendererCycle
<1> QED
  BY <1>8, <1>9, <1>10, <1>11

(* The next block starts one block length later. *)
LEMMA BlockLength ==
  ASSUME NEW k \in Nat
  PROVE  (k + 1) * FrameCount = k * FrameCount + FrameCount /\ k * FrameCount \in Nat
<1>1. FrameCount \in Nat
  BY PipelineAssumption
<1> QED
  BY <1>1, Z3

(* The start frames of the blocks in flight, and the frames played, move   *)
(* along the timeline.                                                     *)
LEMMA EdgeTimeline ==
  ASSUME PipeInv, NEW room \in BOOLEAN, NEW pending \in BOOLEAN, NEW drained \in BOOLEAN,
         NEW sample_ready \in BOOLEAN, NEW contribution \in Offers,
         NEW admit \in BOOLEAN, admit = RendererAdmit(room, pending),
         NEW finish \in BOOLEAN, finish = (render_state = "FINISH" /\ FinishReady),
         BankCycle(admit, contribution, finish), OutputCycle(admit, sample_ready),
         RendererCycle(admit, drained)
  PROVE  TimelinePositions' /\ TimelineInOrder'
<1> USE DEF Banks, NoBank
<1>1. PipeTypeOK /\ BankOwnership /\ OneUnfinished /\ TimelinePositions /\ TimelineInOrder
  BY DEF PipeInv, BanksInOrder
<1>2. admit => /\ render_state = "IDLE" /\ complete_reg = NoBank
               /\ ~render_request_active_q /\ ~request_accepted_pulse
               /\ SelectedFreeBank \in Banks /\ bank_state[SelectedFreeBank] = "FREE"
  BY AdmitsWhenFinished
<1>3. FrameCount \in Nat /\ FrameCount > 0
  BY PipelineAssumption
<1> DEFINE taken == complete_reg # NoBank /\ output_state_q = "IDLE"
           sampled == output_state_q = "READ_RESPONSE" /\ sample_ready
<1>4. /\ next_block_q' = NextBlock /\ request_accepted_pulse' = admit
      /\ render_request_active_q' = IF taken THEN FALSE
                                    ELSE IF admit THEN TRUE ELSE render_request_active_q
      /\ output_buffer_q' = IF taken THEN complete_reg ELSE output_buffer_q
      /\ played' = IF sampled THEN played + 1 ELSE played
  BY DEF OutputCycle, CompleteReady, SampleFires
<1>5. /\ fill_bank' = IF admit THEN SelectedFreeBank ELSE fill_bank
      /\ complete_reg' = IF finish THEN fill_bank ELSE IF taken THEN NoBank ELSE complete_reg
      /\ bank_start' = IF admit THEN [bank_start EXCEPT ![SelectedFreeBank] = next_block_q]
                       ELSE bank_start
  BY DEF BankCycle, CompleteReady
<1>6. NextBlock \in Nat /\ next_block_q \in Nat /\ (~request_accepted_pulse => NextBlock = next_block_q)
  BY <1>1 DEF NextBlock, PipeTypeOK
<1>7. NextBlock' = IF admit THEN NextBlock + 1 ELSE NextBlock
  BY <1>4 DEF NextBlock
<1>8. Upcoming' = IF taken THEN Upcoming + 1 ELSE Upcoming
  BY <1>1, <1>2, <1>4, <1>6, <1>7 DEF Upcoming, BankOwnership, PipeTypeOK
<1>9. Upcoming \in Nat
  BY <1>1, <1>6 DEF Upcoming, TimelinePositions
<1>10. (render_request_active_q => NextBlock > 0)'
  <2>1. render_request_active_q => NextBlock > 0
    BY <1>1 DEF TimelinePositions
  <2>2. render_request_active_q' => admit \/ render_request_active_q
    BY <1>4
  <2> QED
    BY <1>6, <1>7, <2>1, <2>2
<1>11. (render_state # "IDLE" => bank_start[fill_bank] = Upcoming)'
  BY <1>1, <1>2, <1>4, <1>5, <1>6, <1>8
     DEF TimelinePositions, RendererCycle, PipeTypeOK, OneUnfinished, Upcoming
<1>12. (complete_reg # NoBank => bank_start[complete_reg] = Upcoming)'
  BY <1>1, <1>2, <1>5, <1>8 DEF TimelinePositions, PipeTypeOK, FinishReady, OneUnfinished
<1>13. (output_state_q # "IDLE" => bank_start[output_buffer_q] + 1 = Upcoming)'
  BY <1>1, <1>2, <1>4, <1>5, <1>8, <1>9
     DEF TimelinePositions, PipeTypeOK, BankOwnership, OutputCycle, CompleteReady, ReadFires, SampleFires, ReleaseFires
<1>14. sampled => /\ played' = bank_start[output_buffer_q] * FrameCount + output_index_q + 1
                  /\ bank_start[output_buffer_q] + 1 = Upcoming
  BY <1>1, <1>4 DEF TimelineInOrder, TimelinePositions
<1>15. sampled /\ LastFrame => played' = Upcoming * FrameCount
  <2>1. SUFFICES ASSUME sampled, LastFrame PROVE played' = Upcoming * FrameCount
    OBVIOUS
  <2>2. output_index_q + 1 = FrameCount
    BY <1>1, <1>3, <2>1 DEF PipeTypeOK, Frames, LastFrame
  <2>3. bank_start[output_buffer_q] \in Nat /\ output_index_q \in Nat
    BY <1>1 DEF PipeTypeOK, Frames
  <2> QED
    BY <1>3, <1>14, <2>1, <2>2, <2>3, BlockLength
<1>16. (output_state_q \in {"IDLE", "RELEASE"} => played = Upcoming * FrameCount)'
  BY <1>1, <1>4, <1>8, <1>15
     DEF TimelinePositions, PipeTypeOK, OutputCycle, CompleteReady, ReadFires, SampleFires, ReleaseFires
<1>17. TimelineInOrder'
  <2>1. CASE taken
    <3>1. /\ output_buffer_q' = complete_reg /\ output_index_q' = 0 /\ played' = Upcoming * FrameCount
          /\ ~admit
      BY <1>1, <1>2, <1>4, <2>1 DEF TimelinePositions, OutputCycle, CompleteReady
    <3>2. bank_start'[complete_reg] = Upcoming
      BY <1>1, <1>5, <2>1, <3>1 DEF TimelinePositions
    <3> QED
      BY <1>9, <3>1, <3>2, BlockLength DEF TimelineInOrder
  <2>2. CASE ~taken /\ output_state_q # "IDLE"
    <3>1. bank_start'[output_buffer_q'] = bank_start[output_buffer_q]
      BY <1>1, <1>2, <1>4, <1>5, <2>2 DEF BankOwnership, PipeTypeOK
    <3>2. bank_start[output_buffer_q] * FrameCount \in Nat /\ output_index_q \in Nat
      <4>1. bank_start[output_buffer_q] \in Nat /\ output_index_q \in Nat
        BY <1>1 DEF PipeTypeOK, Frames
      <4> QED
        BY <4>1, BlockLength
    <3>3. CASE sampled
      <4>1. output_state_q' \in {"READ_REQUEST", "READ_RESPONSE"} => output_index_q' = output_index_q + 1
        BY <2>2, <3>3 DEF OutputCycle, CompleteReady, ReadFires, SampleFires
      <4> QED
        BY <1>14, <3>1, <3>2, <3>3, <4>1 DEF TimelineInOrder
    <3>4. CASE ~sampled
      <4>1. /\ output_index_q' = output_index_q /\ played' = played
            /\ output_state_q' \in {"READ_REQUEST", "READ_RESPONSE"} =>
                 output_state_q \in {"READ_REQUEST", "READ_RESPONSE"}
        BY <1>1, <1>4, <2>2, <3>4
           DEF OutputCycle, CompleteReady, ReadFires, ReleaseFires, SampleFires, PipeTypeOK
      <4> QED
        BY <1>1, <3>1, <4>1 DEF TimelineInOrder
    <3> QED
      BY <3>3, <3>4
  <2>3. CASE ~taken /\ output_state_q = "IDLE"
    BY <2>3 DEF OutputCycle, CompleteReady, ReadFires, ReleaseFires, SampleFires, TimelineInOrder
  <2> QED
    BY <2>1, <2>2, <2>3
<1> QED
  BY <1>10, <1>11, <1>12, <1>13, <1>16, <1>17 DEF TimelinePositions

(* A bank is filled only after every frame of it was cleared, and only     *)
(* with the block it was cleared for.                                      *)
LEMMA EdgeResidue ==
  ASSUME PipeInv, NEW room \in BOOLEAN, NEW pending \in BOOLEAN, NEW drained \in BOOLEAN,
         NEW sample_ready \in BOOLEAN, NEW contribution \in Offers,
         NEW admit \in BOOLEAN, admit = RendererAdmit(room, pending),
         NEW finish \in BOOLEAN, finish = (render_state = "FINISH" /\ FinishReady),
         BankCycle(admit, contribution, finish), OutputCycle(admit, sample_ready),
         RendererCycle(admit, drained)
  PROVE  ClearedSoFar' /\ NoResidue'
<1> USE DEF Banks, NoBank
<1>1. PipeTypeOK /\ BankOwnership /\ OneUnfinished /\ ClearedSoFar /\ NoResidue
  BY DEF PipeInv, BanksInOrder
<1>2. admit => /\ render_state = "IDLE" /\ complete_reg = NoBank
               /\ SelectedFreeBank \in Banks /\ bank_state[SelectedFreeBank] = "FREE"
               /\ \A b \in Banks : bank_state[b] \notin {"CLEARING", "FILLING"}
  BY AdmitsWhenFinished
<1> DEFINE clearing == ~admit /\ bank_state[fill_bank] = "CLEARING"
<1>3. contribution.frame \in Frames
  <2>1. 0 \in Frames
    BY PipelineAssumption DEF Frames
  <2> QED
    BY <2>1 DEF Offers, NoContribution
<1>4. /\ fill_bank \in Banks /\ clear_index \in Frames
      /\ mixed \in [Banks -> [Frames -> SUBSET (Voices \X Nat)]]
  BY <1>1 DEF PipeTypeOK
<1>5. AccumulatorCycle(clearing, contribution)
  BY DEF BankCycle
<1>6. /\ fill_bank' = IF admit THEN SelectedFreeBank ELSE fill_bank
      /\ bank_start' = IF admit THEN [bank_start EXCEPT ![SelectedFreeBank] = next_block_q]
                       ELSE bank_start
      /\ clear_index' = IF admit THEN 0
                        ELSE IF clearing /\ ~LastClear THEN clear_index + 1 ELSE clear_index
  BY DEF BankCycle
(* What a bank that is not being admitted has in its accumulators. *)
<1>7. ASSUME NEW b \in Banks, NEW f \in Frames
      PROVE  /\ mixed'[b][f] = {} \/ mixed'[b][f] = mixed[b][f]
                 \/ (b = fill_bank /\ FillReady
                       /\ mixed'[b][f] = mixed[b][f] \cup Summand(contribution))
             /\ clearing /\ b = fill_bank /\ f = clear_index => mixed'[b][f] = {}
             /\ b # fill_bank => mixed'[b][f] = mixed[b][f]
  <2>1. CASE clearing
    BY <1>3, <1>4, <1>5, <2>1 DEF AccumulatorCycle
  <2>2. CASE ~clearing /\ FillReady /\ contribution # NoContribution
    BY <1>3, <1>4, <1>5, <2>2 DEF AccumulatorCycle
  <2>3. CASE ~clearing /\ ~(FillReady /\ contribution # NoContribution)
    BY <1>3, <1>4, <1>5, <2>3 DEF AccumulatorCycle
  <2> QED
    BY <2>1, <2>2, <2>3
<1>8. ClearedSoFar'
  <2> SUFFICES ASSUME NEW b \in Banks, bank_state'[b] = "CLEARING",
                      NEW f \in Frames, f < clear_index'
               PROVE  mixed'[b][f] = {}
    BY DEF ClearedSoFar
  <2>1. ~admit
    BY <1>6 DEF Frames
  <2>2. bank_state[b] = "CLEARING" /\ b = fill_bank /\ clearing /\ ~LastClear
    BY <1>1, <2>1 DEF BankCycle, PipeTypeOK, OneUnfinished
  <2>3. f < clear_index \/ f = clear_index
    BY <1>4, <1>6, <2>1, <2>2 DEF Frames
  <2>4. f < clear_index => mixed[b][f] = {}
    BY <1>1, <2>2 DEF ClearedSoFar
  <2> QED
    BY <1>7, <2>2, <2>3, <2>4 DEF FillReady
<1>9. ASSUME NEW b \in Banks, bank_state'[b] \in {"FILLING", "PUBLISHED", "OWNED"},
             NEW f \in Frames, NEW s \in mixed'[b][f]
      PROVE  s[2] = bank_start'[b]
  <2>1. \/ bank_state[b] \in {"FILLING", "PUBLISHED", "OWNED"}
        \/ bank_state[b] = "CLEARING" /\ b = fill_bank /\ clearing /\ LastClear
    BY <1>1, <1>9 DEF BankCycle, BankOwnership, PipeTypeOK, BankStates, FinishReady, CompleteReady
  <2>2. bank_start'[b] = bank_start[b]
    BY <1>1, <1>2, <1>6, <2>1 DEF PipeTypeOK
  <2>3. CASE bank_state[b] \in {"FILLING", "PUBLISHED", "OWNED"}
    <3>1. \A x \in mixed[b][f] : x[2] = bank_start[b]
      BY <1>1, <2>3 DEF NoResidue
    <3>2. b = fill_bank => \A x \in Summand(contribution) : x[2] = bank_start[b]
      BY DEF Summand
    <3> QED
      BY <1>7, <1>9, <2>2, <3>1, <3>2
  <2>4. CASE bank_state[b] = "CLEARING" /\ b = fill_bank /\ clearing /\ LastClear
    <3>1. f < clear_index \/ f = clear_index
      BY <1>4, <2>4, PipelineAssumption DEF LastClear, Frames
    <3>2. f < clear_index => mixed[b][f] = {}
      BY <1>1, <2>4 DEF ClearedSoFar
    <3> QED
      BY <1>7, <1>9, <2>4, <3>1, <3>2 DEF FillReady
  <2> QED
    BY <2>1, <2>3, <2>4
<1>10. (output_state_q = "READ_RESPONSE" =>
          \A s \in read_rsp_reg : s[2] = bank_start[output_buffer_q])'
  <2> SUFFICES ASSUME output_state_q' = "READ_RESPONSE", NEW s \in read_rsp_reg'
               PROVE  s[2] = bank_start'[output_buffer_q']
    OBVIOUS
  <2>1. /\ output_state_q \in {"READ_REQUEST", "READ_RESPONSE"}
        /\ output_buffer_q' = output_buffer_q
        /\ output_state_q = "READ_REQUEST" => ReadFires
    BY <1>1 DEF OutputCycle, CompleteReady, ReadFires, SampleFires, ReleaseFires, PipeTypeOK
  <2>2. bank_state[output_buffer_q] = "OWNED" /\ output_buffer_q \in Banks
    BY <1>1, <2>1 DEF BankOwnership, PipeTypeOK
  <2>3. bank_start'[output_buffer_q] = bank_start[output_buffer_q]
    BY <1>1, <1>2, <1>6, <2>2 DEF PipeTypeOK
  <2>4. CASE ReadFires
    <3>1. s \in mixed[output_buffer_q][output_index_q] /\ output_index_q \in Frames
      BY <1>1, <2>4 DEF OutputCycle, PipeTypeOK
    <3> QED
      BY <1>1, <2>1, <2>2, <2>3, <3>1 DEF NoResidue
  <2>5. CASE ~ReadFires
    BY <1>1, <2>1, <2>3, <2>5 DEF NoResidue, OutputCycle
  <2> QED
    BY <2>4, <2>5
<1> QED
  BY <1>8, <1>9, <1>10 DEF NoResidue

-----------------------------------------------------------------------------
(* The theorem. *)

(* A clock edge keeps the invariant. *)
LEMMA ClockEdgeInv == PipeInv /\ ClockEdge => PipeInv'
<1> SUFFICES ASSUME PipeInv, ClockEdge PROVE PipeInv'
  OBVIOUS
<1>1. PICK room \in BOOLEAN, pending \in BOOLEAN, drained \in BOOLEAN, sample_ready \in BOOLEAN :
        Cycle(room, pending, drained, sample_ready)
  BY DEF ClockEdge
<1> DEFINE admit == RendererAdmit(room, pending)
           finish == render_state = "FINISH" /\ FinishReady
<1>2. PICK contribution \in Offers :
        /\ BankCycle(admit, contribution, finish)
        /\ OutputCycle(admit, sample_ready)
        /\ RendererCycle(admit, drained)
  BY <1>1 DEF Cycle
<1>3. admit \in BOOLEAN /\ finish \in BOOLEAN
  BY DEF RendererAdmit
<1> HIDE DEF admit, finish
<1>4. PipeTypeOK'
  BY <1>2, <1>3, BankCycleType, OutputCycleType, AccumulatorType, RendererType DEF PipeTypeOK
<1> USE DEF admit, finish
<1>5. BankOwnership' /\ OneUnfinished'
  BY <1>2, <1>3, EdgeOwnership, ZenonT(60)
<1>6. TimelinePositions' /\ TimelineInOrder'
  BY <1>2, <1>3, EdgeTimeline, ZenonT(60)
<1>7. ClearedSoFar' /\ NoResidue'
  BY <1>2, <1>3, EdgeResidue, ZenonT(60)
<1> QED
  BY <1>4, <1>5, <1>6, <1>7 DEF PipeInv, BanksInOrder

(* After a reset, and at power on, both banks are free and the timeline    *)
(* starts over; the accumulators keep what they held.                      *)
LEMMA ResetInv ==
  ASSUME PipeInv, Reset
  PROVE  PipeInv'
<1>1. 0 \in Frames /\ FrameCount \in Nat
  BY PipelineAssumption DEF Frames
<1>2. PipeTypeOK'
  BY <1>1 DEF Reset, CoreReset, PipeInv, PipeTypeOK, Banks, NoBank, BankStates
<1>3. BankOwnership' /\ OneUnfinished'
  BY DEF Reset, CoreReset, BankOwnership, OneUnfinished, Banks, NoBank, FillReady
<1>4. TimelinePositions' /\ TimelineInOrder' /\ ClearedSoFar' /\ NoResidue'
  BY <1>1 DEF Reset, CoreReset, TimelinePositions, TimelineInOrder, ClearedSoFar, NoResidue,
              Upcoming, NextBlock, Banks, NoBank
<1> QED
  BY <1>2, <1>3, <1>4 DEF PipeInv, BanksInOrder

(* The power-on state satisfies the invariant. *)
LEMMA InitInv == Init => PipeInv
<1> SUFFICES ASSUME Init PROVE PipeInv
  OBVIOUS
<1>1. 0 \in Frames /\ FrameCount \in Nat
  BY PipelineAssumption DEF Frames
<1>2. PipeTypeOK
  BY <1>1 DEF Init, PipeInit, PipeTypeOK, Banks, NoBank, BankStates
<1>3. BankOwnership /\ OneUnfinished
  BY DEF Init, PipeInit, BankOwnership, OneUnfinished, Banks, NoBank, FillReady
<1>4. TimelinePositions /\ TimelineInOrder /\ ClearedSoFar /\ NoResidue
  BY <1>1 DEF Init, PipeInit, TimelinePositions, TimelineInOrder, ClearedSoFar, NoResidue,
              Upcoming, NextBlock, Banks, NoBank
<1> QED
  BY <1>2, <1>3, <1>4 DEF PipeInv, BanksInOrder

(* A step that changes nothing keeps the invariant. *)
LEMMA StutterInv == PipeInv /\ UNCHANGED pipeVars => PipeInv'
  BY DEF PipeInv, PipeTypeOK, BanksInOrder, TimelineInOrder, NoResidue, BankOwnership, FillReady,
         OneUnfinished, TimelinePositions, Upcoming, NextBlock, ClearedSoFar,
         pipeVars, bankVars, outputVars

(* Every register of the mix buffer, the output manager and the scheduler  *)
(* keeps its width, and the rest of the inductive invariant holds.         *)
THEOREM PipelineInvariant == Spec => []PipeInv
<1>1. PipeInv /\ [Next]_pipeVars => PipeInv'
  BY ClockEdgeInv, ResetInv, StutterInv DEF Next
<1> QED
  BY InitInv, <1>1, PTL DEF Spec

(* With any voices, any block length and any number of blocks: the frame   *)
(* being played is the next of the timeline, holds contributions of its    *)
(* own block only, and renderer, completion register and output manager    *)
(* agree on who owns which bank, whatever the command plane, the effects   *)
(* and resets do (block_mix_buffer, voice_major_output_scheduler).         *)
THEOREM BlocksPlayInOrder == Spec => []BanksInOrder
<1>1. PipeInv => BanksInOrder
  BY DEF PipeInv
<1> QED
  BY PipelineInvariant, <1>1, PTL
=============================================================================
