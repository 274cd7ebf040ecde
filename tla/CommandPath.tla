---------------------------- MODULE CommandPath ----------------------------
(***************************************************************************)
(* From the command sink of the voice runtime to the command port of the   *)
(* FPGA: the batch that collects whole commands, the ring of frames that   *)
(* DMA sends from in place, the interrupt that retires a frame and starts  *)
(* the next, the blocking exchanges that share the bus, and the monitor    *)
(* that reads the FPGA's count of malformed commands.  A command frame is  *)
(* never acknowledged: the bridge takes it whole or refuses it (SpiBridge), *)
(* and a refusal lights spi_error and is counted nowhere.                  *)
(***************************************************************************)
EXTENDS Integers, Sequences, SequencesExt

CONSTANTS
  FrameWords,     \* FPGA_SPI_MAX_COMMAND_WORDS
  QueueCapacity,  \* SPI_DMA_QUEUE_CAPACITY
  CommandWords,   \* lengths a command may have
  MaxCommands,    \* bound: commands the sink accepts
  MaxErrors,      \* bound: malformed commands counted in a session
  MaxResets       \* bound: session resets

ASSUME PathAssumption ==
  /\ FrameWords \in Nat \ {0} /\ QueueCapacity \in Nat \ {0}
  /\ CommandWords \subseteq 1 .. FrameWords
  /\ {MaxCommands, MaxErrors, MaxResets} \subseteq Nat

DmaSlots == 0 .. QueueCapacity - 1

VARIABLES
  batch,          \* app_command_batch
  frames, read_index, write_index, count,    \* dma_queue
  dma_active,
  core,           \* what core 1 is inside of: "loop", "enqueue" or "exchange"
  held,           \* the command that waits for the batch to be flushed
  pathReady,      \* fpga_session_ready
  errors, known,  \* command_error_count: the FPGA's, and as the MCU read it
  pathFault,      \* app_control_fault
  \* history
  admitted,       \* commands the sink said yes to in this session, in order
  delivered,      \* commands the FPGA took in this session, in order
  lost,           \* the FPGA did not apply some frame of this session
  commands, resets

ringVars == <<frames, read_index, write_index, count, dma_active>>
pathVars == <<batch, ringVars, core, held, pathReady, errors, known, pathFault,
          admitted, delivered, lost, commands, resets>>

Words(cs) == FoldLeft(LAMBDA n, c : n + c.words, 0, cs)

PathInit ==
  /\ batch = << >> /\ held = << >>
  /\ frames = [s \in DmaSlots |-> << >>] /\ read_index = 0 /\ write_index = 0 /\ count = 0
  /\ dma_active = FALSE /\ core = "loop" /\ pathReady = TRUE
  /\ errors = 0 /\ known = 0 /\ pathFault = FALSE
  /\ admitted = << >> /\ delivered = << >> /\ lost = FALSE
  /\ commands = 0 /\ resets = 0

-----------------------------------------------------------------------------
(* The batch. *)

FitsBatch(command) == Words(batch) + command.words <= FrameWords

(* The sink takes a command at once, or after flushing the batch it does   *)
(* not fit into.  Off line, a flush throws the batch away.                 *)
AppendCommand(n) ==
  LET command == [id |-> commands + 1, words |-> n]
  IN  /\ core = "loop" /\ ~pathFault /\ pathReady /\ commands < MaxCommands
      /\ commands' = commands + 1
      /\ IF FitsBatch(command)
         THEN /\ batch' = Append(batch, command)
              /\ admitted' = Append(admitted, command)
              /\ UNCHANGED <<core, held>>
         ELSE core' = "enqueue" /\ held' = <<command>> /\ UNCHANGED <<batch, admitted>>
      /\ UNCHANGED <<ringVars, pathReady, errors, known, pathFault, delivered, lost, resets>>

FlushCommands ==
  /\ core = "loop" /\ ~pathFault /\ batch # << >>
  /\ IF pathReady THEN core' = "enqueue" /\ UNCHANGED batch
              ELSE batch' = << >> /\ UNCHANGED core
  /\ UNCHANGED <<ringVars, held, pathReady, errors, known, pathFault, admitted, delivered,
                 lost, commands, resets>>

-----------------------------------------------------------------------------
(* The frame queue, with interrupts disabled. *)

NextSlot(index) == (index + 1) % QueueCapacity

HasRoom == count < QueueCapacity

(* The frame is copied into the ring and DMA started if it is idle; then   *)
(* the batch starts over with the command that did not fit.                *)
EnqueueFrame ==
  /\ core = "enqueue" /\ HasRoom
  /\ frames' = [frames EXCEPT ![write_index] = batch]
  /\ write_index' = NextSlot(write_index)
  /\ count' = count + 1
  /\ dma_active' = TRUE
  /\ batch' = held /\ admitted' = admitted \o held
  /\ held' = << >> /\ core' = "loop"
  /\ UNCHANGED <<read_index, pathReady, errors, known, pathFault, delivered, lost, commands, resets>>

(* Mutant of EnqueueTimeout: the batch is given up with the frame. *)
EnqueueTimeoutDrops ==
  /\ core = "enqueue" /\ ~HasRoom
  /\ core' = "loop" /\ batch' = << >> /\ held' = << >>
  /\ UNCHANGED <<ringVars, pathReady, errors, known, pathFault, admitted, delivered,
                 lost, commands, resets>>

(* No room for APP_SPI_ENQUEUE_TIMEOUT_US: the command is refused, the     *)
(* batch kept, and the error latches the fault of the control core.        *)
EnqueueTimeout ==
  /\ core = "enqueue" /\ ~HasRoom
  /\ core' = "loop" /\ pathFault' = TRUE /\ held' = << >>
  /\ UNCHANGED <<batch, ringVars, pathReady, errors, known, admitted, delivered,
                 lost, commands, resets>>

(* What the FPGA makes of a frame of commands cs when chip select rises,   *)
(* having applied got and counted e errors so far.  It takes the frame; or *)
(* the bridge refuses it, as it does when the CRC, the length or a busy    *)
(* commit says so, and counts nothing; or the words that reach the parser  *)
(* are not commands and the parser counts that.                            *)
FrameArrives(got, cs, e, l) ==
  \/ delivered' = got \o cs /\ errors' = e /\ lost' = l
  \/ /\ delivered' = got /\ lost' = TRUE
     /\ errors' \in {e, e + 1} /\ errors' <= MaxErrors

(* Mutant of DmaIrq: the next frame is started before this one is retired. *)
DmaIrqStartsFirst ==
  /\ dma_active
  /\ delivered' = delivered \o frames[read_index]
  /\ read_index' = NextSlot(read_index)
  /\ count' = count - 1
  /\ dma_active' = FALSE
  /\ UNCHANGED <<batch, frames, write_index, core, held, pathReady, known, pathFault,
                 admitted, errors, lost, commands, resets>>

(* A transfer ends: chip select rises, the FPGA takes the frame or does    *)
(* not, which DMA cannot tell; the slot is retired and the next one        *)
(* started.                                                                *)
DmaIrq ==
  /\ dma_active
  /\ FrameArrives(delivered, frames[read_index], errors, lost)
  /\ read_index' = NextSlot(read_index)
  /\ count' = count - 1
  /\ dma_active' = (count > 1)
  /\ UNCHANGED <<batch, frames, write_index, core, held, pathReady, known, pathFault,
                 admitted, commands, resets>>

-----------------------------------------------------------------------------
(* Register reads, completion polls and resets use the bus directly. *)

SpiIdle == ~dma_active /\ count = 0

(* Both monitors look at the bus only with an empty batch and an idle queue. *)
ExchangeStart ==
  /\ core = "loop" /\ ~pathFault /\ pathReady /\ batch = << >> /\ SpiIdle
  /\ core' = "exchange"
  /\ UNCHANGED <<batch, ringVars, held, pathReady, errors, known, pathFault, admitted,
                 delivered, lost, commands, resets>>

CountChanged == errors # known

(* The exchange was a completion poll, or the monitor's look at the error  *)
(* count: a change stops the control core.                                 *)
ExchangeEnd ==
  /\ core = "exchange" /\ core' = "loop"
  /\ \/ UNCHANGED <<known, pathFault>>
     \/ known' = errors /\ pathFault' = CountChanged
  /\ UNCHANGED <<batch, ringVars, held, pathReady, errors, admitted, delivered,
                 lost, commands, resets>>

(* A bus that stays busy, or an exchange that keeps failing, takes the     *)
(* session off line.                                                       *)
MarkOffline ==
  /\ ~pathFault /\ pathReady /\ batch = << >>
  /\ core = "exchange" \/ (core = "loop" /\ ~SpiIdle)
  /\ core' = "loop" /\ pathReady' = FALSE
  /\ UNCHANGED <<batch, ringVars, held, errors, known, pathFault, admitted, delivered,
                 lost, commands, resets>>

(* The commands of the audio defaults, sent at once and past the batch. *)
DefaultCommands == <<[id |-> 0, words |-> 1]>>

(* A session reset empties the batch, waits for the queue, restarts the    *)
(* FPGA, whose error count starts over, and sends the audio defaults as    *)
(* the first frame of the new session.  One that the monitor asked for     *)
(* then reads the count to compare with, unless the read fails; one that   *)
(* was asked for on line keeps the count it has.  If the queue does not    *)
(* drain, the FPGA does not answer or the defaults are not written, the    *)
(* session is off line, and a reset asked for by the completion poll or    *)
(* by MIDI has failed for good.                                            *)
PathReset ==
  /\ core = "loop" /\ ~pathFault /\ resets < MaxResets
  /\ resets' = resets + 1
  /\ batch' = << >>
  /\ \/ /\ SpiIdle
        /\ pathReady' = TRUE
        /\ admitted' = DefaultCommands
        /\ FrameArrives(<< >>, DefaultCommands, 0, FALSE)
        /\ known' = known \/ (~pathReady /\ known' = errors')
        /\ UNCHANGED pathFault
     \/ /\ pathReady' = FALSE
        /\ pathFault' = FALSE \/ (pathReady /\ pathFault' = TRUE)
        /\ UNCHANGED <<errors, known, admitted, delivered, lost>>
  /\ UNCHANGED <<ringVars, core, held, commands>>

Enqueue == EnqueueFrame \/ EnqueueTimeout
Exchange == ExchangeStart \/ ExchangeEnd \/ MarkOffline

PathNext ==
  \/ \E n \in CommandWords : AppendCommand(n)
  \/ FlushCommands \/ Enqueue \/ DmaIrq \/ Exchange \/ PathReset

(* Core 1 flushes in every millisecond of its loop and does not stay in a  *)
(* handler; the DMA engine ends every transfer it has started.             *)
PathFairness ==
  WF_pathVars(FlushCommands) /\ WF_pathVars(Enqueue) /\ WF_pathVars(DmaIrq) /\ WF_pathVars(ExchangeEnd)
FairPathSpec == PathInit /\ [][PathNext]_pathVars /\ PathFairness

-----------------------------------------------------------------------------
QueuedFrames == FlattenSeq([i \in 1 .. count |-> frames[(read_index + i - 1) % QueueCapacity]])

(* Every command the sink has admitted is in exactly one place, in order:  *)
(* taken by the FPGA, waiting in the ring or still in the batch, until the *)
(* FPGA refuses a frame.  A full batch, a full ring, a timeout of the      *)
(* enqueue, the interrupt between any two steps, a reset and the frame of  *)
(* defaults it sends past the batch neither lose, repeat, reorder nor      *)
(* split a command (command_batch.c, spi_dma_queue.c).                     *)
NothingLost ==
  pathReady /\ ~lost => admitted = delivered \o QueuedFrames \o batch

(* Whatever is admitted leaves the batch and the ring, or the core stops:  *)
(* no wait between the enqueue, the interrupt and the monitors is circular. *)
EverythingSent == <>[](pathFault \/ (batch = << >> /\ count = 0))
=============================================================================
