------------------------- MODULE CompletionSession -------------------------
(***************************************************************************)
(* The MCU's ownership of a render session, end to end: the completion     *)
(* poller (app_synth_service_completions and fpga_spi_read_completions),   *)
(* the acknowledged session reset (app_perform_render_session_reset and    *)
(* fpga_spi_reset_session), the transport monitor, the bridge's rejection  *)
(* of transactions while a reset is pending, the reset controller, and the *)
(* completion log itself, over an SPI link that can corrupt any frame.     *)
(* Either side can restart behind the other's back: the FPGA is            *)
(* power-cycled, or the watchdog reboots the MCU.                          *)
(*                                                                         *)
(* An SPI transaction is split where another actor can get in between; the *)
(* MCU's own computation between two transactions is one action.           *)
(***************************************************************************)
EXTENDS CompletionLog

CONSTANTS
  AttemptLimit,  \* APP_COMPLETION_ATTEMPT_LIMIT, exchanges per logical poll
  PollLimit,     \* APP_FPGA_SESSION_RESET_POLL_LIMIT, epoch reads per reset
  MaxRestarts    \* bound: FPGA power cycles and MCU reboots

ASSUME SessionAssumption ==
  /\ AttemptLimit \in Nat \ {0}
  /\ PollLimit \in Nat \ {0}
  /\ MaxRestarts \in Nat

NoEpoch == -1     \* the mailbox holds no response for the epoch register
NoSession == -1   \* the MCU owns no session

VARIABLES
  \* FPGA
  session_reset_req,   \* bridge register, held until the controller's ack
  resetting,           \* session_reset: core held in reset, memory draining
  session_epoch,
  epoch_q,             \* completion_log_epoch_q, latched with each response
  header_epoch,        \* the epoch in the header being shifted out
  asset_loaded,        \* PLATFORM_STATUS.ASSET_LOADED; low holds the core in reset
  mailbox,             \* epoch in the mailbox response register, or NoEpoch
  restarts,
  load_monitored,      \* the monitor has run since the asset went missing
  \* the 0x5d transaction in progress
  xfer,                \* "none", "request", "turnaround" or "data"
  rejected,            \* it started under a pending reset (STATE_REJECT)
  \* MCU
  pc,                  \* where core 1 is
  origin,              \* who asked for the session reset in progress
  fpga_session_ready,
  app_completion_sequence,
  mcu_epoch,           \* app_diagnostics.session_epoch
  previous_epoch,
  attempt,
  consecutive_failures,
  app_control_fault,   \* latched result code, by what it stands for
  mcu_session,         \* history: the FPGA session mcu_epoch was read from
  received,            \* history: events consumed since the local reset
  adopted              \* history: the last FPGA session the MCU opened

fpgaVars == <<session_reset_req, resetting, session_epoch, epoch_q,
              asset_loaded, mailbox, restarts, load_monitored>>
linkVars == <<stream, header_epoch, xfer, rejected>>
localVars == <<app_completion_sequence, mcu_session, received, adopted>>
faultVars == <<consecutive_failures, app_control_fault>>
mcuVars == <<pc, origin, fpga_session_ready, mcu_epoch, previous_epoch,
             attempt, faultVars, localVars>>
allVars == <<logVars, fpgaVars, linkVars, mcuVars>>

SessionInit ==
  /\ LogInit
  /\ session_reset_req = FALSE
  /\ resetting = FALSE
  /\ session_epoch = 0
  /\ epoch_q = 0
  /\ asset_loaded = TRUE
  /\ mailbox = NoEpoch
  /\ restarts = 0
  /\ load_monitored = FALSE
  /\ stream = NoStream
  /\ header_epoch = 0
  /\ xfer = "none"
  /\ rejected = FALSE
  /\ pc = "init"
  /\ origin = "init"
  /\ fpga_session_ready = FALSE
  /\ app_completion_sequence = 0
  /\ mcu_epoch = 0
  /\ previous_epoch = 0
  /\ attempt = 0
  /\ consecutive_failures = 0
  /\ app_control_fault = "none"
  /\ mcu_session = NoSession
  /\ received = << >>
  /\ adopted = NoSession

-----------------------------------------------------------------------------
(* The FPGA's own steps. *)

(* A voice ends.  The core is held in reset while a session reset runs and *)
(* until the sample asset is loaded.                                       *)
CompletionEvent ==
  /\ ~resetting
  /\ asset_loaded
  /\ \E event \in EventInputs \ {NoEvent} : LogCycle(event, NoQuery)
  /\ UNCHANGED <<fpgaVars, linkVars, mcuVars>>

(* RESET_IDLE to RESET_ASSERT and, on the next edge, RESET_DRAIN. *)
ResetAssert ==
  /\ session_reset_req
  /\ ~resetting
  /\ resetting' = TRUE
  /\ UNCHANGED <<logVars, linkVars, mcuVars, session_reset_req, session_epoch,
                 epoch_q, asset_loaded, mailbox, restarts,
                 load_monitored>>

(* RESET_DRAIN with no memory read outstanding, and the edges that follow: *)
(* the epoch moves, the acknowledge clears the log and the request, the    *)
(* controller is idle again.  No SPI transaction fits between those edges. *)
ResetDrained ==
  /\ resetting
  /\ session_epoch' = session_epoch + 1
  /\ resetting' = FALSE
  /\ session_reset_req' = FALSE
  /\ LogClear
  /\ UNCHANGED <<linkVars, mcuVars, epoch_q, asset_loaded, mailbox, restarts,
                 load_monitored>>

(* The FPGA is power-cycled: every register starts again, the transaction  *)
(* in progress reads zeros from here on, the asset must be loaded again.   *)
FpgaRestart ==
  /\ restarts < MaxRestarts
  /\ session < MaxSessions
  /\ restarts' = restarts + 1
  /\ LogClear
  /\ session_reset_req' = FALSE
  /\ resetting' = FALSE
  /\ session_epoch' = 0
  /\ epoch_q' = 0
  /\ asset_loaded' = FALSE
  /\ load_monitored' = FALSE
  /\ mailbox' = NoEpoch
  /\ stream' = NoStream
  /\ xfer' = IF xfer = "none" THEN "none" ELSE "dead"
  /\ UNCHANGED <<header_epoch, rejected, mcuVars>>

(* The SD load is over.  It takes seconds: while core 1 serves a session,  *)
(* the 100 ms monitor runs before the load ends.                           *)
AssetLoaded ==
  /\ ~asset_loaded
  /\ (fpga_session_ready /\ app_control_fault = "none") => load_monitored
  /\ asset_loaded' = TRUE
  /\ UNCHANGED <<logVars, linkVars, mcuVars, session_reset_req, resetting,
                 session_epoch, epoch_q, mailbox, restarts, load_monitored>>

-----------------------------------------------------------------------------
(* The completion poll. *)

(* Mutant of ResetLocalSession: the completion sequence survives. *)
ResetLocalSessionPartly(s) ==
  /\ mcu_session' = s
  /\ adopted' = IF s = NoSession THEN adopted ELSE s
  /\ UNCHANGED <<app_completion_sequence, received>>

(* app_reset_local_session, as far as this protocol can see it. *)
ResetLocalSession(s) ==
  /\ app_completion_sequence' = 0
  /\ received' = << >>
  /\ mcu_session' = s
  /\ adopted' = IF s = NoSession THEN adopted ELSE s

(* app_mark_session_offline *)
MarkSessionOffline ==
  IF fpga_session_ready
  THEN fpga_session_ready' = FALSE /\ ResetLocalSession(NoSession)
  ELSE UNCHANGED <<fpga_session_ready, localVars>>

(* The 1 ms poll: the command batch is empty and the SPI queue idle. *)
PollStart ==
  /\ pc = "loop" /\ app_control_fault = "none"
  /\ fpga_session_ready
  /\ pc' = "poll"
  /\ attempt' = 0
  /\ UNCHANGED <<logVars, fpgaVars, linkVars, origin, fpga_session_ready,
                 mcu_epoch, previous_epoch, faultVars, localVars>>

(* platform_spi_wait_idle expired before the poll. *)
PollBusy ==
  /\ pc = "loop" /\ app_control_fault = "none"
  /\ fpga_session_ready
  /\ MarkSessionOffline
  /\ UNCHANGED <<logVars, fpgaVars, linkVars, pc, origin, mcu_epoch,
                 previous_epoch, attempt, faultVars>>

(* CS falls: STATE_COMMAND, or STATE_REJECT while a reset is pending. *)
ExchangeStart ==
  /\ pc = "poll"
  /\ xfer = "none"
  /\ xfer' = "request"
  /\ rejected' = session_reset_req
  /\ UNCHANGED <<logVars, fpgaVars, mcuVars, stream, header_epoch>>

(* The request's CRC matches: the query reaches the log, perhaps on the    *)
(* same edge as an event, and the epoch is latched with the response.      *)
RequestAccepted ==
  /\ xfer = "request"
  /\ ~rejected
  /\ \E event \in EventInputs :
       /\ event # NoEvent => asset_loaded
       /\ LogCycle(event, app_completion_sequence)
  /\ epoch_q' = session_epoch
  /\ xfer' = "turnaround"
  /\ UNCHANGED <<session_reset_req, resetting, session_epoch, asset_loaded,
                 mailbox, restarts, load_monitored, stream, header_epoch,
                 rejected, mcuVars>>

(* A corrupt request, or a rejected transaction, asks the log nothing.  The *)
(* MISO side has only seen the opcode and will still shift a header out.   *)
RequestIgnored ==
  /\ xfer = "request"
  /\ xfer' = "turnaround"
  /\ UNCHANGED <<logVars, fpgaVars, mcuVars, stream, header_epoch, rejected>>

HeaderShifted ==
  /\ xfer = "turnaround"
  /\ LatchHeader
  /\ header_epoch' = epoch_q
  /\ xfer' = "data"
  /\ UNCHANGED <<fpgaVars, mcuVars, rejected>>

ItemShifted ==
  /\ xfer = "data"
  /\ StreamItem
  /\ UNCHANGED <<fpgaVars, mcuVars, header_epoch, xfer, rejected>>

(* CS rises. *)
ExchangeEnd ==
  /\ stream' = NoStream
  /\ xfer' = "none"
  /\ rejected' = FALSE
  /\ header_epoch' = 0

(* fpga_spi_read_completions' checks of an intact frame. *)
BatchWellFormed ==
  LET available == Distance(stream.header.write, app_completion_sequence)
  IN  /\ stream.header.status = 0
      /\ stream.header.start = app_completion_sequence
      /\ stream.header.count =
           IF available > BatchItems THEN BatchItems ELSE available

(* Mutant of AttemptFailed: the attempts are not counted. *)
AttemptFailedForEver ==
  UNCHANGED <<origin, mcu_epoch, previous_epoch, faultVars, attempt, pc,
              fpga_session_ready, localVars>>

(* fpga_spi_read_completions_retry after a failed exchange. *)
AttemptFailed ==
  /\ UNCHANGED <<origin, mcu_epoch, previous_epoch, faultVars>>
  /\ IF attempt + 1 < AttemptLimit
     THEN /\ attempt' = attempt + 1
          /\ UNCHANGED <<pc, fpga_session_ready, localVars>>
     ELSE /\ attempt' = 0
          /\ pc' = "loop"
          /\ MarkSessionOffline

(* The driver reports an error, or the response CRC does not match.  A     *)
(* transaction cut short by a restart always ends here.                    *)
ExchangeFailed ==
  /\ xfer \in {"data", "dead"}
  /\ ExchangeEnd
  /\ AttemptFailed
  /\ UNCHANGED <<logVars, fpgaVars>>

(* app_perform_render_session_reset, up to its first register read. *)
StartSessionReset(who) ==
  /\ fpga_session_ready' = FALSE
  /\ pc' = "reset_read"
  /\ origin' = who

(* An intact frame that fails the checks is one more failed attempt. *)
BatchRefused ==
  /\ xfer = "data"
  /\ StreamComplete
  /\ ~BatchWellFormed
  /\ ExchangeEnd
  /\ AttemptFailed
  /\ UNCHANGED <<logVars, fpgaVars>>

(* A well-formed batch of another session, or an overflowed log. *)
BatchForcesReset ==
  /\ xfer = "data"
  /\ StreamComplete
  /\ BatchWellFormed
  /\ header_epoch # mcu_epoch \/ stream.header.overflow
  /\ ExchangeEnd
  /\ StartSessionReset("poll")
  /\ attempt' = 0
  /\ UNCHANGED <<logVars, fpgaVars, mcu_epoch, previous_epoch,
                 faultVars, localVars>>

(* Every item is consumed, then the sequence moves.  app_consume_completion *)
(* does not fail on an item of a well-formed frame: its voice has nine bits *)
(* and its reason was checked.                                              *)
BatchConsumed ==
  /\ xfer = "data"
  /\ StreamComplete
  /\ BatchWellFormed
  /\ header_epoch = mcu_epoch
  /\ ~stream.header.overflow
  /\ ExchangeEnd
  /\ received' = received \o stream.items
  /\ app_completion_sequence' =
       Advance(app_completion_sequence, stream.header.count)
  /\ pc' = "loop"
  /\ attempt' = 0
  /\ UNCHANGED <<logVars, fpgaVars, origin, fpga_session_ready, mcu_epoch,
                 previous_epoch, faultVars, mcu_session, adopted>>

-----------------------------------------------------------------------------
(* The acknowledged session reset. *)

(* A register read of the epoch that returns value.  A request under a     *)
(* pending reset is rejected and leaves the last response in the mailbox,  *)
(* and so does one whose opcode is corrupt: the fetch then returns a stale *)
(* response, which passes the MCU's checks when it is for the same         *)
(* register.                                                               *)
EpochRead(value) ==
  \/ /\ ~session_reset_req
     /\ value = session_epoch
     /\ mailbox' = session_epoch
  \/ /\ mailbox # NoEpoch
     /\ value = mailbox
     /\ UNCHANGED mailbox

(* A register read that fails; a corrupt request empties the mailbox. *)
ReadFailed == mailbox' \in {mailbox, NoEpoch}

(* Which FPGA session an epoch value denotes when it is read. *)
SessionOf(value) == IF value = session_epoch THEN session ELSE NoSession

(* Where core 1 goes on after a reset, and what a failed one costs: during *)
(* app_synth_init it is fatal; the monitor and the console swallow it; the *)
(* error of a poll or of a SysEx reset goes to app_control_core_main, which *)
(* latches it and never runs the synth again.                              *)
FailedAt == IF origin = "init" THEN "halted" ELSE "loop"
LatchedFault ==
  IF origin \in {"poll", "sysex"} THEN "transport" ELSE app_control_fault

ResetFailed ==
  /\ pc' = FailedAt
  /\ app_control_fault' = LatchedFault
  /\ attempt' = 0
  /\ UNCHANGED <<fpga_session_ready, mcu_epoch, localVars>>

ReadPreviousEpoch ==
  /\ pc = "reset_read"
  /\ \/ \E value \in 0..MaxSessions :
          /\ EpochRead(value)
          /\ previous_epoch' = value
          /\ pc' = "reset_send"
          /\ UNCHANGED <<fpga_session_ready, mcu_epoch, attempt, localVars,
                         app_control_fault>>
     \/ /\ ReadFailed
        /\ ResetFailed
        /\ UNCHANGED previous_epoch
  /\ UNCHANGED <<logVars, linkVars, session_reset_req, resetting, session_epoch,
                 epoch_q, asset_loaded, restarts, load_monitored, origin,
                 consecutive_failures>>

(* The 0xa7 frame: accepted unless a reset is already pending, or lost; the *)
(* SPI driver may also report an error.                                     *)
SendSessionReset ==
  /\ pc = "reset_send"
  /\ \/ /\ ~session_reset_req
        /\ session < MaxSessions
        /\ session_reset_req' = TRUE
     \/ UNCHANGED session_reset_req
  /\ \/ /\ pc' = "reset_poll"
        /\ attempt' = 0
        /\ UNCHANGED <<fpga_session_ready, mcu_epoch, localVars, app_control_fault>>
     \/ ResetFailed
  /\ UNCHANGED <<logVars, linkVars, resetting, session_epoch, epoch_q,
                 asset_loaded, mailbox, restarts, load_monitored, origin,
                 previous_epoch, consecutive_failures>>

(* A changed epoch: the local tables are rebuilt, and the session opens    *)
(* unless the write of the audio defaults fails, or, in app_synth_init, a  *)
(* read of the error counters that follows.  The mailbox still holds the   *)
(* epoch: the monitor's own reads of the counters may be lost.             *)
SessionAcknowledged ==
  /\ pc = "reset_poll"
  /\ \E value \in 0..MaxSessions :
       /\ EpochRead(value)
       /\ value # previous_epoch
       /\ mcu_epoch' = value
       /\ ResetLocalSession(SessionOf(value))
  /\ \/ /\ fpga_session_ready' = TRUE
        /\ pc' = "loop"
        /\ UNCHANGED app_control_fault
     \/ /\ fpga_session_ready' = FALSE
        /\ pc' = FailedAt
        /\ app_control_fault' = LatchedFault
  /\ attempt' = 0
  /\ UNCHANGED <<logVars, linkVars, session_reset_req, resetting, session_epoch,
                 epoch_q, asset_loaded, restarts, load_monitored, origin, previous_epoch,
                 consecutive_failures>>

(* The same epoch, or no answer: poll again, up to the limit. *)
EpochUnchanged ==
  /\ pc = "reset_poll"
  /\ EpochRead(previous_epoch) \/ ReadFailed
  /\ IF attempt + 1 < PollLimit
     THEN /\ attempt' = attempt + 1
          /\ UNCHANGED <<pc, fpga_session_ready, mcu_epoch, localVars, app_control_fault>>
     ELSE ResetFailed
  /\ UNCHANGED <<logVars, linkVars, session_reset_req, resetting, session_epoch,
                 epoch_q, asset_loaded, restarts, load_monitored, origin, previous_epoch,
                 consecutive_failures>>

-----------------------------------------------------------------------------
(* The 100 ms transport monitor. *)

MonitorRuns == pc = "loop" /\ app_control_fault = "none"

MonitorUnreachable ==
  /\ MonitorRuns
  /\ ReadFailed
  /\ IF consecutive_failures = 0
     THEN consecutive_failures' = 1 /\ UNCHANGED <<fpga_session_ready, localVars>>
     ELSE UNCHANGED consecutive_failures /\ MarkSessionOffline
  /\ load_monitored' = (load_monitored \/ (~asset_loaded /\ consecutive_failures > 0))
  /\ UNCHANGED <<logVars, linkVars, session_reset_req, resetting, session_epoch,
                 epoch_q, asset_loaded, restarts, pc, origin, mcu_epoch,
                 previous_epoch, attempt, app_control_fault>>

(* Mutant of MonitorLoading: a missing asset does not close the session. *)
MonitorLoadingIgnored ==
  /\ MonitorRuns
  /\ ~session_reset_req
  /\ ~asset_loaded
  /\ consecutive_failures' = 0
  /\ load_monitored' = TRUE
  /\ mailbox' = NoEpoch
  /\ UNCHANGED <<logVars, linkVars, session_reset_req, resetting, session_epoch,
                 epoch_q, asset_loaded, restarts, pc, origin, mcu_epoch,
                 previous_epoch, attempt, app_control_fault, fpga_session_ready,
                 localVars>>

(* Other registers are read: the mailbox no longer holds the epoch. *)
MonitorLoading ==
  /\ MonitorRuns
  /\ ~session_reset_req
  /\ ~asset_loaded
  /\ consecutive_failures' = 0
  /\ load_monitored' = TRUE
  /\ mailbox' = NoEpoch
  /\ MarkSessionOffline
  /\ UNCHANGED <<logVars, linkVars, session_reset_req, resetting, session_epoch,
                 epoch_q, asset_loaded, restarts, pc, origin, mcu_epoch,
                 previous_epoch, attempt, app_control_fault>>

(* A session that is offline is reset, unless the asset size cannot be read. *)
MonitorReady ==
  /\ MonitorRuns
  /\ ~session_reset_req
  /\ asset_loaded
  /\ consecutive_failures' = 0
  /\ mailbox' = NoEpoch
  /\ \/ UNCHANGED <<pc, origin, fpga_session_ready>>
     \/ ~fpga_session_ready /\ StartSessionReset("monitor")
  /\ UNCHANGED <<logVars, linkVars, session_reset_req, resetting, session_epoch,
                 epoch_q, asset_loaded, restarts, load_monitored, mcu_epoch,
                 previous_epoch, attempt, app_control_fault, localVars>>

(* An incompatible image or asset, a platform error, or a command error    *)
(* count that moved while the session was up.                              *)
MonitorFault ==
  /\ MonitorRuns
  /\ ~session_reset_req
  /\ app_control_fault' = "other"
  /\ consecutive_failures' = 0
  /\ mailbox' = NoEpoch
  /\ UNCHANGED <<logVars, linkVars, session_reset_req, resetting, session_epoch,
                 epoch_q, asset_loaded, restarts, load_monitored, pc, origin,
                 fpga_session_ready, mcu_epoch, previous_epoch, attempt, localVars>>

(* A command batch or a MIDI command that the SPI queue does not take. *)
CommandFault ==
  /\ MonitorRuns
  /\ fpga_session_ready
  /\ app_control_fault' = "other"
  /\ UNCHANGED <<logVars, fpgaVars, linkVars, pc, origin, fpga_session_ready,
                 mcu_epoch, previous_epoch, attempt, consecutive_failures, localVars>>

(* app_operator_panic: from the UART console, which a latched fault does   *)
(* not stop, or from a SysEx message while a session is up.                *)
OperatorPanic ==
  /\ pc = "loop"
  /\ \/ StartSessionReset("console")
     \/ /\ fpga_session_ready /\ app_control_fault = "none"
        /\ StartSessionReset("sysex")
  /\ UNCHANGED <<logVars, fpgaVars, linkVars, mcu_epoch, previous_epoch,
                 attempt, faultVars, localVars>>

-----------------------------------------------------------------------------
(* MCU reboot, and app_synth_init up to its session reset. *)

(* The watchdog reboots the MCU: chip select rises, and every variable of  *)
(* the firmware starts again.  The FPGA notices nothing.                   *)
McuRestart ==
  /\ restarts < MaxRestarts
  /\ restarts' = restarts + 1
  /\ ExchangeEnd
  /\ pc' = "init"
  /\ origin' = "init"
  /\ fpga_session_ready' = FALSE
  /\ ResetLocalSession(NoSession)
  /\ mcu_epoch' = 0
  /\ previous_epoch' = 0
  /\ attempt' = 0
  /\ consecutive_failures' = 0
  /\ app_control_fault' = "none"
  /\ UNCHANGED <<logVars, session_reset_req, resetting, session_epoch, epoch_q,
                 asset_loaded, mailbox, load_monitored>>

(* The version, status and asset size read well; a failed read is repeated. *)
InitReady ==
  /\ pc = "init"
  /\ ~session_reset_req
  /\ asset_loaded
  /\ mailbox' = NoEpoch
  /\ pc' = "reset_read"
  /\ UNCHANGED <<logVars, linkVars, session_reset_req, resetting, session_epoch,
                 epoch_q, asset_loaded, restarts, load_monitored, origin,
                 fpga_session_ready, mcu_epoch, previous_epoch, attempt,
                 faultVars, localVars>>

(* 30000 attempts, an incompatible image or a platform error: fatal_blink. *)
InitFatal ==
  /\ pc = "init"
  /\ ReadFailed
  /\ pc' = "halted"
  /\ UNCHANGED <<logVars, linkVars, session_reset_req, resetting, session_epoch,
                 epoch_q, asset_loaded, restarts, load_monitored, origin,
                 fpga_session_ready, mcu_epoch, previous_epoch, attempt,
                 faultVars, localVars>>

-----------------------------------------------------------------------------
FpgaNext ==
  \/ CompletionEvent
  \/ ResetAssert
  \/ ResetDrained
  \/ FpgaRestart
  \/ AssetLoaded

PollNext ==
  \/ PollStart
  \/ PollBusy
  \/ ExchangeStart
  \/ RequestAccepted
  \/ RequestIgnored
  \/ HeaderShifted
  \/ ItemShifted
  \/ ExchangeFailed
  \/ BatchRefused
  \/ BatchForcesReset
  \/ BatchConsumed

ResetNext ==
  \/ ReadPreviousEpoch
  \/ SendSessionReset
  \/ SessionAcknowledged
  \/ EpochUnchanged

MonitorNext ==
  \/ MonitorUnreachable
  \/ MonitorLoading
  \/ MonitorReady
  \/ MonitorFault
  \/ CommandFault
  \/ OperatorPanic

InitNext ==
  \/ McuRestart
  \/ InitReady
  \/ InitFatal

SessionNext == FpgaNext \/ PollNext \/ ResetNext \/ MonitorNext \/ InitNext

SessionSpec == SessionInit /\ [][SessionNext]_allVars

(* Core 1 never stops while it has something to do, the reset controller   *)
(* and the SD load finish, and a transaction that was started ends.  The   *)
(* link may corrupt any frame, but not every request for ever.             *)
SessionFairness ==
  /\ WF_allVars(ResetAssert) /\ WF_allVars(ResetDrained)
  /\ WF_allVars(AssetLoaded)
  /\ WF_allVars(PollStart) /\ WF_allVars(ExchangeStart)
  /\ WF_allVars(RequestAccepted \/ RequestIgnored)
  /\ SF_allVars(RequestAccepted)
  /\ WF_allVars(HeaderShifted) /\ WF_allVars(ItemShifted)
  /\ WF_allVars(ExchangeFailed \/ BatchRefused \/ BatchForcesReset
                  \/ BatchConsumed)

FairSessionSpec == SessionSpec /\ SessionFairness

-----------------------------------------------------------------------------
(* "Retries are idempotent" (rp2040_firmware.md): while the MCU's session  *)
(* is the FPGA's, what the MCU has consumed is exactly a prefix of what    *)
(* the log accepted, whatever frames were corrupted, retried or answered   *)
(* from a stale header, and its sequence number is that prefix's length.   *)
ConsumedIsPrefix ==
  mcu_session = session =>
    /\ Len(received) <= Len(accepted)
    /\ received = SubSeq(accepted, 1, Len(received))
    /\ app_completion_sequence = Len(received) % SequenceMod

(* The MCU never consumes past a dropped event: its events are consecutive *)
(* completions of the render core, because the first batch queried after a *)
(* drop already carries the overflow flag and forces a session reset.      *)
NoGapConsumed ==
  \A i \in 1..(Len(received) - 1) : received[i + 1] = received[i] + 1

(* Once the asset is loaded, a session that core 1 serves and whose epoch  *)
(* matches the FPGA's, with no reset pending, is the FPGA's session: a     *)
(* power cycle that restarts the epoch at zero cannot be mistaken for the  *)
(* old one.                                                                *)
EpochIdentifiesSession ==
  (fpga_session_ready /\ app_control_fault = "none" /\ asset_loaded
     /\ mcu_epoch = session_epoch /\ ~session_reset_req) => mcu_session = session

(* The MCU consumes the log of the session it has opened, all of it in     *)
(* order and nothing else: sessions can be reset and either side power-    *)
(* cycled at any point of a poll, the header can be a stale one, and the   *)
(* ring keeps the entries of earlier sessions.                             *)
ConsumesOwnLog ==
  /\ ConsumedIsPrefix
  /\ NoGapConsumed
  /\ EpochIdentifiesSession

(* What the MCU holds of the current FPGA session. *)
Lease ==
  IF mcu_session = session THEN "held"
  ELSE IF adopted = session THEN "closed" ELSE "free"

Channel == INSTANCE CompletionChannel WITH
  Event <- 1..MaxEvents,
  logged <- accepted,
  consumed <- IF mcu_session = session THEN received ELSE << >>,
  lease <- Lease

(* The whole transport implements the abstract channel: in-order,          *)
(* exactly-once consumption, by an MCU that opens each session once.       *)
ImplementsChannel == Channel!Spec

(* Every logged event reaches the MCU, unless the MCU gives the session up *)
(* or latches a fault, or the FPGA loses it.                               *)
EventuallyConsumed ==
  \A i \in 1..MaxEvents :
    (fpga_session_ready /\ mcu_session = session /\ Len(accepted) >= i) ~>
      (\/ Len(received) >= i
       \/ ~fpga_session_ready \/ app_control_fault # "none"
       \/ mcu_session # session)

-----------------------------------------------------------------------------
(* What keeps ConsumesOwnLog and ImplementsChannel true from step to step. *)

SessionTypeOK ==
  /\ session_reset_req \in BOOLEAN /\ resetting \in BOOLEAN
  /\ fpga_session_ready \in BOOLEAN
  /\ session_epoch \in 0..MaxSessions /\ session_epoch <= session
  /\ mailbox \in Int /\ previous_epoch \in Int
  /\ app_completion_sequence \in SequenceNumbers
  /\ mcu_session \in Int /\ adopted \in Int
  /\ received \in Seq(1..MaxEvents)

(* Core 1 polls only in a session it has open, and a session it has open   *)
(* has no reset pending: the request, the poll and the session's end never *)
(* overlap, but for a restart of the FPGA.                                 *)
ControlConsistent ==
  /\ resetting => session_reset_req
  /\ session_reset_req => session < MaxSessions
  /\ fpga_session_ready => pc \in {"loop", "poll"} /\ ~session_reset_req
  /\ pc = "poll" => fpga_session_ready /\ app_control_fault = "none"
  /\ xfer # "none" => pc = "poll"
  /\ stream.active <=> xfer = "data"

(* Every header is one of the current session: a clear blanks the response *)
(* register, and no clear but a power cycle, which ends the transaction,   *)
(* happens under a stream.                                                 *)
HeadersCurrent ==
  /\ response.session = session
  /\ stream.active => stream.header.session = session

(* While a reset waits for a new epoch, the mailbox can only repeat the    *)
(* old one, so a changed epoch has been read from the register itself.     *)
StaleEpochHarmless ==
  pc \in {"reset_send", "reset_poll"} => mailbox \in {NoEpoch, previous_epoch}

(* A session is opened once: from then on every copy of its epoch that a   *)
(* later reset can compare against is the current one.                     *)
OpenedOnce ==
  /\ mcu_session # NoSession => mcu_session = adopted
  /\ NoSession <= adopted /\ adopted <= session
  /\ adopted = session =>
       /\ mailbox \in {NoEpoch, session_epoch}
       /\ pc \in {"reset_send", "reset_poll"} => previous_epoch = session_epoch

(* The session core 1 serves is the FPGA's, or the FPGA has just restarted *)
(* and will not log an event before the monitor has closed the old one.    *)
ServedIsOwned ==
  (fpga_session_ready /\ app_control_fault = "none" /\ mcu_session # session) =>
    ~asset_loaded /\ ~load_monitored /\ accepted = << >>

(* Nothing is acknowledged that the MCU has not consumed, and nothing at   *)
(* all in a session it has never opened.                                   *)
AcknowledgedConsumed ==
  /\ write_sequence_q = Len(accepted) % SequenceMod
  /\ adopted # session => Acknowledged = 0
  /\ mcu_session = session => Acknowledged <= Len(received)

(* The first n events of the session are consecutive completions. *)
NoGapIn(n) == \A i \in 1..(n - 1) : accepted[i + 1] = accepted[i] + 1

(* Nothing was dropped while the sticky flag is low, nor before a header   *)
(* that shows it low was built.                                            *)
DropsFlagged ==
  /\ ~overflow_q =>
       /\ NoGapIn(Len(accepted))
       /\ accepted # << >> => accepted[Len(accepted)] = emitted
  /\ (~response.overflow /\ response.count > 0) =>
       NoGapIn(Acknowledged + response.count)
  /\ (stream.active /\ ~stream.header.overflow /\ stream.header.count > 0) =>
       NoGapIn(Acknowledged + stream.header.count)

(* The inductive invariant of the whole transport. *)
SessionInv ==
  /\ LogInv
  /\ SessionTypeOK
  /\ ControlConsistent
  /\ HeadersCurrent
  /\ StaleEpochHarmless
  /\ OpenedOnce
  /\ ServedIsOwned
  /\ AcknowledgedConsumed
  /\ DropsFlagged
  /\ ConsumedIsPrefix
  /\ NoGapConsumed
=============================================================================
