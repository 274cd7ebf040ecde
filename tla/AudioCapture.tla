---------------------------- MODULE AudioCapture ----------------------------
(***************************************************************************)
(* From the I2S pins to USB audio: the DMA ring and its producer count,    *)
(* the clock monitor, the restart that discards and realigns the capture,  *)
(* the stream policy that sizes packets, all run by core 0's main loop,    *)
(* and the resync request that core 1 makes without a lock after each FPGA *)
(* session reset.  Time passes in milliseconds; each brings the frames of  *)
(* one tick of the external clock and one USB packet slot.                 *)
(***************************************************************************)
EXTENDS Integers, FiniteSets, FiniteSetsExt

CONSTANTS
  Ring,          \* I2S_RING_FRAME_COUNT
  FrameMod,      \* 2^32: the width of the frame counters
  Nominal,       \* APP_USB_AUDIO_NOMINAL_FRAMES, also the frames of one tick
  Target,        \* APP_USB_AUDIO_TARGET_FRAMES
  Margin,        \* APP_USB_AUDIO_ADJUST_MARGIN
  Window,        \* I2S_CLOCK_WINDOW_US, in ticks
  Stopped,       \* I2S_CLOCK_STOPPED_US, in ticks
  MaxFpgaResets  \* bound: FPGA session resets

ASSUME CaptureAssumption ==
  /\ {Ring, Nominal, Target, Window, Stopped} \subseteq Nat \ {0}
  /\ {FrameMod, Margin, MaxFpgaResets} \subseteq Nat
  /\ Target <= Ring /\ Nominal <= Target - Margin
  /\ FrameMod % Ring = 0 /\ FrameMod > Ring + 2 * (Nominal + 1)

VARIABLES
  completed,     \* capture_completed_count
  written,       \* frames of the current DMA block: Ring - transfer_count
  read,          \* capture_read_count
  monitor,       \* capture_clock_monitor
  clock_valid,   \* capture_clock_valid
  resync,        \* capture_resync_pending
  usbStream,     \* usb_audio_stream
  core0,         \* the next step of core 0's loop
  requester,     \* core 1: "idle", "reset" (FPGA reset done) or "half" (first store)
  elapsed,       \* milliseconds since the monitor's last sample
  due,           \* the host has taken a packet: the callback is due
  \* history
  fresh,         \* ring slots written since the last restart
  aligned,       \* the PIO was synchronised after the FPGA's last reset
  fpgaResets,
  steady         \* from now on the clock runs at its rate and nothing is reset

dmaVars == <<completed, written, fresh>>
usbVars == <<usbStream, due>>
captureVars == <<dmaVars, read, monitor, clock_valid, resync, usbVars, core0, requester,
                 elapsed, aligned, fpgaResets, steady>>

FreshMonitor(n) ==
  [prev |-> n, frames |-> 0, time |-> 0, stopped |-> 0, valid |-> FALSE,
   seen |-> FALSE, recovery |-> FALSE]

CaptureInit ==
  /\ completed = 0 /\ written = 0 /\ read = 0 /\ fresh = {}
  /\ monitor = FreshMonitor(0) /\ clock_valid = FALSE /\ resync = TRUE
  /\ usbStream = [started |-> FALSE, resync |-> TRUE]
  /\ core0 = "monitor" /\ requester = "idle"
  /\ elapsed = 0 /\ due = FALSE /\ aligned = TRUE
  /\ fpgaResets = 0 /\ steady = FALSE

-----------------------------------------------------------------------------
(* The producer. *)

WriteCount == (completed + written) % FrameMod

(* A tick of the I2S clock: DMA writes n frames into the ring; the block   *)
(* interrupt counts a finished block and starts the next one at the base.  *)
Tick(n) ==
  /\ elapsed = 0
  /\ steady => n = Nominal /\ ~due
  /\ elapsed' = 1 /\ due' = TRUE
  /\ written' = (written + n) % Ring
  /\ completed' = (completed + (IF written + n >= Ring THEN Ring ELSE 0)) % FrameMod
  /\ fresh' = fresh \union {(written + i) % Ring : i \in 0 .. n - 1}
  /\ UNCHANGED <<read, monitor, clock_valid, resync, usbStream, core0,
                 requester, aligned, fpgaResets, steady>>

-----------------------------------------------------------------------------
(* The clock monitor. *)

(* Mutant of Measure: a clock seen to stop is not remembered. *)
MeasureForgets(m, n, t) ==
  LET f == (n - m.prev) % FrameMod IN
  IF f = 0 THEN [m EXCEPT !.frames = 0, !.time = 0, !.valid = FALSE]
           ELSE [m EXCEPT !.prev = n, !.valid = m.valid \/ m.seen]

(* One sample of the producer count after t milliseconds. *)
Measure(m, n, t) ==
  LET f == (n - m.prev) % FrameMod
      still == Min({Stopped, m.stopped + t})
      time == m.time + t
      good == m.frames + f = time * Nominal
  IN IF f = 0
     THEN [m EXCEPT !.frames = 0, !.time = 0, !.stopped = still,
                    !.recovery = @ \/ (still = Stopped /\ m.seen),
                    !.valid = @ /\ still < Stopped]
     ELSE IF time >= Window
     THEN [m EXCEPT !.prev = n, !.stopped = 0, !.frames = 0, !.time = 0,
                    !.valid = good, !.seen = @ \/ good]
     ELSE [m EXCEPT !.prev = n, !.stopped = 0, !.frames = @ + f, !.time = time]

RecoveryReady(m) == m.valid /\ m.recovery

(* service_i2s_clock_monitor and i2s_capture_advance_us, as far as the     *)
(* load of capture_resync_pending; the store of the validity comes after.  *)
AdvanceMonitor ==
  /\ core0 = "monitor"
  /\ IF elapsed = 0
     THEN core0' = "task" /\ UNCHANGED <<monitor, resync, clock_valid>>
     ELSE LET m == Measure(monitor, WriteCount, elapsed) IN
          /\ monitor' = m
          /\ IF RecoveryReady(m)
             THEN resync' = TRUE /\ clock_valid' = FALSE /\ core0' = "task"
             ELSE /\ core0' = IF resync THEN "task" ELSE "store"
                  /\ UNCHANGED <<resync, clock_valid>>
  /\ elapsed' = 0
  /\ UNCHANGED <<dmaVars, read, usbVars, requester, aligned, fpgaResets, steady>>

StoreValidity ==
  /\ core0 = "store" /\ core0' = "task"
  /\ clock_valid' = monitor.valid
  /\ UNCHANGED <<dmaVars, read, monitor, resync, usbVars, requester, elapsed, aligned,
                 fpgaResets, steady>>

ResyncDue == resync

(* i2s_capture_task, and i2s_capture_restart_hardware up to the flags: the *)
(* PIO starts again at a frame boundary, DMA at the base of the ring, and  *)
(* both cursors at the count produced so far.                              *)
RestartHardware ==
  /\ core0 = "task"
  /\ IF ResyncDue
     THEN /\ core0' = "clear"
          /\ completed' = WriteCount /\ read' = WriteCount
          /\ written' = 0 /\ fresh' = {}
          /\ aligned' = TRUE
          /\ monitor' = FreshMonitor(WriteCount)
     ELSE /\ core0' = "usb"
          /\ UNCHANGED <<dmaVars, read, aligned, monitor>>
  /\ UNCHANGED <<clock_valid, resync, usbStream, due, requester, elapsed, fpgaResets, steady>>

(* The last stores of the restart, with interrupts still off on core 0. *)
ClearFlags ==
  /\ core0 = "clear" /\ core0' = "usb"
  /\ clock_valid' = FALSE /\ resync' = FALSE
  /\ UNCHANGED <<dmaVars, read, monitor, usbVars, requester, elapsed, aligned, fpgaResets,
                 steady>>

-----------------------------------------------------------------------------
(* The consumer. *)

Backlog == (WriteCount - read) % FrameMod

(* i2s_capture_available: a lapped reader moves up to the oldest frame left. *)
Available == Min({Backlog, Ring})
CaughtUp == (read + Backlog - Available) % FrameMod

(* app_usb_audio_packet_frames *)
PacketFrames(n) ==
  IF n > Target + Margin THEN Nominal + 1
  ELSE IF n < Target - Margin /\ n >= Nominal - 1 THEN Nominal - 1
  ELSE Nominal

(* Mutant of Plan: a stream that runs dry goes on as soon as one frame is there. *)
PlanNeverStops(s, valid, n) ==
  IF ~valid \/ s.resync THEN [action |-> "discard", started |-> FALSE]
  ELSE IF ~s.started /\ n < Target THEN [action |-> "silence", started |-> FALSE]
  ELSE [action |-> "capture", started |-> TRUE]

(* app_usb_audio_stream_plan: what to send, and whether the stream has started. *)
Plan(s, valid, n) ==
  IF ~valid \/ s.resync THEN [action |-> "discard", started |-> FALSE]
  ELSE IF ~s.started /\ n < Target THEN [action |-> "silence", started |-> FALSE]
  ELSE IF n < Nominal - 1 THEN [action |-> "discard", started |-> FALSE]
  ELSE [action |-> "capture", started |-> TRUE]

(* fill_usb_audio_packet, from the callback of a packet the host has       *)
(* taken: the decision, the frames asked for, and the slots read.          *)
Decision == Plan(usbStream, clock_valid, Available)
IsAudio == Decision.action = "capture"
Asked == IF IsAudio THEN PacketFrames(Available) ELSE 0
Got == Min({Asked, Available})
SlotsTaken == {(CaughtUp + i) % Ring : i \in 0 .. Got - 1}

FillPacket ==
  /\ read' = IF Decision.action = "discard" THEN WriteCount ELSE (CaughtUp + Got) % FrameMod
  /\ usbStream' = [started |-> Decision.started, resync |-> FALSE]

(* The main loop's snapshot of the buffered frames, and tud_task: nothing  *)
(* to do, a packet callback, or the callbacks for a closed endpoint, an    *)
(* unmount or a suspend (app_usb_audio_stream_reset).                      *)
UsbTask ==
  /\ core0 = "usb" /\ core0' = "monitor"
  /\ \/ due /\ FillPacket /\ due' = FALSE
     \/ ~due /\ read' = CaughtUp /\ UNCHANGED usbVars
     \/ /\ ~steady /\ read' = CaughtUp
        /\ usbStream' = [started |-> FALSE, resync |-> TRUE]
        /\ UNCHANGED due
  /\ UNCHANGED <<dmaVars, monitor, clock_valid, resync, requester, elapsed, aligned,
                 fpgaResets, steady>>

-----------------------------------------------------------------------------
(* Core 1. *)

(* The FPGA restarts its serializer in a session reset.  The reset and the *)
(* epoch poll that confirms it take SPI transfers, the stores that end a   *)
(* restart a few instructions: a reset does not fall between those.        *)
FpgaReset ==
  /\ requester = "idle" /\ requester' = "reset"
  /\ ~steady /\ core0 # "clear" /\ fpgaResets < MaxFpgaResets
  /\ fpgaResets' = fpgaResets + 1
  /\ aligned' = FALSE
  /\ UNCHANGED <<dmaVars, read, monitor, clock_valid, resync, usbVars, core0, elapsed, steady>>

(* Mutant of RequestResync: only the validity is withdrawn. *)
RequestResyncNoFlag ==
  \/ /\ requester = "reset" /\ requester' = "half"
     /\ clock_valid' = FALSE /\ UNCHANGED resync
  \/ /\ requester = "half" /\ requester' = "idle"
     /\ UNCHANGED <<clock_valid, resync>>

(* i2s_capture_request_resync: two plain stores from the other core. *)
RequestResync ==
  \/ /\ requester = "reset" /\ requester' = "half"
     /\ clock_valid' = FALSE /\ UNCHANGED resync
  \/ /\ requester = "half" /\ requester' = "idle"
     /\ resync' = TRUE /\ UNCHANGED clock_valid

Request ==
  /\ RequestResync
  /\ UNCHANGED <<dmaVars, read, monitor, usbVars, core0, elapsed, aligned, fpgaResets, steady>>

Settle ==
  /\ ~steady /\ requester = "idle" /\ steady' = TRUE
  /\ UNCHANGED <<dmaVars, read, monitor, clock_valid, resync, usbVars, core0, requester,
                 elapsed, aligned, fpgaResets>>

Core0 == AdvanceMonitor \/ StoreValidity \/ RestartHardware \/ ClearFlags \/ UsbTask

CaptureNext ==
  \/ \E n \in {0, Nominal, Nominal + 1} : Tick(n)
  \/ Core0 \/ FpgaReset \/ Request \/ Settle

(* Both cores' loops and the external clock go on. *)
CaptureFairness ==
  /\ WF_captureVars(Core0) /\ WF_captureVars(Request)
  /\ WF_captureVars(Tick(Nominal))

CaptureSpec == CaptureInit /\ [][CaptureNext]_captureVars /\ CaptureFairness

-----------------------------------------------------------------------------
(* Whatever the fill of the ring, the packet policy never asks for more    *)
(* frames than are there and never moves a packet by more than one frame   *)
(* from its nominal size: no sample is repeated and no packet is short     *)
(* (usb_audio_rate_match.c, i2s_capture_read).                             *)
PacketFits ==
  [][due /\ ~due' /\ IsAudio =>
       Asked <= Available /\ Asked \in Nominal - 1 .. Nominal + 1]_captureVars

(* When no request is outstanding the PIO has been synchronised since the  *)
(* FPGA's last reset: no interleaving of core 1's two stores with core 0's *)
(* monitor and restart loses a request (i2s_capture_request_resync).       *)
ResyncCoversReset ==
  requester = "idle" /\ ~resync => aligned

(* Once the clock is steady and nothing is reset, the monitor, the restart *)
(* and the fill target let the stream start and then it never falls silent *)
(* again (rp2040_firmware.md, PIO and DMA capture).                        *)
PlaysWhenSteady == <>[](steady => usbStream.started)

(* Every frame sent was captured after the last restart: a restart         *)
(* discards what was buffered (i2s_capture_restart_hardware).              *)
DeliveredAreFresh == [][due /\ ~due' => SlotsTaken \subseteq fresh]_captureVars
=============================================================================
