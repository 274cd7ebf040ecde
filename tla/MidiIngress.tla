---------------------------- MODULE MidiIngress ----------------------------
(***************************************************************************)
(* USB-MIDI between the cores: core 0 reads packets and pushes them into a *)
(* lock-free ring, core 1 pops and dispatches them, discards them while    *)
(* the FPGA session is off line, and empties the ring around an operator   *)
(* panic, which a UART key or a System Exclusive message asks for.  Each   *)
(* atomic load and store that the other core can see is a step.            *)
(***************************************************************************)
EXTENDS Integers, Sequences

CONSTANTS
  Capacity,     \* MIDI_INGRESS_QUEUE_CAPACITY
  CountMod,     \* 2^32: the width of the queue's counters
  Kinds,        \* kinds of packets the host sends, of AllKinds
  MaxPackets,   \* bound: packets the host sends
  MaxPanics,    \* bound: operator panics
  MaxOutages    \* bound: times the monitor takes the session off line

(* A note, a real-time message, and the packets of the reset-session       *)
(* message: f0 7d 4d, 42 01 01 and f7.                                     *)
AllKinds == {"note", "realtime", "head", "body", "tail"}

ASSUME IngressAssumption ==
  /\ Capacity \in Nat \ {0} /\ CountMod \in Nat
  /\ CountMod > Capacity /\ CountMod % Capacity = 0
  /\ Kinds \subseteq AllKinds
  /\ {MaxPackets, MaxPanics, MaxOutages} \subseteq Nat

VARIABLES
  usb,           \* packets in the USB stack, oldest first
  packets, write_count, read_count,     \* usb_midi_ingress
  panic_active,  \* usb_midi_panic_active
  discards,      \* usb_midi_offline_discard_count
  reader,        \* core 0: [pc, packet, depth] inside service_usb_midi_ingress
  control,       \* core 1: [pc, packet, upto, dropped, origin]
  match,         \* usb_midi_sysex_parser: the packets of the message matched
  ready,         \* fpga_session_ready
  fault,         \* app_control_fault
  \* history
  fifo,          \* what is in the queue, as one order of pushes and pops
  sent, dispatched, overflowed, panics, outages,
  halted,        \* the last panic has not succeeded
  crossed        \* packets dispatched against the last panic

queueVars == <<packets, write_count, read_count, fifo>>
ingressVars == <<usb, queueVars, panic_active, discards, reader, control, match, ready,
                 fault, sent, dispatched, overflowed, panics, outages, halted, crossed>>

Slots == 0 .. Capacity - 1
NoPacket == [id |-> 0, kind |-> "note", round |-> 0]
Idle == [pc |-> "loop", packet |-> NoPacket, upto |-> 0, dropped |-> 0, origin |-> "uart"]
Polling == [pc |-> "poll", packet |-> NoPacket]

IngressInit ==
  /\ usb = << >> /\ packets = [s \in Slots |-> NoPacket]
  /\ write_count = 0 /\ read_count = 0 /\ fifo = << >>
  /\ panic_active = FALSE /\ discards = 0
  /\ reader = Polling /\ control = Idle /\ match = 0
  /\ ready = TRUE /\ fault = FALSE
  /\ sent = 0 /\ dispatched = 0 /\ overflowed = 0 /\ panics = 0 /\ outages = 0 /\ halted = FALSE /\ crossed = 0

HostSends(k) ==
  /\ sent < MaxPackets /\ sent' = sent + 1
  /\ usb' = Append(usb, [id |-> sent', kind |-> k, round |-> 0])
  /\ UNCHANGED <<queueVars, panic_active, discards, reader, control, match, ready, fault,
                 dispatched, overflowed, panics, outages, halted, crossed>>

-----------------------------------------------------------------------------
(* Core 0: service_usb_midi_ingress, the sole producer. *)

QueueDepth == (write_count - read_count) % CountMod

QueueFull == QueueDepth = Capacity

(* A packet is left with the USB stack, which stops the host, when the     *)
(* ring is full.                                                           *)
ReadPacket ==
  /\ reader.pc = "poll" /\ usb # << >> /\ ~QueueFull
  /\ reader' = [pc |-> "check", packet |-> [Head(usb) EXCEPT !.round = panics]]
  /\ usb' = Tail(usb)
  /\ UNCHANGED <<queueVars, panic_active, discards, control, match, ready, fault, sent,
                 dispatched, overflowed, panics, outages, halted, crossed>>

(* The panic flag is looked at after the packet was read. *)
CheckPanic ==
  /\ reader.pc = "check"
  /\ IF panic_active
     THEN reader' = Polling /\ discards' = discards + 1
     ELSE reader' = [reader EXCEPT !.pc = "push"] /\ UNCHANGED discards
  /\ UNCHANGED <<usb, queueVars, panic_active, control, match, ready, fault, sent,
                 dispatched, overflowed, panics, outages, halted, crossed>>

(* midi_ingress_queue_push, up to the store of the slot. *)
StorePacket ==
  /\ reader.pc = "push"
  /\ IF QueueFull
     THEN reader' = Polling /\ overflowed' = overflowed + 1 /\ UNCHANGED packets
     ELSE /\ reader' = [reader EXCEPT !.pc = "publish"]
          /\ packets' = [packets EXCEPT ![write_count % Capacity] = reader.packet]
          /\ UNCHANGED overflowed

Push ==
  /\ StorePacket
  /\ UNCHANGED <<usb, write_count, read_count, fifo, panic_active, discards, control, match,
                 ready, fault, sent, dispatched, panics, outages, halted, crossed>>

Publish ==
  /\ reader.pc = "publish" /\ reader' = Polling
  /\ write_count' = (write_count + 1) % CountMod
  /\ fifo' = Append(fifo, reader.packet)
  /\ UNCHANGED <<usb, packets, read_count, panic_active, discards, control, match, ready,
                 fault, sent, dispatched, overflowed, panics, outages, halted, crossed>>

-----------------------------------------------------------------------------
(* Core 1: the control loop, the sole consumer. *)

(* Mutant of Services: nothing is taken while the session is off line. *)
ServicesReadyOnly == ~fault /\ ready

(* service_control_midi when the session is ready, discard_offline_control_midi *)
(* when it is not, neither once a fault is latched.                        *)
Services == ~fault

(* midi_ingress_queue_pop, up to the copy out of the slot. *)
TakePacket ==
  /\ control.pc = "loop" /\ Services /\ QueueDepth # 0
  /\ control' = [control EXCEPT !.pc = "taken", !.packet = packets[read_count % Capacity]]
  /\ UNCHANGED <<usb, queueVars, panic_active, discards, reader, match, ready, fault, sent,
                 dispatched, overflowed, panics, outages, halted, crossed>>

(* midi_sysex_reset_process_usb_packet on one packet of a known kind. *)
MatchAfter(n, kind) ==
  IF kind = "realtime" THEN n
  ELSE IF kind = "head" THEN 1
  ELSE IF kind = "body" THEN IF n = 1 THEN 2 ELSE 0
  ELSE 0

(* The store that frees the slot, then dispatch_midi_packet, or only the   *)
(* count of a packet discarded off line.  The last packet of the message   *)
(* starts a panic.                                                         *)
ReleasePacket ==
  /\ control.pc = "taken"
  /\ read_count' = (read_count + 1) % CountMod
  /\ fifo' = Tail(fifo)
  /\ LET k == control.packet.kind IN
     IF ~ready
     THEN /\ discards' = discards + 1 /\ control' = Idle
          /\ UNCHANGED <<match, dispatched, halted, crossed>>
     ELSE /\ dispatched' = dispatched + 1
          /\ match' = MatchAfter(match, k)
          /\ crossed' = IF halted \/ control.packet.round < panics
                        THEN crossed + 1 ELSE crossed
          /\ control' = IF k = "tail" /\ match = 2
                        THEN [Idle EXCEPT !.pc = "panic", !.origin = "sysex"] ELSE Idle
          /\ UNCHANGED discards
  /\ UNCHANGED <<usb, packets, write_count, panic_active, reader, ready, fault, sent,
                 overflowed, panics, outages, halted>>

(* UART 'a', served even with a fault latched. *)
UartPanic ==
  /\ control.pc = "loop" /\ control' = [Idle EXCEPT !.pc = "panic"]
  /\ panics < MaxPanics
  /\ UNCHANGED <<usb, queueVars, panic_active, discards, reader, match, ready, fault, sent,
                 dispatched, overflowed, panics, outages, halted, crossed>>

(* app_operator_panic: block ingress and forget a message half received. *)
BeginPanic ==
  /\ control.pc = "panic" /\ control' = [control EXCEPT !.pc = "discard"]
  /\ panic_active' = TRUE /\ match' = 0
  /\ panics' = panics + 1 /\ halted' = TRUE /\ crossed' = 0
  /\ UNCHANGED <<usb, queueVars, discards, reader, ready, fault, sent, dispatched,
                 overflowed, outages>>

(* midi_ingress_queue_discard_all: the load of the producer's count. *)
DiscardLoad ==
  /\ control.pc \in {"discard", "discard again"}
  /\ control' = [control EXCEPT !.upto = write_count,
                   !.pc = IF @ = "discard" THEN "discarding" ELSE "discarding again"]
  /\ UNCHANGED <<usb, queueVars, panic_active, discards, reader, match, ready, fault, sent,
                 dispatched, overflowed, panics, outages, halted, crossed>>

(* Mutant of DiscardTarget: only the oldest packet is dropped. *)
DiscardTargetOne == IF control.upto = read_count THEN read_count ELSE (read_count + 1) % CountMod

DiscardTarget == control.upto

(* Its store, which frees every slot up to that count. *)
DiscardStore ==
  /\ control.pc \in {"discarding", "discarding again"}
  /\ read_count' = DiscardTarget
  /\ LET n == (control.upto - read_count) % CountMod IN
     /\ fifo' = SubSeq(fifo, 1 + ((DiscardTarget - read_count) % CountMod), Len(fifo))
     /\ control' = [control EXCEPT !.dropped = @ + n,
                      !.pc = IF @ = "discarding" THEN "reset" ELSE "resume"]
  /\ UNCHANGED <<usb, packets, write_count, panic_active, discards, reader, match, ready,
                 fault, sent, dispatched, overflowed, panics, outages, halted, crossed>>

(* app_perform_render_session_reset, which brings the session back or not. *)
ResetSession ==
  /\ control.pc = "reset" /\ control' = [control EXCEPT !.pc = "discard again"]
  /\ ready' \in BOOLEAN
  /\ UNCHANGED <<usb, queueVars, panic_active, discards, reader, match, fault, sent,
                 dispatched, overflowed, panics, outages, halted, crossed>>

(* Mutant of Resumed: ingress resumes whatever became of the reset. *)
ResumedAlways == FALSE

(* The flag stays up after a reset that failed. *)
Resumed == ~ready

(* The end of the panic.  A failed one that a packet asked for is the      *)
(* result of the dispatch and latches the control fault.                   *)
ResumeIngress ==
  /\ control.pc = "resume" /\ control' = Idle
  /\ discards' = discards + control.dropped
  /\ panic_active' = Resumed
  /\ fault' = (fault \/ (~ready /\ control.origin = "sysex"))
  /\ halted' = ~ready
  /\ UNCHANGED <<usb, queueVars, reader, match, ready, sent, dispatched, overflowed, panics,
                 outages, crossed>>

(* app_synth_monitor_transport takes the session off line, or resets it    *)
(* and brings it back; the panic flag is not its concern.                  *)
MonitorTransport ==
  /\ control.pc = "loop" /\ ~fault
  /\ ready' = ~ready
  /\ outages' = IF ready THEN outages + 1 ELSE outages
  /\ outages' <= MaxOutages
  /\ UNCHANGED <<usb, queueVars, panic_active, discards, reader, control, match, fault, sent,
                 dispatched, overflowed, panics, halted, crossed>>

Core0Ingress == ReadPacket \/ CheckPanic \/ Push \/ Publish
PanicStep == BeginPanic \/ DiscardLoad \/ DiscardStore \/ ResetSession \/ ResumeIngress
Core1Ingress == TakePacket \/ ReleasePacket \/ PanicStep

IngressNext ==
  \/ \E k \in Kinds : HostSends(k)
  \/ Core0Ingress \/ Core1Ingress \/ UartPanic \/ MonitorTransport

(* Both loops go on. *)
IngressFairness == WF_ingressVars(Core0Ingress) /\ WF_ingressVars(Core1Ingress)

IngressSpec == IngressInit /\ [][IngressNext]_ingressVars /\ IngressFairness

-----------------------------------------------------------------------------
Queued == [i \in 1 .. QueueDepth |-> packets[(read_count + i - 1) % Capacity]]

(* Every packet the host sent is with the USB stack, in core 0's hand, in  *)
(* the ring, dispatched or counted as discarded: back pressure, panics and *)
(* outages neither lose a packet unseen nor count one twice.  And the ring *)
(* is a queue under every interleaving of its two ends: what lies between  *)
(* the counters is what was pushed and not yet taken, in order, and the    *)
(* packet being taken is the oldest, across discards and the wrap of the   *)
(* counters (midi_ingress_queue.c).                                        *)
EveryPacketAccounted ==
  /\ sent = Len(usb) + (IF reader.pc = "poll" THEN 0 ELSE 1) + QueueDepth + dispatched + discards
            + control.dropped
  /\ Queued = fifo
  /\ control.pc = "taken" => control.packet = Head(fifo)

(* A panic stops the stream: of the packets read before it began, and of   *)
(* all packets while a failed one keeps ingress blocked, at most the one   *)
(* core 0 held is still dispatched (app_operator_panic; midi_panic.md,     *)
(* "timeout/failure leaves the host in a stopped state").                  *)
AtMostOneCrossesPanic == crossed <= 1

(* Every packet is dispatched or discarded in the end, unless the control  *)
(* core has stopped with a fault: neither back pressure, nor an outage,    *)
(* nor a failed panic wedges the two loops.                                *)
IngressDrains == <>[](fault \/ (usb = << >> /\ QueueDepth = 0 /\ reader.pc = "poll"))
=============================================================================
