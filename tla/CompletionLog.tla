--------------------------- MODULE CompletionLog ---------------------------
(***************************************************************************)
(* The FPGA's voice-completion log (spi_completion_log.sv) and the part of *)
(* the SPI bridge that streams a batch of it to the master (opcode 0x5d of *)
(* spi_register_bridge.sv).                                                *)
(*                                                                         *)
(* The log is a ring of Depth entries between two wrapping sequence        *)
(* numbers: the next one to write and the oldest one the master has not    *)
(* acknowledged.  A query carries the sequence the master wants next; a    *)
(* valid one acknowledges everything before it and snapshots a response    *)
(* header.  The items themselves are not snapshotted: they are read from   *)
(* the ring, one by one, while events go on arriving.                      *)
(*                                                                         *)
(* Completion events are abstracted to their order of emission: the k-th   *)
(* event the render core raises is the number k.                           *)
(***************************************************************************)
EXTENDS Integers, Sequences

CONSTANTS
  Depth,        \* DEPTH, entries in the ring (512 in the build)
  BatchItems,   \* BATCH_ITEMS, entries one response can carry (16)
  SequenceMod,       \* 2^16, the range of a sequence number
  MaxEvents,    \* bound: completion events the render core raises
  MaxSessions   \* bound: render sessions

(* The build has powers of two: the ring divides the sequence range, and   *)
(* the range is longer than the ring.                                      *)
ASSUME LogAssumption ==
  /\ Depth \in Nat /\ BatchItems \in Nat /\ SequenceMod \in Nat
  /\ MaxEvents \in Nat /\ MaxSessions \in Nat
  /\ 0 < BatchItems /\ BatchItems <= Depth
  /\ \E laps \in 2..SequenceMod : SequenceMod = laps * Depth

NoEvent == 0
NoQuery == -1

SequenceNumbers == 0..(SequenceMod - 1)

(* a - b on sequence numbers, wrapping. *)
Distance(a, b) == IF a >= b THEN a - b ELSE a - b + SequenceMod

(* Mutant of Advance: a register one bit too wide never wraps. *)
AdvanceUnwrapped(s, k) == s + k

(* s + k on sequence numbers, wrapping, for k at most SequenceMod. *)
Advance(s, k) == IF s + k < SequenceMod THEN s + k ELSE s + k - SequenceMod

(* The low address bits of a sequence number. *)
Address(s) == s % Depth

VARIABLES
  log_mem,                 \* the ring
  write_sequence_q,
  acknowledge_sequence_q,
  overflow_q,              \* sticky: an event was dropped in this session
  response,                \* the registered response header
  stream,                  \* the 0x5d transaction's MISO side
  emitted,                 \* completion events raised so far
  session,                 \* history: number of the current session
  accepted                 \* history: events logged in this session

logVars == <<log_mem, write_sequence_q, acknowledge_sequence_q, overflow_q,
             response, emitted, session, accepted>>

vars == <<logVars, stream>>

EmptyResponse(s) ==
  [status |-> 0, start |-> 0, write |-> 0, count |-> 0, overflow |-> FALSE,
   session |-> s]

(* spi_cs_n high: nothing latched, nothing to shift out. *)
NoStream == [active |-> FALSE, header |-> EmptyResponse(0),
             read_sequence |-> 0, items |-> << >>]

LogInit ==
  /\ log_mem = [a \in 0..(Depth - 1) |-> NoEvent]
  /\ write_sequence_q = 0
  /\ acknowledge_sequence_q = 0
  /\ overflow_q = FALSE
  /\ response = EmptyResponse(0)
  /\ emitted = 0
  /\ session = 0
  /\ accepted = << >>

AcknowledgedAvailable == Distance(write_sequence_q, acknowledge_sequence_q)

QuerySequenceValid(q) ==
  Distance(q, acknowledge_sequence_q) <= AcknowledgedAvailable

EffectiveAcknowledge(q) ==
  IF q # NoQuery /\ QuerySequenceValid(q) THEN q ELSE acknowledge_sequence_q

(* Mutant of EventWriteEnable: one entry more than the ring holds. *)
EventWriteEnableWhenFull(q) ==
  Distance(write_sequence_q, EffectiveAcknowledge(q)) <= Depth

EventWriteEnable(q) ==
  Distance(write_sequence_q, EffectiveAcknowledge(q)) < Depth

QueryAvailable(q) == Distance(write_sequence_q, q)

BoundedCount(q) ==
  IF QueryAvailable(q) > BatchItems THEN BatchItems ELSE QueryAvailable(q)

(* The event half of a clock edge: log the event, or drop it and say so. *)
TakeEvent(event, q) ==
  IF event = NoEvent
  THEN UNCHANGED <<log_mem, write_sequence_q, overflow_q, emitted, accepted>>
  ELSE /\ emitted' = event
       /\ IF EventWriteEnable(q)
          THEN /\ log_mem' = [log_mem EXCEPT ![Address(write_sequence_q)] = event]
               /\ write_sequence_q' = Advance(write_sequence_q, 1)
               /\ accepted' = Append(accepted, event)
               /\ UNCHANGED overflow_q
          ELSE /\ overflow_q' = TRUE
               /\ UNCHANGED <<log_mem, write_sequence_q, accepted>>

(* The query half: acknowledge, and register the response header.  The     *)
(* header shows the write sequence before this edge's event.               *)
AnswerQuery(event, q) ==
  IF q = NoQuery
  THEN UNCHANGED <<acknowledge_sequence_q, response>>
  ELSE /\ acknowledge_sequence_q' = EffectiveAcknowledge(q)
       /\ response' =
            [status   |-> IF QuerySequenceValid(q) THEN 0 ELSE 1,
             start    |-> q,
             write    |-> write_sequence_q,
             count    |-> IF QuerySequenceValid(q) THEN BoundedCount(q) ELSE 0,
             overflow |-> overflow_q \/ (event # NoEvent /\ ~EventWriteEnable(q)),
             session  |-> session]

(* One clock edge of the log, with an event, a query, both or neither. *)
LogCycle(event, q) ==
  /\ TakeEvent(event, q)
  /\ AnswerQuery(event, q)
  /\ UNCHANGED session

(* The two values event_valid can select at an edge. *)
EventInputs == {NoEvent} \cup {k \in {emitted + 1} : k <= MaxEvents}

(* clear (or rst): the sequences, the overflow flag and the header, but    *)
(* not the ring itself, nor a header the bridge has already latched.       *)
LogClear ==
  /\ write_sequence_q' = 0
  /\ acknowledge_sequence_q' = 0
  /\ overflow_q' = FALSE
  /\ response' = EmptyResponse(session + 1)
  /\ session' = session + 1
  /\ accepted' = << >>
  /\ UNCHANGED <<log_mem, emitted>>

(* Bit 104 of a 0x5d transaction: the header moves to the shift register   *)
(* whether or not this transaction's own request produced it.              *)
LatchHeader ==
  /\ ~stream.active
  /\ stream' = [active |-> TRUE, header |-> response,
                read_sequence |-> response.start, items |-> << >>]
  /\ UNCHANGED logVars

StreamComplete == Len(stream.items) = stream.header.count

(* Mutant of StreamItem: the address has already moved when it is read. *)
StreamItemAhead ==
  /\ stream.active
  /\ ~StreamComplete
  /\ stream' = [stream EXCEPT
        !.items = Append(@, log_mem[Address(Advance(stream.read_sequence, 1))]),
        !.read_sequence = Advance(@, 1)]
  /\ UNCHANGED logVars

(* One 32-bit item: read from the ring now, not when the query was answered. *)
StreamItem ==
  /\ stream.active
  /\ ~StreamComplete
  /\ stream' = [stream EXCEPT
        !.items = Append(@, log_mem[Address(stream.read_sequence)]),
        !.read_sequence = Advance(@, 1)]
  /\ UNCHANGED logVars

(* spi_cs_n rises, after the last bit or before it. *)
StreamEnd ==
  /\ stream.active
  /\ stream' = NoStream
  /\ UNCHANGED logVars

(* The log under any master: any query sequence between two streams, an    *)
(* event at any edge, a session clear at any time.                         *)
EventCycle ==
  /\ \E event \in EventInputs \ {NoEvent} : LogCycle(event, NoQuery)
  /\ UNCHANGED stream

QueryCycle ==
  /\ ~stream.active
  /\ \E event \in EventInputs, q \in SequenceNumbers : LogCycle(event, q)
  /\ UNCHANGED stream

ClearCycle ==
  /\ session < MaxSessions
  /\ LogClear
  /\ UNCHANGED stream

Init == LogInit /\ stream = NoStream

Next ==
  \/ EventCycle
  \/ QueryCycle
  \/ ClearCycle
  \/ LatchHeader
  \/ StreamItem
  \/ StreamEnd

Spec == Init /\ [][Next]_vars

-----------------------------------------------------------------------------
Responses ==
  [status : {0, 1}, start : SequenceNumbers, write : SequenceNumbers,
   count : 0..BatchItems, overflow : BOOLEAN, session : 0..MaxSessions]

LogTypeOK ==
  /\ log_mem \in [0..(Depth - 1) -> 0..MaxEvents]
  /\ write_sequence_q \in SequenceNumbers
  /\ acknowledge_sequence_q \in SequenceNumbers
  /\ overflow_q \in BOOLEAN
  /\ response \in Responses
  /\ emitted \in 0..MaxEvents
  /\ session \in 0..MaxSessions
  /\ accepted \in Seq(1..MaxEvents)

StreamTypeOK ==
  stream \in [active : BOOLEAN, header : Responses,
              read_sequence : SequenceNumbers, items : Seq(0..MaxEvents)]

(* Every register holds a value of its width. *)
TypeOK == LogTypeOK /\ StreamTypeOK

(* How many of this session's events the master has acknowledged. *)
Acknowledged == Len(accepted) - AcknowledgedAvailable

(* The window never outgrows the ring, nor reaches back before the         *)
(* session's first event.                                                  *)
WindowBounded ==
  /\ AcknowledgedAvailable <= Depth
  /\ AcknowledgedAvailable <= Len(accepted)

(* "Entries at or beyond the acknowledged sequence cannot be overwritten"  *)
(* (spi_completion_log.sv:62): the k-th unacknowledged ring slot holds the *)
(* k-th unacknowledged event, across wraps of the ring and of the sequence *)
(* number, whatever the master has asked for.                              *)
WindowIntact ==
  \A k \in 0..(Depth - 1) : k < AcknowledgedAvailable =>
    log_mem[Address(Advance(acknowledge_sequence_q, k))] =
      accepted[Acknowledged + k + 1]

(* A header that promises items starts at the acknowledged sequence and    *)
(* promises no more than the log holds.                                    *)
ResponseInWindow ==
  (response.session = session /\ response.count > 0) =>
    /\ response.start = acknowledge_sequence_q
    /\ response.count <= AcknowledgedAvailable

(* What a stream has shifted out so far is what the log accepted, in order *)
(* and without a gap, even when events, including ones that meet a full    *)
(* ring, arrived between two items.  A stream that straddles a session     *)
(* clear is excluded: its header carries the old epoch.                    *)
StreamFaithful ==
  (stream.active /\ stream.header.session = session) =>
    \A i \in 1..Len(stream.items) :
      /\ Acknowledged + i <= Len(accepted)
      /\ stream.items[i] = accepted[Acknowledged + i]

(* A header never carries the number of a later session, and a stream of   *)
(* this session stands where its header put it.                            *)
StreamInWindow ==
  /\ response.session <= session
  /\ stream.header.session <= session
  /\ (stream.active /\ stream.header.session = session) =>
       /\ Len(stream.items) <= stream.header.count
       /\ stream.header.count > 0 =>
            /\ stream.header.start = acknowledge_sequence_q
            /\ stream.header.count <= AcknowledgedAvailable
            /\ stream.read_sequence =
                 Advance(acknowledge_sequence_q, Len(stream.items))

(* The inductive invariant of the log: WindowIntact alone says nothing of  *)
(* a stream in progress, StreamFaithful alone nothing of the items it has  *)
(* still to read.                                                          *)
LogInv ==
  /\ TypeOK
  /\ WindowBounded
  /\ WindowIntact
  /\ ResponseInWindow
  /\ StreamInWindow
  /\ StreamFaithful
=============================================================================
