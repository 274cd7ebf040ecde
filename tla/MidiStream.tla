------------------------------ MODULE MidiStream ------------------------------
(***************************************************************************)
(* MidiStreamDecoder (realtime_midi.cpp): the host's byte-wise decoder of  *)
(* a MIDI cable, against a sender that may use running status, interleave  *)
(* real-time bytes anywhere, send system messages between channel messages *)
(* and lose a message's tail when the cable is unplugged.  Inside a SysEx  *)
(* the decoder looks for F7 and for nothing else, and no code calls its    *)
(* reset(): a SysEx that lost its tail hides what follows it.              *)
(*                                                                         *)
(* One channel.  "note" stands for the messages with two data bytes that   *)
(* become events, "program" for the one that only changes state; a data    *)
(* byte is the message it belongs to and its place there.                  *)
(***************************************************************************)
EXTENDS Integers, Sequences

CONSTANTS
  MaxMessages, \* bound: messages sent
  MaxRealtime  \* bound: real-time bytes

ASSUME StreamAssumption == MaxMessages \in Nat \ {0} /\ MaxRealtime \in Nat

VARIABLES
  decoder,   \* MidiStreamDecoder: running, status, data, remaining, sysex, program
  cable,     \* the sender: message under way, its next byte, running status
  torn,      \* a SysEx lost its tail and no F7 has been sent since
  sent,      \* events of the note messages sent whole, not torn
  decoded,   \* events feed() returned
  realtime   \* real-time bytes so far

streamVars == <<decoder, cable, torn, sent, decoded, realtime>>

ChannelKinds == {"note", "program"}
Kinds2 == [common2 |-> 2, common1 |-> 1, common0 |-> 0]  \* F2, F1 and F3, F6
DataBytes(kind) == IF kind = "note" THEN 2 ELSE IF kind = "program" THEN 1 ELSE 0

StreamInit ==
  /\ decoder = [running |-> "none", status |-> "none", data |-> << >>, remaining |-> 0,
                sysex |-> FALSE, program |-> 0]
  /\ cable = [kind |-> "idle", left |-> 0, running |-> "none", count |-> 0, program |-> 0]
  /\ torn = FALSE /\ sent = << >> /\ decoded = << >> /\ realtime = 0

----------------------------------------------------------------------------
(* The decoder *)

(* finish_message: a program change is kept, a note carries it along. *)
FinishMessage(d) ==
  LET whole == [d EXCEPT !.data = << >>, !.status = d.running]
  IN IF d.status = "program" THEN [d |-> [whole EXCEPT !.program = d.data[1].of], events |-> << >>]
     ELSE [d |-> whole,
           events |-> <<[of |-> d.data[1].of, with |-> d.data[2].of, program |-> d.program]>>]

(* Mutant of DataByte: a finished message ends its running status. *)
DataByteForgets(d, b) ==
  LET status == IF d.status = "none" THEN d.running ELSE d.status
      x == [d EXCEPT !.status = status, !.data = Append(@, b)]
  IN IF status = "none" THEN [d |-> d, events |-> << >>]
     ELSE IF Len(x.data) # DataBytes(status) THEN [d |-> x, events |-> << >>]
     ELSE [FinishMessage(x) EXCEPT !.d.running = "none", !.d.status = "none"]

DataByte(d, b) ==
  LET status == IF d.status = "none" THEN d.running ELSE d.status
      x == [d EXCEPT !.status = status, !.data = Append(@, b)]
  IN IF status = "none" THEN [d |-> d, events |-> << >>]
     ELSE IF Len(x.data) # DataBytes(status) THEN [d |-> x, events |-> << >>]
     ELSE FinishMessage(x)

(* A status byte outside SysEx drops what was half received. *)
StatusByte(d, kind) ==
  LET clean == [d EXCEPT !.data = << >>, !.remaining = 0]
  IN IF kind \in ChannelKinds THEN [clean EXCEPT !.running = kind, !.status = kind]
     ELSE [clean EXCEPT !.running = "none", !.status = "none",
                        !.sysex = kind = "sysex",
                        !.remaining = IF kind \in DOMAIN Kinds2 THEN Kinds2[kind] ELSE 0]

(* feed *)
Fed(d, b) ==
  CASE b.kind = "realtime" -> [d |-> d, events |-> << >>]
    [] b.kind # "realtime" /\ d.sysex ->
         [d |-> [d EXCEPT !.sysex = b.kind # "eox"], events |-> << >>]
    [] ~d.sysex /\ b.kind \notin {"data", "realtime"} ->
         [d |-> StatusByte(d, b.kind), events |-> << >>]
    [] ~d.sysex /\ b.kind = "data" /\ d.remaining # 0 ->
         [d |-> [d EXCEPT !.remaining = @ - 1], events |-> << >>]
    [] OTHER -> DataByte(d, b)

Feed(b) ==
  LET f == Fed(decoder, b)
  IN decoder' = f.d /\ decoded' = decoded \o f.events

----------------------------------------------------------------------------
(* The sender: a MIDI device, external to the program *)

BytesOf(kind) == IF kind \in ChannelKinds THEN DataBytes(kind)
                 ELSE IF kind = "sysex" THEN 2 ELSE Kinds2[kind]

(* A message begins with its status byte. *)
SendStatus(kind) ==
  /\ cable.kind = "idle" /\ cable.count < MaxMessages
  /\ cable' = [cable EXCEPT !.kind = IF BytesOf(kind) = 0 THEN "idle" ELSE kind,
                            !.left = BytesOf(kind), !.count = @ + 1,
                            !.running = IF kind \in ChannelKinds THEN kind ELSE "none"]
  /\ Feed([kind |-> kind, of |-> cable'.count])
  /\ UNCHANGED <<torn, sent, realtime>>

(* Or, under running status, with its first data byte; data goes on.  The  *)
(* program and the events a receiver can know of are those sent while no   *)
(* torn SysEx is open.                                                     *)
SendData ==
  LET fresh == cable.kind = "idle"
      kind == IF fresh THEN cable.running ELSE cable.kind
      count == IF fresh THEN cable.count + 1 ELSE cable.count
      left == (IF fresh THEN BytesOf(kind) ELSE cable.left) - 1
  IN /\ fresh => cable.running # "none" /\ cable.count < MaxMessages
     /\ cable' = [cable EXCEPT !.kind = IF left = 0 THEN "idle" ELSE kind, !.left = left,
                               !.count = count,
                               !.program = IF kind = "program" /\ ~torn THEN count ELSE @]
     /\ torn' = (torn /\ ~(kind = "sysex" /\ left = 0))
     /\ sent' = IF kind = "note" /\ left = 0 /\ ~torn
                THEN Append(sent, [of |-> count, with |-> count, program |-> cable.program])
                ELSE sent
     /\ Feed([kind |-> IF kind = "sysex" /\ left = 0 THEN "eox" ELSE "data", of |-> count])
     /\ UNCHANGED realtime

SendRealtime ==
  /\ realtime < MaxRealtime
  /\ realtime' = realtime + 1
  /\ Feed([kind |-> "realtime", of |-> 0])
  /\ UNCHANGED <<cable, torn, sent>>

(* The rest of a message is lost; the sender starts over with a status. *)
LoseTail ==
  /\ cable.kind # "idle"
  /\ torn' = (torn \/ cable.kind = "sysex")
  /\ cable' = [cable EXCEPT !.kind = "idle", !.left = 0, !.running = "none"]
  /\ UNCHANGED <<decoder, sent, decoded, realtime>>

StreamNext ==
  \/ \E kind \in ChannelKinds \cup {"sysex"} \cup DOMAIN Kinds2 : SendStatus(kind)
  \/ SendData \/ SendRealtime \/ LoseTail

StreamSpec == StreamInit /\ [][StreamNext]_streamVars

(* What comes out of the decoder is what was sent whole, in order and with *)
(* the program in force: real-time bytes, SysEx, system messages, running  *)
(* status and torn channel or system common messages never make, lose or   *)
(* mix up an event.  A torn SysEx costs every message up to the next F7,   *)
(* program changes included, however many there are; it costs nothing      *)
(* before and nothing after that, and what it hides is never half heard.   *)
DecodesWhatWasSent == decoded = sent
=============================================================================
