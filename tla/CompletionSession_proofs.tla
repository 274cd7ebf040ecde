---------------------- MODULE CompletionSession_proofs ----------------------
(***************************************************************************)
(* The completion log keeps every unacknowledged event, and streams it, for *)
(* every ring size, batch size and sequence range the assumptions allow,   *)
(* and under a master that may query any sequence number.                  *)
(*                                                                         *)
(* The MCU consumes exactly what the log of its session accepted, and the  *)
(* transport as a whole implements CompletionChannel, for every ring and   *)
(* sequence range, however many sessions and restarts there are and        *)
(* whatever frames the link corrupts.                                      *)
(***************************************************************************)
EXTENDS CompletionSession, CommonLemmas

-----------------------------------------------------------------------------
(* Arithmetic of wrapping sequence numbers. *)

(* The ring is shorter than the sequence range. *)
LEMMA RangeExceedsRing ==
  /\ Depth \in Nat /\ SequenceMod \in Nat /\ BatchItems \in Nat
  /\ 0 < Depth /\ 2 * Depth <= SequenceMod /\ 0 < BatchItems /\ BatchItems <= Depth
<1>1. PICK laps \in 2..SequenceMod : SequenceMod = laps * Depth
  BY LogAssumption
<1>2. Depth \in Nat /\ SequenceMod \in Nat /\ BatchItems \in Nat /\ 0 < Depth
      /\ 0 < BatchItems /\ BatchItems <= Depth
  BY LogAssumption
<1>3. laps \in Int /\ laps >= 2
  BY <1>1, <1>2
<1>4. laps * Depth >= 2 * Depth
  BY <1>2, <1>3, Z3
<1> QED
  BY <1>1, <1>2, <1>4

(* Sequence numbers less than a ring apart never share a ring slot, not    *)
(* even across the wrap of the sequence number: the ring divides the range. *)
LEMMA AddressDistinct ==
  ASSUME NEW s \in SequenceNumbers, NEW t \in SequenceNumbers,
         NEW d \in 1..(Depth - 1), t = Advance(s, d)
  PROVE  Address(s) # Address(t)
<1> SUFFICES ASSUME s % Depth = t % Depth PROVE FALSE
  BY DEF Address
<1>1. s \in Int /\ t \in Int /\ Depth \in Nat /\ Depth > 0 /\ d \in Int
      /\ 0 < d /\ d < Depth /\ SequenceMod \in Nat
  BY RangeExceedsRing DEF SequenceNumbers
<1>2. PICK z \in Int : t - s = Depth * z
  BY <1>1, SameRemainder
<1>3. CASE t = s + d
  <2>1. Depth * z = d
    BY <1>1, <1>2, <1>3
  <2> QED
    BY <1>1, <2>1, NoSmallMultiple
<1>4. CASE t = s + d - SequenceMod
  <2>1. PICK laps \in 2..SequenceMod : SequenceMod = laps * Depth
    BY LogAssumption
  <2>2. laps \in Int /\ z + laps \in Int
    BY <1>1, <2>1
  <2>3. Depth * (z + laps) = Depth * z + laps * Depth
    BY <1>1, <2>2, Z3
  <2>4. Depth * z = d - SequenceMod
    BY <1>1, <1>2, <1>4
  <2>5. Depth * (z + laps) = d
    BY <1>1, <2>1, <2>2, <2>3, <2>4
  <2> QED
    BY <1>1, <2>2, <2>5, NoSmallMultiple
<1> QED
  BY <1>3, <1>4 DEF Advance

(* The distance between two sequence numbers is below the range. *)
LEMMA DistanceType ==
  ASSUME NEW a \in SequenceNumbers, NEW b \in SequenceNumbers
  PROVE  Distance(a, b) \in 0..(SequenceMod - 1)
  BY RangeExceedsRing DEF Distance, SequenceNumbers

(* Advancing by at most the range wraps back into it. *)
LEMMA AdvanceType ==
  ASSUME NEW s \in SequenceNumbers, NEW k \in 0..SequenceMod
  PROVE  Advance(s, k) \in SequenceNumbers
  BY RangeExceedsRing DEF Advance, SequenceNumbers

(* Every sequence number has a slot in the ring. *)
LEMMA AddressType ==
  ASSUME NEW s \in SequenceNumbers
  PROVE  Address(s) \in 0..(Depth - 1)
<1>1. s \in Nat /\ Depth \in Nat /\ Depth > 0
  BY RangeExceedsRing DEF SequenceNumbers
<1> QED
  BY <1>1, DivMod DEF Address

(* One more write lengthens the window by one. *)
LEMMA DistanceStep ==
  ASSUME NEW w \in SequenceNumbers, NEW a \in SequenceNumbers,
         Distance(w, a) < Depth
  PROVE  Distance(Advance(w, 1), a) = Distance(w, a) + 1
  BY RangeExceedsRing DEF Distance, Advance, SequenceNumbers

(* Going the distance from a to w ends at w. *)
LEMMA AdvanceDistance ==
  ASSUME NEW w \in SequenceNumbers, NEW a \in SequenceNumbers
  PROVE  Advance(a, Distance(w, a)) = w
  BY RangeExceedsRing DEF Distance, Advance, SequenceNumbers

(* Advancing by nothing goes nowhere. *)
LEMMA AdvanceZero ==
  ASSUME NEW s \in SequenceNumbers
  PROVE  Advance(s, 0) = s
  BY RangeExceedsRing DEF Advance, SequenceNumbers

(* Two advances of at most a ring each add up. *)
LEMMA AdvanceAdvance ==
  ASSUME NEW s \in SequenceNumbers, NEW j \in 0..Depth, NEW k \in 0..Depth
  PROVE  Advance(Advance(s, j), k) = Advance(s, j + k)
  BY RangeExceedsRing DEF Advance, SequenceNumbers

(* Acknowledging up to q shortens the window by the distance to q. *)
LEMMA DistanceSplit ==
  ASSUME NEW w \in SequenceNumbers, NEW a \in SequenceNumbers,
         NEW q \in SequenceNumbers, Distance(q, a) <= Distance(w, a)
  PROVE  Distance(w, q) = Distance(w, a) - Distance(q, a)
  BY RangeExceedsRing DEF Distance, SequenceNumbers

-----------------------------------------------------------------------------
(* Types. *)

Queries == SequenceNumbers \cup {NoQuery}

(* The response after a reset is a response. *)
LEMMA EmptyResponseType ==
  ASSUME NEW s \in 0..MaxSessions
  PROVE  EmptyResponse(s) \in Responses
  BY RangeExceedsRing DEF EmptyResponse, Responses, SequenceNumbers

(* The idle stream record has its type. *)
LEMMA NoStreamType ==
  NoStream \in [active : BOOLEAN, header : Responses,
                read_sequence : SequenceNumbers, items : Seq(0..MaxEvents)]
<1>1. EmptyResponse(0) \in Responses
  BY EmptyResponseType, LogAssumption
<1>2. << >> \in Seq(0..MaxEvents) /\ 0 \in SequenceNumbers
  BY RangeExceedsRing DEF SequenceNumbers
<1> HIDE DEF EmptyResponse
<1> QED
  BY <1>1, <1>2 DEF NoStream

(* Every register has its type after power-on. *)
LEMMA InitType == Init => LogTypeOK /\ StreamTypeOK
<1> SUFFICES ASSUME Init PROVE LogTypeOK /\ StreamTypeOK
  OBVIOUS
<1>1. response \in Responses
  BY EmptyResponseType, LogAssumption DEF Init, LogInit
<1>2. log_mem \in [0..(Depth - 1) -> 0..MaxEvents]
  BY LogAssumption DEF Init, LogInit, NoEvent
<1>3. 0 \in SequenceNumbers /\ 0 \in 0..MaxEvents /\ 0 \in 0..MaxSessions
      /\ << >> \in Seq(1..MaxEvents)
  BY RangeExceedsRing, LogAssumption DEF SequenceNumbers
<1>4. StreamTypeOK
  BY NoStreamType DEF Init, StreamTypeOK
<1> QED
  BY <1>1, <1>2, <1>3, <1>4 DEF Init, LogInit, LogTypeOK

(* The acknowledge a query implies is a sequence number. *)
LEMMA EffectiveAcknowledgeType ==
  ASSUME LogTypeOK, NEW q \in Queries
  PROVE  EffectiveAcknowledge(q) \in SequenceNumbers
  BY DEF LogTypeOK, EffectiveAcknowledge, Queries, NoQuery

(* The count a query is answered with fits a batch. *)
LEMMA BoundedCountType ==
  ASSUME LogTypeOK, NEW q \in SequenceNumbers
  PROVE  BoundedCount(q) \in 0..BatchItems
<1>1. QueryAvailable(q) \in 0..(SequenceMod - 1)
  BY DistanceType DEF LogTypeOK, QueryAvailable
<1> QED
  BY <1>1, RangeExceedsRing DEF BoundedCount

(* An edge of the log keeps its types, event and query on it or not. *)
LEMMA LogCycleType ==
  ASSUME LogTypeOK, NEW event \in EventInputs, NEW q \in Queries,
         LogCycle(event, q)
  PROVE  LogTypeOK'
<1>1. event = NoEvent \/ event \in 1..MaxEvents
  BY LogAssumption DEF EventInputs, LogTypeOK
<1>2. /\ log_mem' \in [0..(Depth - 1) -> 0..MaxEvents]
      /\ write_sequence_q' \in SequenceNumbers
      /\ overflow_q' \in BOOLEAN
      /\ emitted' \in 0..MaxEvents
      /\ accepted' \in Seq(1..MaxEvents)
  <2>1. CASE event = NoEvent
    BY <2>1 DEF LogCycle, TakeEvent, LogTypeOK
  <2>2. CASE event # NoEvent /\ EventWriteEnable(q)
    <3>1. event \in 1..MaxEvents /\ event \in 0..MaxEvents
      BY <1>1, <2>2, LogAssumption
    <3>2. log_mem' = [log_mem EXCEPT ![Address(write_sequence_q)] = event]
          /\ write_sequence_q' = Advance(write_sequence_q, 1)
          /\ accepted' = Append(accepted, event) /\ overflow_q' = overflow_q
          /\ emitted' = event
      BY <2>2 DEF LogCycle, TakeEvent
    <3>3. Advance(write_sequence_q, 1) \in SequenceNumbers
      BY AdvanceType, RangeExceedsRing DEF LogTypeOK
    <3>4. log_mem' \in [0..(Depth - 1) -> 0..MaxEvents]
      BY <3>1, <3>2 DEF LogTypeOK
    <3>5. accepted' \in Seq(1..MaxEvents)
      BY <3>1, <3>2 DEF LogTypeOK
    <3>6. overflow_q' \in BOOLEAN
      BY <3>2 DEF LogTypeOK
    <3> QED
      BY <3>1, <3>2, <3>3, <3>4, <3>5, <3>6
  <2>3. CASE event # NoEvent /\ ~EventWriteEnable(q)
    BY <1>1, <2>3, LogAssumption DEF LogCycle, TakeEvent, LogTypeOK
  <2> QED
    BY <2>1, <2>2, <2>3
<1>3. acknowledge_sequence_q' \in SequenceNumbers /\ response' \in Responses
  <2>1. CASE q = NoQuery
    BY <2>1 DEF LogCycle, AnswerQuery, LogTypeOK
  <2>2. CASE q # NoQuery
    <3>1. q \in SequenceNumbers
      BY <2>2 DEF Queries
    <3>2. BoundedCount(q) \in 0..BatchItems /\ 0 \in 0..BatchItems
      BY <3>1, BoundedCountType, RangeExceedsRing
    <3>3. EffectiveAcknowledge(q) \in SequenceNumbers
      BY EffectiveAcknowledgeType
    <3>4. (overflow_q \/ (event # NoEvent /\ ~EventWriteEnable(q))) \in BOOLEAN
      OBVIOUS
    <3> DEFINE st == IF QuerySequenceValid(q) THEN 0 ELSE 1
               ct == IF QuerySequenceValid(q) THEN BoundedCount(q) ELSE 0
               ov == overflow_q \/ (event # NoEvent /\ ~EventWriteEnable(q))
    <3>5. response' = [status |-> st, start |-> q, write |-> write_sequence_q,
                       count |-> ct, overflow |-> ov, session |-> session]
      BY <2>2 DEF LogCycle, AnswerQuery
    <3>6. st \in {0, 1} /\ ct \in 0..BatchItems
      BY <3>2
    <3>7. write_sequence_q \in SequenceNumbers /\ session \in 0..MaxSessions
      BY DEF LogTypeOK
    <3>8. ov \in BOOLEAN
      BY <3>4
    <3> HIDE DEF st, ct, ov
    <3>9. response' \in Responses
      BY <3>1, <3>5, <3>6, <3>7, <3>8 DEF Responses
    <3> QED
      BY <2>2, <3>3, <3>9 DEF LogCycle, AnswerQuery
  <2> QED
    BY <2>1, <2>2
<1>4. session' \in 0..MaxSessions
  BY DEF LogCycle, LogTypeOK
<1> QED
  BY <1>2, <1>3, <1>4 DEF LogTypeOK

(* The clear of a session reset keeps the log's types. *)
LEMMA LogClearType ==
  ASSUME LogTypeOK, session < MaxSessions, LogClear
  PROVE  LogTypeOK'
<1>1. session + 1 \in 0..MaxSessions
  BY LogAssumption DEF LogTypeOK
<1>2. EmptyResponse(session + 1) \in Responses
  BY <1>1, EmptyResponseType
<1> QED
  BY <1>1, <1>2, RangeExceedsRing DEF LogClear, LogTypeOK, SequenceNumbers

(* Latching, shifting and ending a response keep every type. *)
LEMMA StreamStepType ==
  ASSUME TypeOK, LatchHeader \/ StreamItem \/ StreamEnd
  PROVE  TypeOK'
<1>1. LogTypeOK'
  BY DEF LatchHeader, StreamItem, StreamEnd, logVars, TypeOK, LogTypeOK
<1>2. CASE LatchHeader
  <2>1. response \in Responses /\ response.start \in SequenceNumbers
        /\ << >> \in Seq(0..MaxEvents)
    BY DEF TypeOK, LogTypeOK, Responses
  <2> QED
    BY <1>1, <1>2, <2>1 DEF LatchHeader, TypeOK, StreamTypeOK
<1>3. CASE StreamItem
  <2> DEFINE item == log_mem[Address(stream.read_sequence)]
  <2>1. /\ stream.read_sequence \in SequenceNumbers
        /\ stream.items \in Seq(0..MaxEvents)
    BY DEF TypeOK, StreamTypeOK
  <2>2. Advance(stream.read_sequence, 1) \in SequenceNumbers
    BY <2>1, AdvanceType, RangeExceedsRing
  <2>3. item \in 0..MaxEvents
    BY <2>1, AddressType DEF TypeOK, LogTypeOK
  <2>4. Append(stream.items, item) \in Seq(0..MaxEvents)
    BY <2>1, <2>3
  <2>5. stream' = [stream EXCEPT !.items = Append(stream.items, item),
                 !.read_sequence = Advance(stream.read_sequence, 1)]
    BY <1>3 DEF StreamItem
  <2> QED
    BY <1>1, <2>2, <2>4, <2>5 DEF TypeOK, StreamTypeOK
<1>4. CASE StreamEnd
  <2>1. stream' = NoStream
    BY <1>4 DEF StreamEnd
  <2> QED
    BY <1>1, <2>1, NoStreamType DEF TypeOK, StreamTypeOK
<1> QED
  BY <1>2, <1>3, <1>4

(* Every step keeps every type. *)
LEMMA NextType == TypeOK /\ [Next]_vars => TypeOK'
<1> SUFFICES ASSUME TypeOK, [Next]_vars PROVE TypeOK'
  OBVIOUS
<1>1. CASE EventCycle
  <2>1. PICK event \in EventInputs : LogCycle(event, NoQuery)
    BY <1>1 DEF EventCycle
  <2> QED
    BY <1>1, <2>1, LogCycleType DEF EventCycle, Queries, TypeOK, StreamTypeOK
<1>2. CASE QueryCycle
  <2>1. PICK event \in EventInputs, q \in SequenceNumbers : LogCycle(event, q)
    BY <1>2 DEF QueryCycle
  <2> QED
    BY <1>2, <2>1, LogCycleType DEF QueryCycle, Queries, TypeOK, StreamTypeOK
<1>3. CASE ClearCycle
  BY <1>3, LogClearType DEF ClearCycle, TypeOK, StreamTypeOK
<1>4. CASE LatchHeader \/ StreamItem \/ StreamEnd
  BY <1>4, StreamStepType
<1>5. CASE UNCHANGED vars
  BY <1>5 DEF vars, logVars, TypeOK, LogTypeOK, StreamTypeOK
<1> QED
  BY <1>1, <1>2, <1>3, <1>4, <1>5 DEF Next

(* Every register of the log and of the streaming side stays within its    *)
(* width.                                                                  *)
THEOREM TypeCorrect == Spec => []TypeOK
<1>1. Init => TypeOK
  BY InitType DEF TypeOK
<1> QED
  BY <1>1, NextType, PTL DEF Spec

-----------------------------------------------------------------------------
(* The window of unacknowledged events. *)

(* The unacknowledged window has a length. *)
LEMMA AvailableType ==
  ASSUME LogTypeOK
  PROVE  AcknowledgedAvailable \in 0..(SequenceMod - 1) /\ Len(accepted) \in Nat
  BY DistanceType DEF LogTypeOK, AcknowledgedAvailable

(* It still has one after a step. *)
LEMMA NextAvailableType ==
  ASSUME LogTypeOK'
  PROVE  AcknowledgedAvailable' \in Nat /\ Len(accepted') \in Nat
<1>1. write_sequence_q' \in SequenceNumbers
      /\ acknowledge_sequence_q' \in SequenceNumbers
      /\ accepted' \in Seq(1..MaxEvents)
  BY DEF LogTypeOK
<1>2. Distance(write_sequence_q', acknowledge_sequence_q') \in 0..(SequenceMod - 1)
  BY <1>1, DistanceType
<1> QED
  BY <1>1, <1>2 DEF AcknowledgedAvailable

(* A valid query shortens the window from its front and disturbs nothing   *)
(* behind the new front.                                                   *)
LEMMA AcknowledgeKeepsWindow ==
  ASSUME LogTypeOK, WindowBounded, WindowIntact, NEW q \in Queries,
         NEW e, e = EffectiveAcknowledge(q),
         NEW n, n = Distance(write_sequence_q, e)
  PROVE  /\ e \in SequenceNumbers
         /\ n \in 0..Depth
         /\ n <= AcknowledgedAvailable
         /\ \A k \in 0..(Depth - 1) : k < n =>
              log_mem[Address(Advance(e, k))] = accepted[Len(accepted) - n + k + 1]
<1> DEFINE a == acknowledge_sequence_q
           w == write_sequence_q
           d == Distance(e, a)
<1>1. a \in SequenceNumbers /\ w \in SequenceNumbers
  BY DEF LogTypeOK
<1>2. e \in SequenceNumbers
  BY EffectiveAcknowledgeType
<1>3. d \in 0..(SequenceMod - 1) /\ n \in 0..(SequenceMod - 1)
      /\ Distance(w, a) \in 0..(SequenceMod - 1)
  BY <1>1, <1>2, DistanceType
<1>4. d <= Distance(w, a)
  <2>1. CASE e = a
    BY <1>1, <1>3, <2>1, RangeExceedsRing DEF Distance, SequenceNumbers
  <2>2. CASE e # a
    BY <2>2 DEF EffectiveAcknowledge, QuerySequenceValid, AcknowledgedAvailable
  <2> QED
    BY <2>1, <2>2
<1>5. n = Distance(w, a) - d
  BY <1>1, <1>2, <1>4, DistanceSplit
<1>6. AcknowledgedAvailable = Distance(w, a) /\ Distance(w, a) <= Depth
      /\ Len(accepted) \in Nat
  BY AvailableType DEF AcknowledgedAvailable, WindowBounded
<1>7. n \in 0..Depth /\ d \in 0..Depth /\ n <= AcknowledgedAvailable
  BY <1>3, <1>4, <1>5, <1>6, RangeExceedsRing
<1>8. ASSUME NEW k \in 0..(Depth - 1), k < n
      PROVE  log_mem[Address(Advance(e, k))] = accepted[Len(accepted) - n + k + 1]
  <2>1. Advance(a, d) = e
    BY <1>1, <1>2, AdvanceDistance
  <2>2. k \in 0..Depth
    BY RangeExceedsRing
  <2>3. Advance(e, k) = Advance(a, d + k)
    BY <1>1, <1>7, <2>1, <2>2, AdvanceAdvance
  <2>4. d + k \in 0..(Depth - 1) /\ d + k < AcknowledgedAvailable
    BY <1>3, <1>5, <1>6, <1>7, <1>8, RangeExceedsRing
  <2>5. log_mem[Address(Advance(a, d + k))] = accepted[Acknowledged + (d + k) + 1]
    BY <2>4 DEF WindowIntact
  <2>6. Acknowledged + (d + k) + 1 = Len(accepted) - n + k + 1
    BY <1>3, <1>5, <1>6, <1>7 DEF Acknowledged
  <2> QED
    BY <2>3, <2>5, <2>6
<1> QED
  BY <1>2, <1>7, <1>8

(* One clock edge of the log, with or without an event and a query: the    *)
(* window stays within the ring and intact, the events before it stay      *)
(* acknowledged, and what was accepted stays accepted.                     *)
LEMMA CycleKeepsWindow ==
  ASSUME LogTypeOK, WindowBounded, WindowIntact, NEW event \in EventInputs,
         NEW q \in Queries, LogCycle(event, q)
  PROVE  /\ WindowBounded'
         /\ WindowIntact'
         /\ Len(accepted) <= Len(accepted')
         /\ \A i \in 1..Len(accepted) : accepted'[i] = accepted[i]
         /\ Acknowledged' =
              Len(accepted) - Distance(write_sequence_q, EffectiveAcknowledge(q))
         /\ AcknowledgedAvailable' >=
              Distance(write_sequence_q, EffectiveAcknowledge(q))
<1> DEFINE e == EffectiveAcknowledge(q)
           n == Distance(write_sequence_q, e)
           w == write_sequence_q
<1>1. /\ e \in SequenceNumbers
      /\ n \in 0..Depth
      /\ n <= AcknowledgedAvailable
      /\ \A k \in 0..(Depth - 1) : k < n =>
           log_mem[Address(Advance(e, k))] = accepted[Len(accepted) - n + k + 1]
  BY AcknowledgeKeepsWindow
<1>2. acknowledge_sequence_q' = e
  <2>1. q = NoQuery => e = acknowledge_sequence_q
    BY DEF EffectiveAcknowledge
  <2> QED
    BY <2>1 DEF LogCycle, AnswerQuery
<1>3. /\ w \in SequenceNumbers /\ accepted \in Seq(1..MaxEvents)
      /\ Len(accepted) \in Nat /\ AcknowledgedAvailable <= Len(accepted)
      /\ log_mem \in [0..(Depth - 1) -> 0..MaxEvents]
      /\ AcknowledgedAvailable \in Nat
  BY AvailableType, RangeExceedsRing DEF LogTypeOK, WindowBounded
<1> HIDE DEF e, n
<1>4. CASE event # NoEvent /\ EventWriteEnable(q)
  <2>1. /\ log_mem' = [log_mem EXCEPT ![Address(w)] = event]
        /\ write_sequence_q' = Advance(w, 1)
        /\ accepted' = Append(accepted, event)
    BY <1>4 DEF LogCycle, TakeEvent
  <2>2. n < Depth
    BY <1>4 DEF EventWriteEnable, n, e
  <2>3. AcknowledgedAvailable' = n + 1
    BY <1>1, <1>2, <1>3, <2>1, <2>2, DistanceStep
       DEF AcknowledgedAvailable, n
  <2>4. /\ Len(accepted') = Len(accepted) + 1
        /\ \A i \in 1..Len(accepted) : accepted'[i] = accepted[i]
        /\ accepted'[Len(accepted) + 1] = event
    BY <1>3, <2>1
  <2>5. Acknowledged' = Len(accepted) - n
    BY <1>1, <1>3, <2>3, <2>4, RangeExceedsRing DEF Acknowledged
  <2>6. WindowBounded'
    BY <1>1, <1>3, <2>2, <2>3, <2>4, RangeExceedsRing DEF WindowBounded
  <2>7. ASSUME NEW k \in 0..(Depth - 1), k < AcknowledgedAvailable'
        PROVE  log_mem'[Address(Advance(acknowledge_sequence_q', k))] =
                 accepted'[Acknowledged' + k + 1]
    <3>1. k <= n /\ k \in 0..Depth /\ n \in 0..Depth
      BY <1>1, <2>3, <2>7, RangeExceedsRing
    <3>2. CASE k = n
      <4>1. Advance(e, k) = w
        BY <1>1, <1>3, <3>2, AdvanceDistance DEF n
      <4>2. log_mem'[Address(w)] = event
        BY <1>3, <2>1, AddressType
      <4>3. Acknowledged' + k + 1 = Len(accepted) + 1
        BY <1>3, <2>5, <3>1, <3>2
      <4>4. acknowledge_sequence_q' = e
        BY <1>2
      <4> QED
        BY <2>4, <4>1, <4>2, <4>3, <4>4
    <3>3. CASE k < n
      <4>1. Advance(e, k) \in SequenceNumbers
        BY <1>1, <3>1, AdvanceType, RangeExceedsRing
      <4>2. n - k \in 1..(Depth - 1)
        BY <2>2, <3>1, <3>3, RangeExceedsRing
      <4>3. Advance(Advance(e, k), n - k) = w
        <5>1. n - k \in 0..Depth
          BY <4>2, RangeExceedsRing
        <5>2. Advance(Advance(e, k), n - k) = Advance(e, k + (n - k))
          BY <1>1, <3>1, <5>1, AdvanceAdvance
        <5>3. k + (n - k) = n
          BY <3>1, RangeExceedsRing
        <5>4. Advance(e, n) = w
          BY <1>1, <1>3, AdvanceDistance DEF n
        <5> QED
          BY <5>2, <5>3, <5>4
      <4>4. Address(Advance(e, k)) # Address(w)
        BY <1>3, <4>1, <4>2, <4>3, AddressDistinct
      <4>5. log_mem'[Address(Advance(e, k))] = log_mem[Address(Advance(e, k))]
        BY <1>3, <2>1, <4>1, <4>4, AddressType
      <4>6. Len(accepted) - n + k + 1 \in 1..Len(accepted)
        BY <1>1, <1>3, <3>1, <3>3, RangeExceedsRing
      <4>7. Acknowledged' + k + 1 = Len(accepted) - n + k + 1
        BY <2>5
      <4>8. log_mem[Address(Advance(e, k))] = accepted[Len(accepted) - n + k + 1]
        BY <1>1, <3>3
      <4>9. accepted'[Len(accepted) - n + k + 1] =
              accepted[Len(accepted) - n + k + 1]
        BY <2>4, <4>6
      <4> QED
        BY <1>2, <4>5, <4>7, <4>8, <4>9
    <3> QED
      BY <3>1, <3>2, <3>3, RangeExceedsRing
  <2>8. WindowIntact'
    BY <2>7 DEF WindowIntact
  <2> QED
    BY <1>1, <1>3, <2>3, <2>4, <2>5, <2>6, <2>8, RangeExceedsRing DEF n, e
<1>5. CASE event = NoEvent \/ ~EventWriteEnable(q)
  <2>1. log_mem' = log_mem /\ write_sequence_q' = w /\ accepted' = accepted
    BY <1>5 DEF LogCycle, TakeEvent
  <2>2. AcknowledgedAvailable' = n
    BY <1>2, <2>1 DEF AcknowledgedAvailable, n
  <2>3. Acknowledged' = Len(accepted) - n
    BY <2>1, <2>2 DEF Acknowledged
  <2>4. WindowBounded'
    BY <1>1, <1>3, <2>1, <2>2, RangeExceedsRing DEF WindowBounded
  <2>5. WindowIntact'
    BY <1>1, <1>2, <2>1, <2>2, <2>3 DEF WindowIntact
  <2> QED
    BY <1>1, <1>3, <2>1, <2>2, <2>3, <2>4, <2>5, RangeExceedsRing DEF n, e
<1> QED
  BY <1>4, <1>5

-----------------------------------------------------------------------------
(* The response header and the stream. *)

(* An event edge moves neither the acknowledge sequence nor the header, so *)
(* a stream in progress stays where it was. *)
LEMMA EventKeepsStream ==
  ASSUME LogInv, NEW event \in EventInputs, LogCycle(event, NoQuery),
         UNCHANGED stream
  PROVE  LogInv'
<1>1. LogTypeOK /\ StreamTypeOK /\ WindowBounded /\ WindowIntact
  BY DEF LogInv, TypeOK
<1>2. NoQuery \in Queries
  BY DEF Queries
<1>3. TypeOK'
  BY <1>1, <1>2, LogCycleType DEF TypeOK, StreamTypeOK
<1>4. EffectiveAcknowledge(NoQuery) = acknowledge_sequence_q
      /\ Distance(write_sequence_q, EffectiveAcknowledge(NoQuery)) =
           AcknowledgedAvailable
  BY DEF EffectiveAcknowledge, AcknowledgedAvailable
<1>5. /\ WindowBounded' /\ WindowIntact'
      /\ Len(accepted) <= Len(accepted')
      /\ \A i \in 1..Len(accepted) : accepted'[i] = accepted[i]
      /\ Acknowledged' = Acknowledged
      /\ AcknowledgedAvailable' >= AcknowledgedAvailable
  BY <1>1, <1>2, <1>4, CycleKeepsWindow DEF Acknowledged
<1>6. UNCHANGED <<acknowledge_sequence_q, response, session, stream>>
  BY DEF LogCycle, AnswerQuery
<1>7. /\ AcknowledgedAvailable \in Nat /\ AcknowledgedAvailable' \in Nat
      /\ Len(accepted) \in Nat /\ Len(accepted') \in Nat
      /\ Acknowledged \in Int
  <2>1. LogTypeOK'
    BY <1>3 DEF TypeOK
  <2>2. AcknowledgedAvailable' \in Nat /\ Len(accepted') \in Nat
    BY <2>1, NextAvailableType
  <2>3. AcknowledgedAvailable \in Nat /\ Len(accepted) \in Nat
    BY <1>1, AvailableType
  <2> QED
    BY <2>2, <2>3 DEF Acknowledged
<1>8. response.count \in Nat /\ stream.header.count \in Nat
  BY <1>1, RangeExceedsRing DEF LogTypeOK, StreamTypeOK, Responses
<1>9. ResponseInWindow'
  BY <1>5, <1>6, <1>7, <1>8 DEF LogInv, ResponseInWindow
<1>10. StreamInWindow'
  BY <1>5, <1>6, <1>7, <1>8 DEF LogInv, StreamInWindow
<1>11. StreamFaithful'
  <2> SUFFICES ASSUME stream.active, stream.header.session = session,
                      NEW i \in 1..Len(stream.items)
               PROVE  /\ Acknowledged + i <= Len(accepted')
                      /\ stream.items[i] = accepted'[Acknowledged + i]
    BY <1>5, <1>6 DEF StreamFaithful
  <2>1. /\ Acknowledged + i <= Len(accepted)
        /\ stream.items[i] = accepted[Acknowledged + i]
    BY DEF LogInv, StreamFaithful
  <2>2. Len(stream.items) \in Nat
    BY <1>1 DEF StreamTypeOK
  <2>3. Acknowledged + i \in 1..Len(accepted)
    BY <1>1, <1>7, <2>1, <2>2 DEF WindowBounded, Acknowledged
  <2> QED
    BY <1>5, <1>7, <2>1, <2>2, <2>3
<1> QED
  BY <1>3, <1>5, <1>9, <1>10, <1>11 DEF LogInv

(* A query edge, outside a stream, leaves a header within the new window. *)
LEMMA QueryKeepsWindow ==
  ASSUME LogInv, NEW event \in EventInputs, NEW q \in SequenceNumbers,
         LogCycle(event, q), UNCHANGED stream, ~stream.active
  PROVE  LogInv'
<1>1. LogTypeOK /\ StreamTypeOK /\ WindowBounded /\ WindowIntact
  BY DEF LogInv, TypeOK
<1>2. q \in Queries /\ q # NoQuery
  BY RangeExceedsRing DEF Queries, NoQuery, SequenceNumbers
<1>3. TypeOK'
  BY <1>1, <1>2, LogCycleType DEF TypeOK, StreamTypeOK
<1>4. /\ WindowBounded' /\ WindowIntact'
      /\ AcknowledgedAvailable' >=
           Distance(write_sequence_q, EffectiveAcknowledge(q))
  BY <1>1, <1>2, CycleKeepsWindow
<1>5. /\ acknowledge_sequence_q' = EffectiveAcknowledge(q)
      /\ response'.start = q
      /\ response'.count =
           IF QuerySequenceValid(q) THEN BoundedCount(q) ELSE 0
      /\ response'.session = session
      /\ session' = session
  BY <1>2 DEF LogCycle, AnswerQuery
<1>6. ResponseInWindow'
  <2> SUFFICES ASSUME response'.count > 0
               PROVE  /\ response'.start = acknowledge_sequence_q'
                      /\ response'.count <= AcknowledgedAvailable'
    BY DEF ResponseInWindow
  <2>1. QuerySequenceValid(q)
    BY <1>5
  <2>2. EffectiveAcknowledge(q) = q
    BY <1>2, <2>1 DEF EffectiveAcknowledge
  <2>3. QueryAvailable(q) \in 0..(SequenceMod - 1)
    BY <1>1, DistanceType DEF LogTypeOK, QueryAvailable
  <2>4. BoundedCount(q) <= QueryAvailable(q) /\ BoundedCount(q) \in Nat
    BY <2>3, RangeExceedsRing DEF BoundedCount
  <2>5. AcknowledgedAvailable' >= QueryAvailable(q)
    BY <1>4, <2>2 DEF QueryAvailable
  <2>6. AcknowledgedAvailable' \in Nat
    BY <1>3, NextAvailableType DEF TypeOK
  <2> QED
    BY <1>5, <2>1, <2>2, <2>3, <2>4, <2>5, <2>6
<1>7. StreamInWindow'
  BY <1>1, <1>5 DEF LogInv, StreamInWindow, LogTypeOK
<1>8. StreamFaithful'
  BY DEF StreamFaithful
<1> QED
  BY <1>3, <1>4, <1>6, <1>7, <1>8 DEF LogInv

(* A clear starts a session no header or stream can belong to yet. *)
LEMMA ClearKeepsInvariant ==
  ASSUME LogInv, session < MaxSessions, LogClear, UNCHANGED stream
  PROVE  LogInv'
<1>1. TypeOK'
  BY LogClearType DEF LogInv, TypeOK, StreamTypeOK
<1>2. AcknowledgedAvailable' = 0 /\ Len(accepted') = 0 /\ session' = session + 1
  BY RangeExceedsRing DEF LogClear, AcknowledgedAvailable, Distance
<1>3. session \in Nat /\ stream.header.session \in Nat
      /\ stream.header.session <= session
  BY LogAssumption DEF LogInv, TypeOK, LogTypeOK, StreamTypeOK, Responses,
                       StreamInWindow
<1>4. WindowBounded' /\ WindowIntact'
  BY <1>2, RangeExceedsRing DEF WindowBounded, WindowIntact
<1>5. response'.count = 0 /\ response'.session = session + 1
  BY DEF LogClear, EmptyResponse
<1>6. ResponseInWindow'
  BY <1>5 DEF ResponseInWindow
<1>7. StreamInWindow' /\ StreamFaithful'
  BY <1>2, <1>3, <1>5 DEF StreamInWindow, StreamFaithful
<1> QED
  BY <1>1, <1>4, <1>6, <1>7 DEF LogInv

(* Latching a header: the batch it announces is still in the window. *)
LEMMA LatchKeepsInvariant ==
  ASSUME LogInv, LatchHeader
  PROVE  LogInv'
<1>1. TypeOK'
  BY StreamStepType DEF LogInv
<1>2. UNCHANGED logVars
  BY DEF LatchHeader
<1>3. /\ stream'.active /\ stream'.header = response
      /\ stream'.read_sequence = response.start /\ stream'.items = << >>
  BY DEF LatchHeader
<1>4. response \in Responses /\ acknowledge_sequence_q \in SequenceNumbers
      /\ session \in Nat
  BY LogAssumption DEF LogInv, TypeOK, LogTypeOK
<1>5. Len(stream'.items) = 0 /\ response.count \in Nat
  BY <1>3, <1>4, RangeExceedsRing DEF Responses
<1>6. StreamFaithful'
  BY <1>5 DEF StreamFaithful
<1>7. Advance(acknowledge_sequence_q, 0) = acknowledge_sequence_q
  BY <1>4, AdvanceZero
<1>8. StreamInWindow'
  BY <1>2, <1>3, <1>4, <1>5, <1>7
     DEF LogInv, StreamInWindow, ResponseInWindow, AcknowledgedAvailable, logVars
<1>9. WindowBounded' /\ WindowIntact' /\ ResponseInWindow'
  BY <1>2 DEF logVars, LogInv, WindowBounded, WindowIntact, ResponseInWindow,
              AcknowledgedAvailable, Acknowledged
<1> QED
  BY <1>1, <1>6, <1>8, <1>9 DEF LogInv

(* The next item is read from the slot of the next unacknowledged event. *)
LEMMA ItemKeepsInvariant ==
  ASSUME LogInv, StreamItem
  PROVE  LogInv'
<1> DEFINE m == Len(stream.items)
           item == log_mem[Address(stream.read_sequence)]
           a == acknowledge_sequence_q
<1>1. TypeOK'
  BY StreamStepType DEF LogInv
<1>2. UNCHANGED logVars
  BY DEF StreamItem
<1>3. /\ stream \in [active : BOOLEAN, header : Responses,
                     read_sequence : SequenceNumbers, items : Seq(0..MaxEvents)]
      /\ stream.items \in Seq(0..MaxEvents) /\ m \in Nat
      /\ stream.header.count \in 0..BatchItems
      /\ a \in SequenceNumbers
  BY DEF LogInv, TypeOK, LogTypeOK, StreamTypeOK, Responses
<1>4. /\ stream'.active = stream.active /\ stream'.header = stream.header
      /\ stream'.items = Append(stream.items, item)
      /\ stream'.read_sequence = Advance(stream.read_sequence, 1)
  BY <1>3 DEF StreamItem
<1>5. /\ Len(stream'.items) = m + 1
      /\ stream'.items[m + 1] = item
      /\ \A i \in 1..m : stream'.items[i] = stream.items[i]
  BY <1>3, <1>4
<1>6. WindowBounded' /\ WindowIntact' /\ ResponseInWindow'
  BY <1>2 DEF logVars, LogInv, WindowBounded, WindowIntact, ResponseInWindow,
              AcknowledgedAvailable, Acknowledged
<1>7. AcknowledgedAvailable' = AcknowledgedAvailable
      /\ Acknowledged' = Acknowledged /\ accepted' = accepted
      /\ session' = session /\ acknowledge_sequence_q' = a
      /\ response' = response
  BY <1>2 DEF logVars, AcknowledgedAvailable, Acknowledged
<1>8. CASE stream.header.session = session
  <2>1. /\ m <= stream.header.count /\ m # stream.header.count
        /\ stream.active
    BY <1>8 DEF LogInv, StreamInWindow, StreamItem, StreamComplete
  <2>2. m < stream.header.count /\ stream.header.count > 0
    BY <1>3, <2>1, RangeExceedsRing
  <2>3. /\ stream.header.start = a
        /\ stream.header.count <= AcknowledgedAvailable
        /\ stream.read_sequence = Advance(a, m)
    BY <1>8, <2>1, <2>2 DEF LogInv, StreamInWindow
  <2>4. AcknowledgedAvailable \in Nat /\ AcknowledgedAvailable <= Depth
        /\ AcknowledgedAvailable <= Len(accepted) /\ Len(accepted) \in Nat
    BY AvailableType, RangeExceedsRing DEF LogInv, TypeOK, WindowBounded
  <2>5. m \in 0..(Depth - 1) /\ m < AcknowledgedAvailable
    BY <1>3, <2>2, <2>3, <2>4, RangeExceedsRing
  <2>6. item = accepted[Acknowledged + m + 1]
    BY <2>3, <2>5 DEF LogInv, WindowIntact
  <2>7. Advance(Advance(a, m), 1) = Advance(a, m + 1)
    BY <1>3, <2>5, AdvanceAdvance, RangeExceedsRing
  <2>8. StreamInWindow'
    BY <1>3, <1>4, <1>5, <1>7, <2>2, <2>3, <2>7, RangeExceedsRing
       DEF LogInv, StreamInWindow
  <2>9. StreamFaithful'
    <3> SUFFICES ASSUME NEW i \in 1..(m + 1)
                 PROVE  /\ Acknowledged + i <= Len(accepted)
                        /\ stream'.items[i] = accepted[Acknowledged + i]
      BY <1>5, <1>7 DEF StreamFaithful
    <3>1. CASE i \in 1..m
      BY <1>5, <1>8, <2>1, <3>1 DEF LogInv, StreamFaithful
    <3>2. CASE i = m + 1
      <4>1. Acknowledged + i = Acknowledged + m + 1
        BY <1>3, <2>4, <3>2 DEF Acknowledged
      <4>2. Acknowledged + i <= Len(accepted)
        BY <1>3, <2>4, <2>5, <3>2 DEF Acknowledged
      <4> QED
        BY <1>5, <2>6, <3>2, <4>1, <4>2
    <3> QED
      BY <1>3, <3>1, <3>2
  <2> QED
    BY <1>1, <1>6, <2>8, <2>9 DEF LogInv
<1>9. CASE stream.header.session # session
  <2>1. StreamInWindow' /\ StreamFaithful'
    BY <1>4, <1>7, <1>9 DEF LogInv, StreamInWindow, StreamFaithful
  <2> QED
    BY <1>1, <1>6, <2>1 DEF LogInv
<1> QED
  BY <1>8, <1>9

(* Ending a transaction forgets the stream and nothing else. *)
LEMMA EndKeepsInvariant ==
  ASSUME LogInv, StreamEnd
  PROVE  LogInv'
<1>1. TypeOK'
  BY StreamStepType DEF LogInv
<1>2. UNCHANGED logVars /\ ~stream'.active /\ stream'.header.session = 0
  BY DEF StreamEnd, NoStream, EmptyResponse
<1>3. session \in Nat
  BY LogAssumption DEF LogInv, TypeOK, LogTypeOK
<1>4. StreamInWindow' /\ StreamFaithful'
  BY <1>2, <1>3 DEF logVars, LogInv, StreamInWindow, StreamFaithful
<1>5. WindowBounded' /\ WindowIntact' /\ ResponseInWindow'
  BY <1>2 DEF logVars, LogInv, WindowBounded, WindowIntact, ResponseInWindow,
              AcknowledgedAvailable, Acknowledged
<1> QED
  BY <1>1, <1>4, <1>5 DEF LogInv

(* The inductive invariant holds after power-on. *)
LEMMA InitLogInv == Init => LogInv
<1> SUFFICES ASSUME Init PROVE LogInv
  OBVIOUS
<1>1. TypeOK
  BY InitType DEF TypeOK
<1>2. AcknowledgedAvailable = 0 /\ Len(accepted) = 0 /\ session = 0
  BY DEF Init, LogInit, AcknowledgedAvailable, Distance
<1>3. /\ response.count = 0 /\ response.session = 0
      /\ ~stream.active /\ stream.header.session = 0
  BY DEF Init, LogInit, NoStream, EmptyResponse
<1>4. WindowBounded /\ WindowIntact
  BY <1>2, RangeExceedsRing DEF WindowBounded, WindowIntact
<1>5. ResponseInWindow /\ StreamInWindow /\ StreamFaithful
  BY <1>2, <1>3 DEF ResponseInWindow, StreamInWindow, StreamFaithful
<1> QED
  BY <1>1, <1>4, <1>5 DEF LogInv

(* Every step preserves the inductive invariant. *)
LEMMA NextLogInv == LogInv /\ [Next]_vars => LogInv'
<1> SUFFICES ASSUME LogInv, [Next]_vars PROVE LogInv'
  OBVIOUS
<1>1. CASE EventCycle
  <2>1. PICK event \in EventInputs : LogCycle(event, NoQuery)
    BY <1>1 DEF EventCycle
  <2> QED
    BY <1>1, <2>1, EventKeepsStream DEF EventCycle
<1>2. CASE QueryCycle
  <2>1. PICK event \in EventInputs, q \in SequenceNumbers : LogCycle(event, q)
    BY <1>2 DEF QueryCycle
  <2> QED
    BY <1>2, <2>1, QueryKeepsWindow DEF QueryCycle
<1>3. CASE ClearCycle
  BY <1>3, ClearKeepsInvariant DEF ClearCycle
<1>4. CASE LatchHeader
  BY <1>4, LatchKeepsInvariant
<1>5. CASE StreamItem
  BY <1>5, ItemKeepsInvariant
<1>6. CASE StreamEnd
  BY <1>6, EndKeepsInvariant
<1>7. CASE UNCHANGED vars
  BY <1>7 DEF vars, logVars, LogInv, TypeOK, LogTypeOK, StreamTypeOK,
              WindowBounded, WindowIntact, ResponseInWindow, StreamInWindow,
              StreamFaithful, AcknowledgedAvailable, Acknowledged
<1> QED
  BY <1>1, <1>2, <1>3, <1>4, <1>5, <1>6, <1>7 DEF Next

(* So it holds in every reachable state. *)
LEMMA LogInvHolds == Spec => []LogInv
  BY InitLogInv, NextLogInv, PTL DEF Spec

(* "Entries at or beyond the acknowledged sequence cannot be overwritten"  *)
(* (spi_completion_log.sv), for every ring and whatever the master asks.   *)
THEOREM UnacknowledgedKept == Spec => [](WindowBounded /\ WindowIntact)
<1>1. LogInv => WindowBounded /\ WindowIntact
  BY DEF LogInv
<1> QED
  BY <1>1, LogInvHolds, PTL

(* Streaming the items from the live ring delivers what a snapshot at the  *)
(* query would have delivered.                                             *)
THEOREM StreamedAsAccepted == Spec => []StreamFaithful
<1>1. LogInv => StreamFaithful
  BY DEF LogInv
<1> QED
  BY <1>1, LogInvHolds, PTL
-----------------------------------------------------------------------------
(* Positions in a session's log, and their sequence numbers. *)

(* Advancing the sequence number of a position is moving the position. *)
LEMMA AdvancePosition ==
  ASSUME NEW n \in Nat, NEW k \in 0..Depth
  PROVE  /\ n % SequenceMod \in SequenceNumbers
         /\ Advance(n % SequenceMod, k) = (n + k) % SequenceMod
<1> DEFINE M == SequenceMod
           q == n \div M
           r == n % M
<1>1. M \in Nat /\ M > 0 /\ k \in Nat /\ k < M
  BY RangeExceedsRing
<1>2. n = M * q + r /\ q \in Int /\ r \in 0..(M - 1)
  BY <1>1, DivMod
<1> HIDE DEF q, r, M
<1>3. CASE r + k < M
  <2>1. n + k = M * q + (r + k) /\ r + k \in 0..(M - 1) /\ n + k \in Int
    <3>1. M * q \in Int
      BY <1>1, <1>2, Z3
    <3> QED
      BY <1>1, <1>2, <1>3, <3>1
  <2>2. (n + k) % M = r + k
    BY <1>1, <1>2, <2>1, RemainderUnique
  <2>3. Advance(r, k) = r + k
    BY <1>3 DEF Advance, M
  <2> QED
    BY <1>2, <2>2, <2>3 DEF SequenceNumbers, M, r
<1>4. CASE ~(r + k < M)
  <2>1. M * (q + 1) = M * q + M /\ M * q \in Int
    BY <1>1, <1>2, Z3
  <2>2. /\ n + k = M * (q + 1) + (r + k - M) /\ r + k - M \in 0..(M - 1)
        /\ n + k \in Int /\ q + 1 \in Int
    BY <1>1, <1>2, <1>4, <2>1
  <2>3. (n + k) % M = r + k - M
    BY <1>1, <2>2, RemainderUnique
  <2>4. Advance(r, k) = r + k - M
    BY <1>4 DEF Advance, M
  <2> QED
    BY <1>2, <2>3, <2>4 DEF SequenceNumbers, M, r
<1> QED
  BY <1>3, <1>4

(* The distance of two sequence numbers at most a ring apart is that of    *)
(* their positions.                                                        *)
LEMMA DistancePosition ==
  ASSUME NEW m \in Nat, NEW n \in Nat, m <= n, n - m <= Depth
  PROVE  Distance(n % SequenceMod, m % SequenceMod) = n - m
<1> DEFINE k == n - m
           s == m % SequenceMod
<1>1. k \in 0..Depth /\ m + k = n
  BY RangeExceedsRing
<1>2. s \in SequenceNumbers /\ n % SequenceMod = Advance(s, k)
  BY <1>1, AdvancePosition
<1> HIDE DEF k, s
<1>3. Distance(Advance(s, k), s) = k
  BY <1>1, <1>2, RangeExceedsRing DEF Distance, Advance, SequenceNumbers
<1> QED
  BY <1>2, <1>3 DEF k, s

-----------------------------------------------------------------------------
(* The log's invariant under the session's steps. *)

(* The end of a transaction, whether or not a header had been latched. *)
LEMMA EndKeepsLog ==
  ASSUME LogInv, UNCHANGED logVars, stream' = NoStream
  PROVE  LogInv'
<1>1. TypeOK'
  BY NoStreamType DEF LogInv, TypeOK, LogTypeOK, StreamTypeOK, logVars
<1>2. ~stream'.active /\ stream'.header.session = 0
  BY DEF NoStream, EmptyResponse
<1>3. session \in Nat
  BY LogAssumption DEF LogInv, TypeOK, LogTypeOK
<1>4. StreamInWindow' /\ StreamFaithful'
  BY <1>2, <1>3 DEF logVars, LogInv, StreamInWindow, StreamFaithful
<1>5. WindowBounded' /\ WindowIntact' /\ ResponseInWindow'
  BY DEF logVars, LogInv, WindowBounded, WindowIntact, ResponseInWindow,
         AcknowledgedAvailable, Acknowledged
<1> QED
  BY <1>1, <1>4, <1>5 DEF LogInv

(* The log and the stream left alone. *)
LEMMA IdleKeepsLog ==
  ASSUME LogInv, UNCHANGED vars
  PROVE  LogInv'
  BY DEF vars, logVars, LogInv, TypeOK, LogTypeOK, StreamTypeOK,
         WindowBounded, WindowIntact, ResponseInWindow, StreamInWindow,
         StreamFaithful, AcknowledgedAvailable, Acknowledged

(* A clear that also ends the transaction in progress. *)
LEMMA ClearEndKeepsLog ==
  ASSUME LogInv, session < MaxSessions, LogClear, stream' \in {stream, NoStream}
  PROVE  /\ LogInv'
         /\ AcknowledgedAvailable' = 0 /\ Acknowledged' = 0
         /\ accepted' = << >> /\ Len(accepted') = 0
<1>1. TypeOK'
  BY LogClearType, NoStreamType DEF LogInv, TypeOK, StreamTypeOK
<1>2. AcknowledgedAvailable' = 0 /\ Len(accepted') = 0 /\ session' = session + 1
      /\ accepted' = << >>
  BY RangeExceedsRing DEF LogClear, AcknowledgedAvailable, Distance
<1>3. session \in Nat /\ stream.header.session \in Nat
      /\ stream.header.session <= session
  BY LogAssumption DEF LogInv, TypeOK, LogTypeOK, StreamTypeOK, Responses,
                       StreamInWindow
<1>4. WindowBounded' /\ WindowIntact'
  BY <1>2, RangeExceedsRing DEF WindowBounded, WindowIntact
<1>5. response'.count = 0 /\ response'.session = session + 1
  BY DEF LogClear, EmptyResponse
<1>6. ResponseInWindow'
  BY <1>5 DEF ResponseInWindow
<1>7. stream'.header.session \in Nat /\ stream'.header.session <= session
  <2>1. NoStream.header.session = 0
    BY DEF NoStream, EmptyResponse
  <2> QED
    BY <1>3, <2>1
<1>8. StreamInWindow' /\ StreamFaithful'
  BY <1>2, <1>3, <1>5, <1>7 DEF StreamInWindow, StreamFaithful
<1>9. Acknowledged' = 0
  BY <1>2 DEF Acknowledged
<1> QED
  BY <1>1, <1>2, <1>4, <1>6, <1>8, <1>9 DEF LogInv

-----------------------------------------------------------------------------
(* The two halves of the invariant: who owns which session, and what has   *)
(* been consumed of it.                                                    *)

Ownership ==
  /\ SessionTypeOK
  /\ ControlConsistent
  /\ StaleEpochHarmless
  /\ OpenedOnce
  /\ ServedIsOwned

Consumption ==
  /\ LogInv
  /\ HeadersCurrent
  /\ AcknowledgedConsumed
  /\ DropsFlagged
  /\ ConsumedIsPrefix
  /\ NoGapConsumed

(* Together they are the whole. *)
LEMMA Halves == SessionInv <=> Ownership /\ Consumption
  BY DEF SessionInv, Ownership, Consumption

(* Sessions are numbered from zero. *)
LEMMA SessionNumber ==
  ASSUME LogInv
  PROVE  session \in 0..MaxSessions /\ session \in Nat /\ MaxSessions \in Nat
         /\ accepted \in Seq(1..MaxEvents) /\ Len(accepted) \in Nat
  BY LogAssumption DEF LogInv, TypeOK, LogTypeOK

(* An idle stream is not active. *)
LEMMA NoStreamInactive == NoStream.active = FALSE
  BY DEF NoStream

(* A header latched or an item shifted leaves the stream active. *)
LEMMA StreamStaysActive ==
  ASSUME LogInv, LatchHeader \/ StreamItem
  PROVE  stream'.active /\ UNCHANGED logVars
<1>1. stream \in [active : BOOLEAN, header : Responses,
                  read_sequence : SequenceNumbers, items : Seq(0..MaxEvents)]
  BY DEF LogInv, TypeOK, StreamTypeOK
<1>2. CASE LatchHeader
  BY <1>2 DEF LatchHeader
<1>3. CASE StreamItem
  <2>1. stream'.active = stream.active
    BY <1>1, <1>3 DEF StreamItem
  <2> QED
    BY <1>3, <2>1 DEF StreamItem
<1> QED
  BY <1>2, <1>3

-----------------------------------------------------------------------------
(* Ownership, step by step. *)

(* A clock edge without an event accepts none. *)
LEMMA QuietCycle ==
  ASSUME NEW q, LogCycle(NoEvent, q)
  PROVE  accepted' = accepted
  BY DEF LogCycle, TakeEvent

(* The FPGA's steps: a session ends only when core 1 does not serve it, or *)
(* with the asset gone and the log empty.                                  *)
LEMMA FpgaKeepsOwnership ==
  ASSUME SessionInv, FpgaNext
  PROVE  Ownership'
<1>1. Ownership /\ LogInv
  BY Halves DEF Consumption
<1>2. session \in Nat /\ MaxSessions \in Nat /\ session \in 0..MaxSessions
  BY <1>1, SessionNumber
<1> USE DEF Ownership, SessionTypeOK, ControlConsistent, StaleEpochHarmless,
            OpenedOnce, ServedIsOwned, NoEpoch, NoSession
<1>3. CASE CompletionEvent
  <2>1. UNCHANGED <<session, fpgaVars, linkVars, mcuVars>> /\ asset_loaded
    BY <1>3 DEF CompletionEvent, LogCycle
  <2> QED
    BY <1>1, <2>1 DEF fpgaVars, linkVars, mcuVars, faultVars, localVars
<1>4. CASE ResetAssert
  BY <1>1, <1>4 DEF ResetAssert, logVars, linkVars, mcuVars, faultVars, localVars
<1>5. CASE ResetDrained
  <2>1. /\ session' = session + 1 /\ session_epoch' = session_epoch + 1
        /\ resetting' = FALSE /\ session_reset_req' = FALSE
        /\ UNCHANGED <<linkVars, mcuVars, asset_loaded, mailbox, load_monitored>>
        /\ session < MaxSessions /\ ~fpga_session_ready
    BY <1>1, <1>5 DEF ResetDrained, LogClear
  <2>2. adopted' # session' /\ adopted' <= session'
    BY <1>1, <1>2, <2>1 DEF mcuVars, localVars
  <2>3. SessionTypeOK'
    <3>1. session_epoch' \in 0..MaxSessions /\ session_epoch' <= session'
          /\ mailbox' \in Int
      BY <1>1, <1>2, <2>1
    <3> QED
      BY <1>1, <2>1, <3>1 DEF mcuVars, localVars
  <2>4. ControlConsistent'
    BY <1>1, <2>1 DEF mcuVars, linkVars, faultVars
  <2>5. OpenedOnce'
    BY <1>1, <2>1, <2>2 DEF mcuVars, localVars
  <2>6. StaleEpochHarmless' /\ ServedIsOwned'
    BY <1>1, <2>1 DEF mcuVars
  <2> QED
    BY <2>3, <2>4, <2>5, <2>6
<1>6. CASE FpgaRestart
  <2>1. /\ session' = session + 1 /\ session_epoch' = 0 /\ mailbox' = NoEpoch
        /\ resetting' = FALSE /\ session_reset_req' = FALSE
        /\ asset_loaded' = FALSE /\ load_monitored' = FALSE
        /\ accepted' = << >> /\ stream' = NoStream
        /\ xfer' = (IF xfer = "none" THEN "none" ELSE "dead")
        /\ UNCHANGED mcuVars
    BY <1>6 DEF FpgaRestart, LogClear
  <2>2. adopted' # session' /\ adopted' <= session'
    BY <1>1, <1>2, <2>1 DEF mcuVars, localVars
  <2>3. SessionTypeOK'
    <3>1. session_epoch' \in 0..MaxSessions /\ session_epoch' <= session'
          /\ mailbox' \in Int
      BY <1>1, <1>2, <2>1
    <3> QED
      BY <1>1, <2>1, <3>1 DEF mcuVars, localVars
  <2>4. ControlConsistent'
    BY <1>1, <2>1, NoStreamInactive DEF mcuVars, faultVars
  <2>5. OpenedOnce'
    BY <1>1, <2>1, <2>2 DEF mcuVars, localVars
  <2>6. StaleEpochHarmless' /\ ServedIsOwned'
    BY <1>1, <2>1 DEF mcuVars
  <2> QED
    BY <2>3, <2>4, <2>5, <2>6
<1>7. CASE AssetLoaded
  BY <1>1, <1>7 DEF AssetLoaded, logVars, linkVars, mcuVars, faultVars, localVars
<1> QED
  BY <1>3, <1>4, <1>5, <1>6, <1>7 DEF FpgaNext

-----------------------------------------------------------------------------
(* What an intact, well-formed batch holds. *)

(* A prefix, by its elements. *)
LEMMA PrefixPointwise ==
  ASSUME NEW S, NEW s \in Seq(S), NEW t \in Seq(S), Len(t) <= Len(s)
  PROVE  /\ t = SubSeq(s, 1, Len(t)) => \A i \in 1..Len(t) : t[i] = s[i]
         /\ (\A i \in 1..Len(t) : t[i] = s[i]) => t = SubSeq(s, 1, Len(t))
<1> DEFINE n == Len(t)
           u == SubSeq(s, 1, n)
<1>1. n \in Nat /\ Len(s) \in Nat /\ \A i \in 1..n : s[i] \in S
  BY ST!LenProperties, ST!ElementOfSeq
<1>2. u \in Seq(S) /\ Len(u) = n /\ \A i \in 1..n : u[i] = s[i]
  BY <1>1, ST!SubSeqProperties
<1> HIDE DEF u
<1>3. (\A i \in 1..n : t[i] = s[i]) => t = u
  BY <1>1, <1>2, ST!SeqEqual
<1> QED
  BY <1>2, <1>3 DEF u

(* Where the MCU stands: within a ring of the log's end. *)
LEMMA ConsumerPosition ==
  ASSUME SessionInv, mcu_session = session
  PROVE  /\ Len(received) \in Nat /\ Len(accepted) \in Nat
         /\ Len(received) <= Len(accepted)
         /\ Len(accepted) - Len(received) <= Depth
         /\ Distance(write_sequence_q, app_completion_sequence) =
              Len(accepted) - Len(received)
<1>1. /\ received \in Seq(1..MaxEvents) /\ Len(received) <= Len(accepted)
      /\ app_completion_sequence = Len(received) % SequenceMod
      /\ write_sequence_q = Len(accepted) % SequenceMod
      /\ Acknowledged <= Len(received)
      /\ AcknowledgedAvailable <= Depth
      /\ LogTypeOK
  BY DEF SessionInv, SessionTypeOK, ConsumedIsPrefix, AcknowledgedConsumed,
         LogInv, WindowBounded, TypeOK
<1>2. AcknowledgedAvailable \in Nat /\ Len(accepted) \in Nat /\ Len(received) \in Nat
  BY <1>1, AvailableType
<1>3. Len(accepted) - Len(received) <= Depth
  BY <1>1, <1>2, RangeExceedsRing DEF Acknowledged
<1> QED
  BY <1>1, <1>2, <1>3, DistancePosition

(* A stale header of this session is told apart by its start: a batch that *)
(* passes the checks and is not empty holds the events that follow the     *)
(* last one consumed.                                                      *)
LEMMA BatchIsNext ==
  ASSUME SessionInv, xfer = "data", StreamComplete, BatchWellFormed,
         NEW n, n = stream.header.count
  PROVE  /\ n \in 0..BatchItems
         /\ stream.items \in Seq(0..MaxEvents) /\ Len(stream.items) = n
         /\ n > 0 =>
              /\ mcu_session = session
              /\ Acknowledged = Len(received)
              /\ Len(received) + n <= Len(accepted)
              /\ \A i \in 1..n : stream.items[i] = accepted[Len(received) + i]
<1>1. /\ stream.items \in Seq(0..MaxEvents) /\ Len(stream.items) = n
      /\ n \in 0..BatchItems
      /\ stream.active /\ stream.header.session = session
      /\ fpga_session_ready /\ app_control_fault = "none"
      /\ LogTypeOK
  BY DEF SessionInv, LogInv, TypeOK, StreamTypeOK, Responses, StreamComplete,
         ControlConsistent, HeadersCurrent
<1>2. n \in Nat /\ AcknowledgedAvailable \in Nat /\ Len(accepted) \in Nat
  BY <1>1, AvailableType, RangeExceedsRing
<1>3. ASSUME n > 0
      PROVE  /\ mcu_session = session
             /\ Acknowledged = Len(received)
             /\ Len(received) + n <= Len(accepted)
             /\ \A i \in 1..n : stream.items[i] = accepted[Len(received) + i]
  <2>1. /\ stream.header.start = acknowledge_sequence_q
        /\ n <= AcknowledgedAvailable
    BY <1>1, <1>3 DEF SessionInv, LogInv, StreamInWindow
  <2>2. acknowledge_sequence_q = app_completion_sequence
    BY <2>1 DEF BatchWellFormed
  <2>3. Len(accepted) > 0
    BY <1>2, <1>3, <2>1 DEF SessionInv, LogInv, WindowBounded
  <2>4. mcu_session = session
    BY <1>1, <2>3 DEF SessionInv, ServedIsOwned
  <2>5. AcknowledgedAvailable = Len(accepted) - Len(received)
        /\ Len(received) \in Nat
    BY <2>2, <2>4, ConsumerPosition DEF AcknowledgedAvailable
  <2>6. Acknowledged = Len(received)
    BY <1>2, <2>5 DEF Acknowledged
  <2>7. Len(received) + n <= Len(accepted)
    BY <1>2, <2>1, <2>5
  <2>8. \A i \in 1..n : stream.items[i] = accepted[Len(received) + i]
    BY <1>1, <2>6 DEF SessionInv, LogInv, StreamFaithful
  <2> QED
    BY <2>4, <2>6, <2>7, <2>8
<1> QED
  BY <1>1, <1>3

(* So consuming it extends the consumed prefix by its length. *)
LEMMA ConsumedExtends ==
  ASSUME SessionInv, xfer = "data", StreamComplete, BatchWellFormed,
         NEW n, n = stream.header.count, NEW r, r = received \o stream.items
  PROVE  /\ r \in Seq(1..MaxEvents)
         /\ n = 0 => r = received
         /\ n > 0 => /\ Len(r) = Len(received) + n
                     /\ Len(r) <= Len(accepted)
                     /\ \A i \in 1..Len(r) : r[i] = accepted[i]
<1>1. /\ n \in 0..BatchItems
      /\ stream.items \in Seq(0..MaxEvents) /\ Len(stream.items) = n
      /\ received \in Seq(1..MaxEvents) /\ accepted \in Seq(1..MaxEvents)
      /\ Len(received) \in Nat /\ Len(accepted) \in Nat
  BY BatchIsNext DEF SessionInv, SessionTypeOK, LogInv, TypeOK, LogTypeOK
<1>2. CASE n = 0
  <2>1. stream.items = << >>
    BY <1>1, <1>2
  <2>2. r = received
    BY <1>1, <2>1, ST!ConcatEmptySeq
  <2> QED
    BY <1>1, <1>2, <2>2
<1>3. CASE n > 0
  <2>1. /\ mcu_session = session
        /\ Len(received) + n <= Len(accepted)
        /\ \A i \in 1..n : stream.items[i] = accepted[Len(received) + i]
    BY <1>3, BatchIsNext
  <2>2. n \in Nat
    BY <1>1, RangeExceedsRing
  <2>3. \A i \in 1..Len(accepted) : accepted[i] \in 1..MaxEvents
    BY <1>1, ST!ElementOfSeq
  <2>4. stream.items \in Seq(1..MaxEvents)
    <3>1. ASSUME NEW i \in 1..n PROVE stream.items[i] \in 1..MaxEvents
      <4>1. Len(received) + i \in 1..Len(accepted)
        BY <1>1, <2>1, <2>2
      <4> QED
        BY <2>1, <2>3, <4>1
    <3>2. stream.items \in [1..n -> 0..MaxEvents]
      BY <1>1, ST!LenProperties
    <3>3. stream.items \in [1..n -> 1..MaxEvents]
      BY <3>1, <3>2
    <3> QED
      BY <2>2, <3>3, ST!SeqDef
  <2>5. /\ r \in Seq(1..MaxEvents) /\ Len(r) = Len(received) + n
        /\ \A i \in 1..(Len(received) + n) : r[i] =
             IF i <= Len(received) THEN received[i] ELSE stream.items[i - Len(received)]
    <3> DEFINE s1 == received
               s2 == stream.items
    <3>1. s1 \in Seq(1..MaxEvents) /\ s2 \in Seq(1..MaxEvents) /\ r = s1 \o s2
          /\ Len(s2) = n
      BY <1>1, <2>4
    <3> HIDE DEF s1, s2
    <3>2. /\ s1 \o s2 \in Seq(1..MaxEvents)
          /\ Len(s1 \o s2) = Len(s1) + Len(s2)
          /\ \A i \in 1..(Len(s1) + Len(s2)) : (s1 \o s2)[i] =
               IF i <= Len(s1) THEN s1[i] ELSE s2[i - Len(s1)]
      BY <3>1, ST!ConcatProperties
    <3> QED
      BY <3>1, <3>2 DEF s1, s2
  <2>6. \A i \in 1..Len(received) : received[i] = accepted[i]
    BY <1>1, <2>1, PrefixPointwise DEF SessionInv, ConsumedIsPrefix
  <2>7. ASSUME NEW i \in 1..Len(r) PROVE r[i] = accepted[i]
    <3>1. CASE i <= Len(received)
      BY <1>1, <2>2, <2>5, <2>6, <3>1
    <3>2. CASE i > Len(received)
      <4>1. i - Len(received) \in 1..n /\ Len(received) + (i - Len(received)) = i
        BY <1>1, <2>2, <2>5, <3>2
      <4> QED
        BY <1>1, <2>1, <2>5, <3>2, <4>1
    <3> QED
      BY <1>1, <2>2, <2>5, <3>1, <3>2
  <2> QED
    BY <1>3, <2>1, <2>5, <2>7
<1> QED
  BY <1>1, <1>2, <1>3, RangeExceedsRing

(* Going offline: core 1 serves no session, and owns none it did not. *)
LEMMA GoesOffline ==
  ASSUME Ownership, MarkSessionOffline
  PROVE  /\ ~fpga_session_ready' /\ fpga_session_ready' \in BOOLEAN
         /\ adopted' = adopted
         /\ mcu_session' \in {mcu_session, NoSession}
         /\ app_completion_sequence' \in SequenceNumbers
         /\ received' \in Seq(1..MaxEvents)
<1>1. 0 \in SequenceNumbers /\ << >> \in Seq(1..MaxEvents)
  BY RangeExceedsRing DEF SequenceNumbers
<1> QED
  BY <1>1 DEF Ownership, SessionTypeOK, MarkSessionOffline, ResetLocalSession, localVars

(* The poll: it runs in an open session and ends in it, or closes it. *)
LEMMA PollKeepsOwnership ==
  ASSUME SessionInv, PollNext
  PROVE  Ownership'
<1>1. Ownership /\ LogInv
  BY Halves DEF Consumption
<1>2. session \in Nat /\ MaxSessions \in Nat /\ session \in 0..MaxSessions
  BY <1>1, SessionNumber
<1> USE DEF Ownership, SessionTypeOK, ControlConsistent, StaleEpochHarmless,
            OpenedOnce, ServedIsOwned, NoEpoch, NoSession,
            logVars, fpgaVars, linkVars, mcuVars, faultVars, localVars
<1>4. CASE PollStart
  BY <1>1, <1>4 DEF PollStart
<1>5. CASE PollBusy
  <2>1. /\ ~fpga_session_ready' /\ fpga_session_ready' \in BOOLEAN
        /\ adopted' = adopted
        /\ mcu_session' \in {mcu_session, NoSession}
        /\ app_completion_sequence' \in SequenceNumbers
        /\ received' \in Seq(1..MaxEvents)
    BY <1>1, <1>5, GoesOffline DEF PollBusy
  <2> QED
    BY <1>1, <1>5, <2>1 DEF PollBusy
<1>6. CASE ExchangeStart
  BY <1>1, <1>6 DEF ExchangeStart
<1>7. CASE RequestAccepted
  <2>1. PICK event \in EventInputs : /\ event # NoEvent => asset_loaded
                                     /\ LogCycle(event, app_completion_sequence)
    BY <1>7 DEF RequestAccepted
  <2>2. session' = session
    BY <2>1 DEF LogCycle
  <2>3. ~asset_loaded => accepted' = accepted
    BY <2>1, QuietCycle
  <2> QED
    BY <1>1, <1>7, <2>2, <2>3 DEF RequestAccepted
<1>8. CASE RequestIgnored
  BY <1>1, <1>8 DEF RequestIgnored
<1>9. CASE HeaderShifted \/ ItemShifted
  <2>1. stream'.active /\ UNCHANGED logVars
    BY <1>1, <1>9, StreamStaysActive DEF HeaderShifted, ItemShifted
  <2> QED
    BY <1>1, <1>9, <2>1 DEF HeaderShifted, ItemShifted
<1>10. CASE ExchangeFailed \/ BatchRefused
  <2>1. ExchangeEnd /\ AttemptFailed /\ UNCHANGED <<logVars, fpgaVars>>
        /\ pc = "poll" /\ fpga_session_ready
    BY <1>1, <1>10 DEF ExchangeFailed, BatchRefused
  <2>2. CASE attempt + 1 < AttemptLimit
    BY <1>1, <2>1, <2>2, NoStreamInactive DEF ExchangeEnd, AttemptFailed
  <2>3. CASE ~(attempt + 1 < AttemptLimit)
    <3>1. /\ ~fpga_session_ready' /\ fpga_session_ready' \in BOOLEAN
          /\ adopted' = adopted
          /\ mcu_session' \in {mcu_session, NoSession}
          /\ app_completion_sequence' \in SequenceNumbers
          /\ received' \in Seq(1..MaxEvents)
      BY <1>1, <2>1, <2>3, GoesOffline DEF AttemptFailed
    <3> QED
      BY <1>1, <2>1, <2>3, <3>1, NoStreamInactive DEF ExchangeEnd, AttemptFailed
  <2> QED
    BY <2>2, <2>3
<1>11. CASE BatchForcesReset
  BY <1>1, <1>11, NoStreamInactive
     DEF BatchForcesReset, ExchangeEnd, StartSessionReset
<1>12. CASE BatchConsumed
  <2>1. stream.active /\ stream.header.count \in 0..BatchItems
    BY <1>1, <1>12 DEF BatchConsumed, LogInv, TypeOK, StreamTypeOK, Responses
  <2>2. app_completion_sequence' \in SequenceNumbers
    <3>1. stream.header.count \in 0..SequenceMod
      BY <2>1, RangeExceedsRing
    <3> QED
      BY <1>1, <1>12, <3>1, AdvanceType DEF BatchConsumed
  <2>3. received' \in Seq(1..MaxEvents)
    BY <1>12, ConsumedExtends DEF BatchConsumed
  <2> QED
    BY <1>1, <1>12, <2>2, <2>3, NoStreamInactive DEF BatchConsumed, ExchangeEnd
<1> QED
  BY <1>4, <1>5, <1>6, <1>7, <1>8, <1>9, <1>10, <1>11, <1>12 DEF PollNext

(* A changed epoch was read from the register: it is the current one, no   *)
(* reset is pending, and the session has not been open before.             *)
LEMMA AcknowledgedIsCurrent ==
  ASSUME Ownership, pc = "reset_poll", NEW value,
         EpochRead(value), value # previous_epoch
  PROVE  /\ value = session_epoch /\ mailbox' = session_epoch
         /\ ~session_reset_req /\ SessionOf(value) = session
         /\ adopted # session
  BY DEF Ownership, StaleEpochHarmless, OpenedOnce, EpochRead, SessionOf

(* The acknowledged reset: it reads the epoch, requests, and opens the     *)
(* session whose epoch it has seen change.                                 *)
LEMMA ResetKeepsOwnership ==
  ASSUME SessionInv, ResetNext
  PROVE  Ownership'
<1>1. Ownership /\ LogInv
  BY Halves DEF Consumption
<1>2. session \in Nat /\ MaxSessions \in Nat /\ session \in 0..MaxSessions
  BY <1>1, SessionNumber
<1>3. 0 \in SequenceNumbers /\ << >> \in Seq(1..MaxEvents)
  BY RangeExceedsRing DEF SequenceNumbers
<1> USE DEF Ownership, SessionTypeOK, ControlConsistent, StaleEpochHarmless,
            OpenedOnce, ServedIsOwned, NoEpoch, NoSession,
            logVars, linkVars, localVars
<1>4. CASE ReadPreviousEpoch
  <2>1. CASE ReadFailed /\ ResetFailed /\ UNCHANGED previous_epoch
    BY <1>1, <1>4, <2>1 DEF ReadPreviousEpoch, ReadFailed, ResetFailed, FailedAt
  <2>2. CASE \E value \in 0..MaxSessions :
               /\ EpochRead(value)
               /\ previous_epoch' = value
               /\ pc' = "reset_send"
               /\ UNCHANGED <<fpga_session_ready, mcu_epoch, attempt, localVars,
                              app_control_fault>>
    BY <1>1, <1>4, <2>2 DEF ReadPreviousEpoch, EpochRead
  <2> QED
    BY <1>4, <2>1, <2>2 DEF ReadPreviousEpoch
<1>5. CASE SendSessionReset
  <2>1. /\ pc' \in {"reset_poll", "halted", "loop"} /\ pc = "reset_send"
        /\ session_reset_req' => session < MaxSessions
        /\ session_reset_req => session_reset_req'
        /\ session_reset_req' \in BOOLEAN
        /\ UNCHANGED <<session, accepted, stream, xfer, resetting, session_epoch,
                       asset_loaded, load_monitored, mailbox, previous_epoch,
                       fpga_session_ready, localVars>>
    <3>1. /\ session_reset_req' => session < MaxSessions
          /\ session_reset_req => session_reset_req'
          /\ session_reset_req' \in BOOLEAN
      <4>1. CASE UNCHANGED session_reset_req
        BY <1>1, <4>1
      <4>2. CASE session < MaxSessions /\ session_reset_req' = TRUE
        BY <4>2
      <4> QED
        BY <1>5, <4>1, <4>2 DEF SendSessionReset
    <3>2. pc' \in {"reset_poll", "halted", "loop"} /\ pc = "reset_send"
      BY <1>5 DEF SendSessionReset, ResetFailed, FailedAt
    <3>3. UNCHANGED <<fpga_session_ready, localVars>>
      BY <1>5 DEF SendSessionReset, ResetFailed
    <3> QED
      BY <1>5, <3>1, <3>2, <3>3 DEF SendSessionReset
  <2> QED
    BY <1>1, <2>1
<1>6. CASE SessionAcknowledged
  <2>1. PICK value \in 0..MaxSessions :
          /\ EpochRead(value)
          /\ value # previous_epoch
          /\ mcu_epoch' = value
          /\ ResetLocalSession(SessionOf(value))
    BY <1>6 DEF SessionAcknowledged
  <2>2. /\ mailbox' = session_epoch /\ ~session_reset_req
        /\ SessionOf(value) = session
    BY <1>1, <1>6, <2>1, AcknowledgedIsCurrent DEF SessionAcknowledged
  <2>3. /\ mcu_session' = session /\ adopted' = session
        /\ app_completion_sequence' = 0 /\ received' = << >>
    BY <1>2, <2>1, <2>2 DEF ResetLocalSession
  <2>4. /\ pc' \in {"loop", "halted"} /\ fpga_session_ready' \in BOOLEAN
        /\ fpga_session_ready' => pc' = "loop"
    BY <1>6 DEF SessionAcknowledged, FailedAt
  <2> QED
    BY <1>1, <1>2, <1>3, <1>6, <2>2, <2>3, <2>4 DEF SessionAcknowledged
<1>7. CASE EpochUnchanged
  <2>1. mailbox' \in {mailbox, session_epoch, NoEpoch}
        /\ mailbox' \in {NoEpoch, previous_epoch}
    BY <1>1, <1>7 DEF EpochUnchanged, EpochRead, ReadFailed
  <2> QED
    BY <1>1, <1>7, <2>1 DEF EpochUnchanged, ResetFailed, FailedAt
<1> QED
  BY <1>4, <1>5, <1>6, <1>7 DEF ResetNext

(* The transport monitor, and the faults it and the console can raise. *)
LEMMA MonitorKeepsOwnership ==
  ASSUME SessionInv, MonitorNext
  PROVE  Ownership'
<1>1. Ownership /\ LogInv
  BY Halves DEF Consumption
<1> USE DEF Ownership, SessionTypeOK, ControlConsistent, StaleEpochHarmless,
            OpenedOnce, ServedIsOwned, NoEpoch, NoSession,
            logVars, fpgaVars, linkVars, localVars, faultVars
<1>2. CASE MonitorUnreachable
  <2>1. CASE consecutive_failures = 0
    BY <1>1, <1>2, <2>1 DEF MonitorUnreachable, MonitorRuns, ReadFailed
  <2>2. CASE consecutive_failures # 0
    <3>1. /\ ~fpga_session_ready' /\ fpga_session_ready' \in BOOLEAN
          /\ adopted' = adopted
          /\ mcu_session' \in {mcu_session, NoSession}
          /\ app_completion_sequence' \in SequenceNumbers
          /\ received' \in Seq(1..MaxEvents)
      BY <1>1, <1>2, <2>2, GoesOffline DEF MonitorUnreachable
    <3> QED
      BY <1>1, <1>2, <3>1 DEF MonitorUnreachable, MonitorRuns, ReadFailed
  <2> QED
    BY <2>1, <2>2
<1>3. CASE MonitorLoading
  <2>1. /\ ~fpga_session_ready' /\ fpga_session_ready' \in BOOLEAN
        /\ adopted' = adopted
        /\ mcu_session' \in {mcu_session, NoSession}
        /\ app_completion_sequence' \in SequenceNumbers
        /\ received' \in Seq(1..MaxEvents)
    BY <1>1, <1>3, GoesOffline DEF MonitorLoading
  <2> QED
    BY <1>1, <1>3, <2>1 DEF MonitorLoading, MonitorRuns
<1>4. CASE MonitorReady
  <2>1. /\ pc = "loop" /\ app_control_fault = "none" /\ mailbox' = NoEpoch
        /\ UNCHANGED <<logVars, linkVars, session_reset_req, resetting,
                       session_epoch, asset_loaded, load_monitored,
                       previous_epoch, app_control_fault, localVars>>
    BY <1>4 DEF MonitorReady, MonitorRuns
  <2>2. CASE UNCHANGED <<pc, origin, fpga_session_ready>>
    BY <1>1, <2>1, <2>2
  <2>3. CASE StartSessionReset("monitor")
    <3>1. pc' = "reset_read" /\ fpga_session_ready' = FALSE
      BY <2>3 DEF StartSessionReset
    <3>2. mailbox' \in Int
      BY <2>1
    <3>3. SessionTypeOK'
      BY <1>1, <2>1, <3>1, <3>2
    <3>4. ControlConsistent'
      BY <1>1, <2>1, <3>1
    <3>5. StaleEpochHarmless' /\ OpenedOnce' /\ ServedIsOwned'
      BY <1>1, <2>1, <3>1
    <3> QED
      BY <3>3, <3>4, <3>5
  <2> QED
    BY <1>4, <2>2, <2>3 DEF MonitorReady
<1>5. CASE MonitorFault
  BY <1>1, <1>5 DEF MonitorFault, MonitorRuns
<1>6. CASE CommandFault
  BY <1>1, <1>6 DEF CommandFault, MonitorRuns
<1>7. CASE OperatorPanic
  <2>1. /\ pc = "loop" /\ pc' = "reset_read" /\ fpga_session_ready' = FALSE
        /\ UNCHANGED <<logVars, fpgaVars, linkVars, previous_epoch, faultVars, localVars>>
    BY <1>7 DEF OperatorPanic, StartSessionReset
  <2> QED
    BY <1>1, <2>1
<1> QED
  BY <1>2, <1>3, <1>4, <1>5, <1>6, <1>7 DEF MonitorNext

(* The watchdog and the firmware's start. *)
LEMMA InitKeepsOwnership ==
  ASSUME SessionInv, InitNext
  PROVE  Ownership'
<1>1. Ownership /\ LogInv
  BY Halves DEF Consumption
<1>2. 0 \in SequenceNumbers /\ << >> \in Seq(1..MaxEvents)
  BY RangeExceedsRing DEF SequenceNumbers
<1>3. session \in Nat
  BY <1>1, SessionNumber
<1> USE DEF Ownership, SessionTypeOK, ControlConsistent, StaleEpochHarmless,
            OpenedOnce, ServedIsOwned, NoEpoch, NoSession,
            logVars, linkVars, localVars, faultVars
<1>4. CASE McuRestart
  <2>1. /\ stream' = NoStream /\ xfer' = "none" /\ pc' = "init"
        /\ fpga_session_ready' = FALSE /\ app_control_fault' = "none"
        /\ app_completion_sequence' = 0 /\ received' = << >>
        /\ mcu_session' = NoSession /\ adopted' = adopted /\ previous_epoch' = 0
        /\ UNCHANGED <<logVars, session_reset_req, resetting, session_epoch,
                       asset_loaded, mailbox, load_monitored>>
    BY <1>4 DEF McuRestart, ExchangeEnd, ResetLocalSession
  <2>2. SessionTypeOK'
    <3>1. previous_epoch' \in Int /\ mcu_session' \in Int /\ adopted' \in Int
          /\ session_epoch' \in 0..MaxSessions /\ session_epoch' <= session'
          /\ mailbox' \in Int
      BY <1>1, <2>1
    <3> QED
      BY <1>1, <1>2, <2>1, <3>1
  <2>3. ControlConsistent'
    BY <1>1, <2>1, NoStreamInactive
  <2>4. StaleEpochHarmless' /\ OpenedOnce' /\ ServedIsOwned'
    BY <1>1, <1>3, <2>1
  <2> QED
    BY <2>2, <2>3, <2>4
<1>5. CASE InitReady
  BY <1>1, <1>5 DEF InitReady
<1>6. CASE InitFatal
  BY <1>1, <1>6 DEF InitFatal, ReadFailed
<1> QED
  BY <1>4, <1>5, <1>6 DEF InitNext

-----------------------------------------------------------------------------
(* Consumption, by what a step does to the log and to the MCU's copy. *)

(* The log alone, with the transaction going on or ended. *)
LEMMA LogUntouched ==
  ASSUME SessionInv, UNCHANGED logVars, stream' \in {stream, NoStream}
  PROVE  /\ LogInv' /\ HeadersCurrent' /\ DropsFlagged'
         /\ Acknowledged' = Acknowledged /\ UNCHANGED <<session, accepted>>
<1>1. LogInv /\ HeadersCurrent /\ DropsFlagged
  BY DEF SessionInv
<1>2. LogInv'
  BY <1>1, EndKeepsLog, IdleKeepsLog DEF vars
<1>3. Acknowledged' = Acknowledged /\ UNCHANGED <<session, accepted>>
  BY DEF logVars, Acknowledged, AcknowledgedAvailable
<1>4. HeadersCurrent'
  BY <1>1, NoStreamInactive DEF HeadersCurrent, logVars
<1>5. DropsFlagged'
  BY <1>1, <1>3, NoStreamInactive DEF DropsFlagged, NoGapIn, logVars
<1> QED
  BY <1>2, <1>3, <1>4, <1>5

(* Neither the log nor the MCU's copy moves. *)
LEMMA CopyUntouched ==
  ASSUME SessionInv, UNCHANGED <<logVars, localVars>>, stream' \in {stream, NoStream}
  PROVE  Consumption'
<1>1. /\ LogInv' /\ HeadersCurrent' /\ DropsFlagged'
      /\ Acknowledged' = Acknowledged /\ UNCHANGED <<session, accepted>>
  BY LogUntouched
<1>2. AcknowledgedConsumed' /\ ConsumedIsPrefix' /\ NoGapConsumed'
  BY <1>1 DEF SessionInv, AcknowledgedConsumed, ConsumedIsPrefix, NoGapConsumed,
              logVars, localVars
<1> QED
  BY <1>1, <1>2 DEF Consumption

(* The MCU forgets its copy and owns no session. *)
LEMMA CopyForgotten ==
  ASSUME SessionInv, UNCHANGED logVars, stream' \in {stream, NoStream},
         ResetLocalSession(NoSession)
  PROVE  Consumption'
<1>1. /\ LogInv' /\ HeadersCurrent' /\ DropsFlagged'
      /\ Acknowledged' = Acknowledged /\ UNCHANGED <<session, accepted>>
  BY LogUntouched
<1>2. mcu_session' # session /\ adopted' = adopted /\ received' = << >>
  BY SessionNumber DEF ResetLocalSession, NoSession, SessionInv
<1>3. AcknowledgedConsumed' /\ ConsumedIsPrefix' /\ NoGapConsumed'
  BY <1>1, <1>2 DEF SessionInv, AcknowledgedConsumed, ConsumedIsPrefix,
                    NoGapConsumed, logVars
<1> QED
  BY <1>1, <1>3 DEF Consumption

(* The MCU opens a session of which nothing has been acknowledged. *)
LEMMA CopyOpened ==
  ASSUME SessionInv, UNCHANGED <<logVars, stream>>, adopted # session,
         ResetLocalSession(session)
  PROVE  Consumption'
<1>1. /\ LogInv' /\ HeadersCurrent' /\ DropsFlagged'
      /\ Acknowledged' = Acknowledged /\ UNCHANGED <<session, accepted>>
  BY LogUntouched
<1>2. /\ adopted' = session /\ received' = << >> /\ Len(received') = 0
      /\ app_completion_sequence' = 0
  BY SessionNumber DEF ResetLocalSession, NoSession, SessionInv
<1>3. Len(accepted) \in Nat /\ accepted \in Seq(1..MaxEvents)
  BY SessionNumber DEF SessionInv
<1>4. AcknowledgedConsumed'
  BY <1>1, <1>2 DEF SessionInv, AcknowledgedConsumed, logVars
<1>5. 0 % SequenceMod = 0
  BY SmallRemainder, RangeExceedsRing
<1>6. ConsumedIsPrefix' /\ NoGapConsumed'
  <2>1. << >> = SubSeq(accepted, 1, 0)
    BY ST!SubSeqEmpty
  <2>2. received' = SubSeq(accepted', 1, Len(received'))
    BY <1>1, <1>2, <2>1
  <2> QED
    BY <1>1, <1>2, <1>3, <1>5, <2>2 DEF ConsumedIsPrefix, NoGapConsumed
<1> QED
  BY <1>1, <1>4, <1>6 DEF Consumption

(* A new session: nothing logged, nothing acknowledged, and not the MCU's. *)
LEMMA SessionCleared ==
  ASSUME SessionInv, session < MaxSessions, LogClear,
         stream' \in {stream, NoStream}, ~stream'.active, UNCHANGED localVars
  PROVE  Consumption'
<1>1. /\ LogInv' /\ AcknowledgedAvailable' = 0 /\ Acknowledged' = 0
      /\ accepted' = << >> /\ Len(accepted') = 0
  BY ClearEndKeepsLog DEF SessionInv
<1>2. session' = session + 1 /\ session \in Nat
  BY SessionNumber DEF LogClear, SessionInv
<1>3. mcu_session' # session'
  BY <1>2 DEF SessionInv, SessionTypeOK, OpenedOnce, localVars, NoSession
<1>4. HeadersCurrent'
  BY <1>2 DEF LogClear, EmptyResponse, HeadersCurrent
<1>5. AcknowledgedConsumed'
  <2>1. 0 % SequenceMod = 0
    BY SmallRemainder, RangeExceedsRing
  <2> QED
    BY <1>1, <1>3, <2>1 DEF AcknowledgedConsumed, LogClear
<1>6. DropsFlagged'
  <2>1. response'.count = 0
    BY DEF LogClear, EmptyResponse
  <2> QED
    BY <1>1, <2>1 DEF DropsFlagged, NoGapIn
<1>7. ConsumedIsPrefix' /\ NoGapConsumed'
  BY <1>3 DEF SessionInv, ConsumedIsPrefix, NoGapConsumed, localVars
<1> QED
  BY <1>1, <1>4, <1>5, <1>6, <1>7 DEF Consumption

(* The header latched, or an item shifted out. *)
LEMMA BatchShifted ==
  ASSUME SessionInv, LatchHeader \/ StreamItem, UNCHANGED localVars
  PROVE  Consumption'
<1>1. LogInv' /\ UNCHANGED logVars
  BY LatchKeepsInvariant, ItemKeepsInvariant DEF SessionInv, LatchHeader, StreamItem
<1>2. stream'.header = response \/ (stream.active /\ stream'.header = stream.header)
  <2>1. stream \in [active : BOOLEAN, header : Responses,
                    read_sequence : SequenceNumbers, items : Seq(0..MaxEvents)]
    BY DEF SessionInv, LogInv, TypeOK, StreamTypeOK
  <2>2. CASE LatchHeader
    BY <2>2 DEF LatchHeader
  <2>3. CASE StreamItem
    BY <2>1, <2>3 DEF StreamItem
  <2> QED
    BY <2>2, <2>3
<1>3. Acknowledged' = Acknowledged /\ UNCHANGED <<session, accepted>>
  BY <1>1 DEF logVars, Acknowledged, AcknowledgedAvailable
<1>4. HeadersCurrent'
  BY <1>1, <1>2 DEF SessionInv, HeadersCurrent, logVars
<1>5. DropsFlagged'
  BY <1>1, <1>2, <1>3 DEF SessionInv, DropsFlagged, NoGapIn, logVars
<1>6. AcknowledgedConsumed' /\ ConsumedIsPrefix' /\ NoGapConsumed'
  BY <1>1, <1>3 DEF SessionInv, AcknowledgedConsumed, ConsumedIsPrefix,
                    NoGapConsumed, logVars, localVars
<1> QED
  BY <1>1, <1>4, <1>5, <1>6 DEF Consumption

(* A batch consumed: the MCU's copy grows by the events that follow it. *)
LEMMA CopyExtended ==
  ASSUME SessionInv, BatchConsumed
  PROVE  Consumption'
<1> DEFINE n == stream.header.count
           r == received \o stream.items
<1>1. /\ xfer = "data" /\ StreamComplete /\ BatchWellFormed
      /\ ~stream.header.overflow /\ stream' = NoStream
      /\ received' = r
      /\ app_completion_sequence' = Advance(app_completion_sequence, n)
      /\ UNCHANGED <<logVars, mcu_session, adopted>>
  BY DEF BatchConsumed, ExchangeEnd
<1>2. /\ LogInv' /\ HeadersCurrent' /\ DropsFlagged'
      /\ Acknowledged' = Acknowledged /\ UNCHANGED <<session, accepted>>
  BY <1>1, LogUntouched
<1>3. /\ r \in Seq(1..MaxEvents)
      /\ n = 0 => r = received
      /\ n > 0 => /\ Len(r) = Len(received) + n
                  /\ Len(r) <= Len(accepted)
                  /\ \A i \in 1..Len(r) : r[i] = accepted[i]
  BY <1>1, ConsumedExtends
<1>4. /\ n \in 0..BatchItems
      /\ n > 0 => mcu_session = session /\ Acknowledged = Len(received)
  BY <1>1, BatchIsNext
<1>5. /\ app_completion_sequence \in SequenceNumbers /\ accepted \in Seq(1..MaxEvents)
      /\ Len(received) \in Nat /\ Len(accepted) \in Nat
      /\ stream.active
  BY <1>1 DEF SessionInv, SessionTypeOK, LogInv, TypeOK, LogTypeOK, ControlConsistent
<1>6. n \in Nat /\ n \in 0..Depth
  BY <1>4, RangeExceedsRing
<1>7. stream.header.count = n
  OBVIOUS
<1> HIDE DEF n, r
<1>8. CASE n = 0
  <2>1. UNCHANGED <<app_completion_sequence, received>>
    BY <1>1, <1>3, <1>5, <1>8, AdvanceZero
  <2>2. AcknowledgedConsumed' /\ ConsumedIsPrefix' /\ NoGapConsumed'
    BY <1>1, <1>2, <2>1 DEF SessionInv, AcknowledgedConsumed, ConsumedIsPrefix,
                            NoGapConsumed, logVars
  <2> QED
    BY <1>2, <2>2 DEF Consumption
<1>9. CASE n > 0
  <2>1. /\ app_completion_sequence = Len(received) % SequenceMod
        /\ write_sequence_q = Len(accepted) % SequenceMod
        /\ adopted = session
    BY <1>4, <1>9, SessionNumber
       DEF SessionInv, ConsumedIsPrefix, AcknowledgedConsumed, OpenedOnce, NoSession
  <2>2. app_completion_sequence' = Len(r) % SequenceMod
    BY <1>1, <1>3, <1>5, <1>6, <1>9, <2>1, AdvancePosition
  <2>3. ConsumedIsPrefix'
    <3>1. r = SubSeq(accepted, 1, Len(r))
      BY <1>3, <1>5, <1>9, PrefixPointwise
    <3> QED
      BY <1>1, <1>2, <1>3, <1>9, <2>2, <3>1 DEF ConsumedIsPrefix
  <2>4. AcknowledgedConsumed'
    BY <1>1, <1>2, <1>3, <1>4, <1>5, <1>6, <1>9, <2>1
       DEF AcknowledgedConsumed, logVars
  <2>5. NoGapConsumed'
    <3>1. NoGapIn(Len(r))
      BY <1>1, <1>3, <1>4, <1>5, <1>7, <1>9 DEF SessionInv, DropsFlagged
    <3>2. ASSUME NEW i \in 1..(Len(r) - 1) PROVE r[i + 1] = r[i] + 1
      <4>1. i \in 1..Len(r) /\ i + 1 \in 1..Len(r)
        BY <1>3
      <4> QED
        BY <1>3, <1>9, <3>1, <4>1 DEF NoGapIn
    <3> QED
      BY <1>1, <3>2 DEF NoGapConsumed
  <2> QED
    BY <1>2, <2>3, <2>4, <2>5 DEF Consumption
<1> QED
  BY <1>6, <1>8, <1>9

(* A clock edge extends what was accepted by at most the next completion,  *)
(* and raises the sticky flag when it drops one.                           *)
LEMMA CycleAccepts ==
  ASSUME LogInv, NEW event \in EventInputs, NEW q \in Queries, LogCycle(event, q)
  PROVE  /\ session' = session
         /\ \/ /\ UNCHANGED <<accepted, write_sequence_q>>
               /\ ~overflow_q' => ~overflow_q /\ emitted' = emitted
            \/ /\ accepted' = Append(accepted, emitted + 1)
               /\ write_sequence_q' = Advance(write_sequence_q, 1)
               /\ emitted' = emitted + 1 /\ event \in 1..MaxEvents
               /\ event = emitted + 1
               /\ overflow_q' = overflow_q
<1>1. event = NoEvent \/ (event = emitted + 1 /\ event \in 1..MaxEvents)
  BY LogAssumption DEF EventInputs, LogInv, TypeOK, LogTypeOK
<1>2. CASE event = NoEvent
  BY <1>2 DEF LogCycle, TakeEvent
<1>3. CASE event # NoEvent /\ EventWriteEnable(q)
  BY <1>1, <1>3 DEF LogCycle, TakeEvent
<1>4. CASE event # NoEvent /\ ~EventWriteEnable(q)
  BY <1>4 DEF LogCycle, TakeEvent
<1> QED
  BY <1>2, <1>3, <1>4 DEF LogCycle

(* What a clock edge does to the acknowledged position. *)
LEMMA CycleAcknowledges ==
  ASSUME SessionInv, NEW event \in EventInputs, NEW q,
         LogCycle(event, q), UNCHANGED localVars, LogInv',
         \/ q = NoQuery
         \/ /\ q = app_completion_sequence
            /\ mcu_session = session \/ (accepted = << >> /\ event = NoEvent)
  PROVE  /\ q = NoQuery => Acknowledged' = Acknowledged
         /\ adopted # session => Acknowledged' = 0
         /\ mcu_session = session => Acknowledged' <= Len(received)
         /\ q \in Queries
<1>1. q \in Queries
  BY DEF Queries, SessionInv, SessionTypeOK
<1>2. LogTypeOK /\ WindowBounded /\ WindowIntact /\ LogInv
  BY DEF SessionInv, LogInv, TypeOK
<1>3. Acknowledged' =
        Len(accepted) - Distance(write_sequence_q, EffectiveAcknowledge(q))
  BY <1>1, <1>2, CycleKeepsWindow
<1>4. /\ adopted # session => Acknowledged = 0
      /\ mcu_session = session => Acknowledged <= Len(received)
  BY DEF SessionInv, AcknowledgedConsumed
<1>5. CASE EffectiveAcknowledge(q) = acknowledge_sequence_q
  BY <1>1, <1>3, <1>4, <1>5 DEF Acknowledged, AcknowledgedAvailable
<1>6. CASE EffectiveAcknowledge(q) # acknowledge_sequence_q
  <2>1. q # NoQuery /\ q = EffectiveAcknowledge(q) /\ q = app_completion_sequence
    BY <1>6 DEF EffectiveAcknowledge
  <2>2. CASE mcu_session = session
    <3>1. Distance(write_sequence_q, q) = Len(accepted) - Len(received)
          /\ Len(received) \in Nat /\ Len(accepted) \in Nat
      BY <2>1, <2>2, ConsumerPosition
    <3>2. Acknowledged' = Len(received)
      BY <1>3, <2>1, <3>1
    <3>3. adopted = session
      BY <1>2, <2>2, SessionNumber DEF SessionInv, OpenedOnce, NoSession
    <3> QED
      BY <1>1, <2>1, <3>1, <3>2, <3>3
  <2>3. CASE mcu_session # session
    <3>1. accepted = << >> /\ event = NoEvent
      BY <2>1, <2>3
    <3>2. accepted' = << >> /\ Len(accepted') = 0
      BY <3>1, QuietCycle
    <3>3. AcknowledgedAvailable' \in Nat /\ AcknowledgedAvailable' <= Len(accepted')
      BY NextAvailableType DEF LogInv, TypeOK, WindowBounded
    <3>4. Acknowledged' = 0
      <4>1. AcknowledgedAvailable' = 0
        BY <3>2, <3>3
      <4> QED
        BY <3>2, <4>1 DEF Acknowledged
    <3> QED
      BY <1>1, <2>1, <2>3, <3>4
  <2> QED
    BY <2>2, <2>3
<1> QED
  BY <1>5, <1>6

(* A clock edge keeps the prefix of the log that has no gap. *)
LEMMA NoGapKept ==
  ASSUME NEW k \in Int, k <= Len(accepted), NoGapIn(k), Len(accepted) \in Nat,
         \A i \in 1..Len(accepted) : accepted'[i] = accepted[i]
  PROVE  \A i \in 1..(k - 1) : accepted'[i + 1] = accepted'[i] + 1
<1> SUFFICES ASSUME NEW i \in 1..(k - 1) PROVE accepted'[i + 1] = accepted'[i] + 1
  OBVIOUS
<1>1. i \in 1..Len(accepted) /\ i + 1 \in 1..Len(accepted)
  OBVIOUS
<1> QED
  BY <1>1 DEF NoGapIn

(* One clock edge, with an event, the MCU's query, or both. *)
LEMMA EdgeKeepsConsumption ==
  ASSUME SessionInv, NEW event \in EventInputs, NEW q,
         LogCycle(event, q), UNCHANGED <<stream, localVars>>,
         \/ q = NoQuery
         \/ /\ q = app_completion_sequence /\ ~stream.active
            /\ mcu_session = session \/ (accepted = << >> /\ event = NoEvent)
  PROVE  Consumption'
<1>1. LogInv /\ HeadersCurrent /\ DropsFlagged /\ ConsumedIsPrefix /\ NoGapConsumed
      /\ LogTypeOK /\ WindowBounded /\ WindowIntact /\ ResponseInWindow
      /\ StreamInWindow /\ AcknowledgedConsumed
  BY DEF SessionInv, LogInv, TypeOK
<1>2. q = NoQuery \/ q \in SequenceNumbers
  BY DEF SessionInv, SessionTypeOK
<1>3. LogInv'
  BY <1>1, <1>2, EventKeepsStream, QueryKeepsWindow
<1>4. /\ q = NoQuery => Acknowledged' = Acknowledged
      /\ adopted # session => Acknowledged' = 0
      /\ mcu_session = session => Acknowledged' <= Len(received)
      /\ q \in Queries
  BY <1>3, CycleAcknowledges
<1>5. /\ session' = session
      /\ \/ /\ UNCHANGED <<accepted, write_sequence_q>>
            /\ ~overflow_q' => ~overflow_q /\ emitted' = emitted
         \/ /\ accepted' = Append(accepted, emitted + 1)
            /\ write_sequence_q' = Advance(write_sequence_q, 1)
            /\ emitted' = emitted + 1 /\ event \in 1..MaxEvents
            /\ event = emitted + 1
            /\ overflow_q' = overflow_q
  BY <1>1, <1>4, CycleAccepts
<1>6. /\ Len(accepted) <= Len(accepted')
      /\ \A i \in 1..Len(accepted) : accepted'[i] = accepted[i]
      /\ Acknowledged' =
           Len(accepted) - Distance(write_sequence_q, EffectiveAcknowledge(q))
  BY <1>1, <1>4, CycleKeepsWindow
<1>7. /\ accepted \in Seq(1..MaxEvents) /\ Len(accepted) \in Nat
      /\ accepted' \in Seq(1..MaxEvents) /\ Len(accepted') \in Nat
      /\ AcknowledgedAvailable \in Nat /\ Acknowledged \in Int
      /\ response.count \in Nat /\ stream.header.count \in Nat
      /\ received \in Seq(1..MaxEvents) /\ Len(received) \in Nat
      /\ emitted \in Nat
  <2>1. AcknowledgedAvailable \in Nat /\ Len(accepted) \in Nat
    BY <1>1, AvailableType
  <2>2. accepted' \in Seq(1..MaxEvents)
    BY <1>3 DEF LogInv, TypeOK, LogTypeOK
  <2>3. response.count \in Nat /\ stream.header.count \in Nat
    BY <1>1, RangeExceedsRing DEF LogInv, TypeOK, LogTypeOK, StreamTypeOK, Responses
  <2>4. received \in Seq(1..MaxEvents)
    BY DEF SessionInv, SessionTypeOK
  <2>5. accepted \in Seq(1..MaxEvents) /\ emitted \in Nat
    BY <1>1, LogAssumption DEF LogTypeOK
  <2> QED
    BY <2>1, <2>2, <2>3, <2>4, <2>5 DEF Acknowledged
<1>8. HeadersCurrent'
  <2>1. response'.session = session
    BY <1>1 DEF LogCycle, AnswerQuery, HeadersCurrent
  <2> QED
    BY <1>1, <1>5, <2>1 DEF HeadersCurrent
<1>9. AcknowledgedConsumed'
  <2>1. write_sequence_q' = Len(accepted') % SequenceMod
    <3>1. 1 \in 0..Depth
      BY RangeExceedsRing
    <3>2. Advance(Len(accepted) % SequenceMod, 1) = (Len(accepted) + 1) % SequenceMod
      BY <1>7, <3>1, AdvancePosition
    <3>3. accepted' = Append(accepted, emitted + 1) => Len(accepted') = Len(accepted) + 1
      BY <1>7
    <3> QED
      BY <1>1, <1>5, <3>2, <3>3 DEF AcknowledgedConsumed
  <2> QED
    BY <1>4, <1>5, <2>1 DEF AcknowledgedConsumed, localVars
<1>10. ConsumedIsPrefix' /\ NoGapConsumed'
  <2>1. ASSUME mcu_session = session
        PROVE  /\ Len(received) <= Len(accepted')
               /\ received = SubSeq(accepted', 1, Len(received))
    <3>1. Len(received) <= Len(accepted)
          /\ \A i \in 1..Len(received) : received[i] = accepted[i]
      BY <1>1, <1>7, <2>1, PrefixPointwise DEF ConsumedIsPrefix
    <3>2. \A i \in 1..Len(received) : received[i] = accepted'[i]
      BY <1>6, <1>7, <3>1
    <3>3. Len(received) <= Len(accepted')
      BY <1>6, <1>7, <3>1
    <3> QED
      BY <1>7, <3>2, <3>3, PrefixPointwise
  <2> QED
    BY <1>1, <1>5, <2>1 DEF ConsumedIsPrefix, NoGapConsumed, localVars
<1>11. DropsFlagged'
  <2>1. ASSUME ~overflow_q'
        PROVE  /\ ~overflow_q
               /\ \A i \in 1..(Len(accepted') - 1) : accepted'[i + 1] = accepted'[i] + 1
               /\ accepted' # << >> => accepted'[Len(accepted')] = emitted'
    <3>1. /\ ~overflow_q /\ NoGapIn(Len(accepted))
          /\ accepted # << >> => accepted[Len(accepted)] = emitted
      BY <1>1, <1>5, <2>1 DEF DropsFlagged
    <3>2. CASE UNCHANGED accepted /\ emitted' = emitted
      BY <3>1, <3>2 DEF NoGapIn
    <3>3. CASE accepted' = Append(accepted, emitted + 1) /\ emitted' = emitted + 1
      <4>1. /\ Len(accepted') = Len(accepted) + 1
            /\ accepted'[Len(accepted) + 1] = emitted + 1
        BY <1>7, <3>3
      <4>2. ASSUME NEW i \in 1..(Len(accepted') - 1)
            PROVE  accepted'[i + 1] = accepted'[i] + 1
        <5>1. CASE i < Len(accepted)
          <6>1. i \in 1..(Len(accepted) - 1) /\ i \in 1..Len(accepted)
                /\ i + 1 \in 1..Len(accepted)
            BY <1>7, <5>1
          <6> QED
            BY <1>6, <3>1, <6>1 DEF NoGapIn
        <5>2. CASE i = Len(accepted)
          <6>1. i \in 1..Len(accepted) /\ accepted # << >>
            BY <1>7, <4>1, <5>2
          <6> QED
            BY <1>6, <3>1, <4>1, <5>2, <6>1
        <5> QED
          BY <1>7, <4>1, <5>1, <5>2
      <4> QED
        BY <3>1, <3>3, <4>1, <4>2
    <3> QED
      BY <1>5, <2>1, <3>2, <3>3
  <2>2. ASSUME ~response'.overflow, response'.count > 0
        PROVE  \A i \in 1..((Acknowledged' + response'.count) - 1) :
                 accepted'[i + 1] = accepted'[i] + 1
    <3>1. CASE q = NoQuery
      <4>1. response' = response /\ Acknowledged' = Acknowledged
        BY <1>4, <3>1 DEF LogCycle, AnswerQuery
      <4>2. NoGapIn(Acknowledged + response.count)
        BY <1>1, <2>2, <4>1 DEF DropsFlagged
      <4>3. Acknowledged + response.count <= Len(accepted)
            /\ Acknowledged + response.count \in Int
        BY <1>1, <1>7, <2>2, <4>1 DEF ResponseInWindow, HeadersCurrent, Acknowledged
      <4> QED
        BY <1>6, <1>7, <4>1, <4>2, <4>3, NoGapKept
    <3>2. CASE q # NoQuery
      <4>1. /\ QuerySequenceValid(q) /\ response'.count = BoundedCount(q)
            /\ ~overflow_q
        <5>1. /\ response'.count = IF QuerySequenceValid(q) THEN BoundedCount(q) ELSE 0
              /\ response'.overflow =
                   (overflow_q \/ (event # NoEvent /\ ~EventWriteEnable(q)))
          BY <3>2 DEF LogCycle, AnswerQuery
        <5>2. ~overflow_q
          BY <2>2, <5>1
        <5>3. QuerySequenceValid(q)
          BY <2>2, <5>1
        <5> QED
          BY <5>1, <5>2, <5>3
      <4>2. EffectiveAcknowledge(q) = q
        BY <3>2, <4>1 DEF EffectiveAcknowledge
      <4>3. QueryAvailable(q) \in Nat
        BY <1>1, <1>2, <3>2, DistanceType, RangeExceedsRing DEF LogTypeOK, QueryAvailable
      <4>4. BoundedCount(q) \in Nat /\ BoundedCount(q) <= QueryAvailable(q)
        BY <4>3, RangeExceedsRing DEF BoundedCount
      <4>5. Acknowledged' = Len(accepted) - QueryAvailable(q)
        BY <1>6, <4>2 DEF QueryAvailable
      <4>6. Acknowledged' + response'.count <= Len(accepted)
            /\ Acknowledged' + response'.count \in Int
        BY <1>7, <4>1, <4>3, <4>4, <4>5
      <4>7. NoGapIn(Len(accepted))
        BY <1>1, <4>1 DEF DropsFlagged
      <4> DEFINE k == Acknowledged' + response'.count
      <4>8. k \in Int /\ k <= Len(accepted)
        BY <4>6
      <4> HIDE DEF k
      <4>9. NoGapIn(k)
        BY <1>7, <4>7, <4>8 DEF NoGapIn
      <4>10. \A i \in 1..(k - 1) : accepted'[i + 1] = accepted'[i] + 1
        BY <1>6, <1>7, <4>8, <4>9, NoGapKept
      <4> QED
        BY <4>10 DEF k
    <3> QED
      BY <3>1, <3>2
  <2>3. ASSUME stream.active, ~stream.header.overflow, stream.header.count > 0
        PROVE  \A i \in 1..((Acknowledged' + stream.header.count) - 1) :
                 accepted'[i + 1] = accepted'[i] + 1
    <3>1. q = NoQuery /\ Acknowledged' = Acknowledged
      BY <1>4, <2>3
    <3>2. NoGapIn(Acknowledged + stream.header.count)
      BY <1>1, <2>3 DEF DropsFlagged
    <3>3. stream.header.count <= AcknowledgedAvailable
      BY <1>1, <2>3 DEF StreamInWindow, HeadersCurrent
    <3>4. Acknowledged + stream.header.count <= Len(accepted)
          /\ Acknowledged + stream.header.count \in Int
      BY <1>7, <3>3 DEF Acknowledged
    <3> QED
      BY <1>6, <1>7, <3>1, <3>2, <3>4, NoGapKept
  <2>4. (~overflow_q =>
           /\ NoGapIn(Len(accepted))
           /\ accepted # << >> => accepted[Len(accepted)] = emitted)'
    BY <2>1 DEF NoGapIn
  <2>5. ((~response.overflow /\ response.count > 0) =>
           NoGapIn(Acknowledged + response.count))'
    BY <2>2 DEF NoGapIn
  <2>6. ((stream.active /\ ~stream.header.overflow /\ stream.header.count > 0) =>
           NoGapIn(Acknowledged + stream.header.count))'
    BY <2>3 DEF NoGapIn
  <2> QED
    BY <2>4, <2>5, <2>6 DEF DropsFlagged
<1> QED
  BY <1>3, <1>8, <1>9, <1>10, <1>11 DEF Consumption

(* Going offline forgets the copy, if there was one. *)
LEMMA OfflineKeepsConsumption ==
  ASSUME SessionInv, MarkSessionOffline, UNCHANGED logVars,
         stream' \in {stream, NoStream}
  PROVE  Consumption'
<1>1. CASE fpga_session_ready
  BY <1>1, CopyForgotten DEF MarkSessionOffline
<1>2. CASE ~fpga_session_ready
  BY <1>2, CopyUntouched DEF MarkSessionOffline
<1> QED
  BY <1>1, <1>2

(* Every step keeps the consumed prefix. *)
LEMMA NextConsumption ==
  ASSUME SessionInv, [SessionNext]_allVars
  PROVE  Consumption'
<1>0. Ownership
  BY Halves
<1>1. CASE FpgaNext
  <2>1. CASE CompletionEvent
    <3>1. PICK event \in EventInputs : LogCycle(event, NoQuery)
      BY <2>1 DEF CompletionEvent
    <3> QED
      BY <2>1, <3>1, EdgeKeepsConsumption DEF CompletionEvent, linkVars, mcuVars
  <2>2. CASE ResetAssert \/ AssetLoaded
    BY <2>2, CopyUntouched DEF ResetAssert, AssetLoaded, linkVars, mcuVars
  <2>3. CASE ResetDrained
    <3>1. session < MaxSessions /\ ~stream.active
      BY <2>3 DEF ResetDrained, SessionInv, ControlConsistent
    <3> QED
      BY <2>3, <3>1, SessionCleared DEF ResetDrained, linkVars, mcuVars
  <2>4. CASE FpgaRestart
    BY <2>4, SessionCleared, NoStreamInactive DEF FpgaRestart, mcuVars
  <2> QED
    BY <1>1, <2>1, <2>2, <2>3, <2>4 DEF FpgaNext
<1>2. CASE PollNext
  <2>1. CASE PollStart \/ ExchangeStart \/ RequestIgnored
    BY <2>1, CopyUntouched
       DEF PollStart, ExchangeStart, RequestIgnored, linkVars, mcuVars
  <2>2. CASE PollBusy
    BY <2>2, OfflineKeepsConsumption DEF PollBusy, linkVars
  <2>3. CASE RequestAccepted
    <3>1. PICK event \in EventInputs : /\ event # NoEvent => asset_loaded
                                       /\ LogCycle(event, app_completion_sequence)
      BY <2>3 DEF RequestAccepted
    <3>2. /\ ~stream.active
          /\ mcu_session = session \/ (accepted = << >> /\ event = NoEvent)
      BY <2>3, <3>1 DEF RequestAccepted, SessionInv, ControlConsistent, ServedIsOwned
    <3> QED
      BY <2>3, <3>1, <3>2, EdgeKeepsConsumption DEF RequestAccepted, mcuVars
  <2>4. CASE HeaderShifted \/ ItemShifted
    BY <2>4, BatchShifted DEF HeaderShifted, ItemShifted, mcuVars
  <2>5. CASE ExchangeFailed \/ BatchRefused
    <3>1. stream' = NoStream /\ AttemptFailed /\ UNCHANGED logVars
      BY <2>5 DEF ExchangeFailed, BatchRefused, ExchangeEnd
    <3>2. CASE MarkSessionOffline
      BY <3>1, <3>2, OfflineKeepsConsumption
    <3>3. CASE UNCHANGED localVars
      BY <3>1, <3>3, CopyUntouched
    <3> QED
      BY <3>1, <3>2, <3>3 DEF AttemptFailed
  <2>6. CASE BatchForcesReset
    BY <2>6, CopyUntouched DEF BatchForcesReset, ExchangeEnd
  <2>7. CASE BatchConsumed
    BY <2>7, CopyExtended
  <2> QED
    BY <1>2, <2>1, <2>2, <2>3, <2>4, <2>5, <2>6, <2>7 DEF PollNext
<1>3. CASE ResetNext
  <2>1. CASE ReadPreviousEpoch \/ SendSessionReset \/ EpochUnchanged
    <3>1. UNCHANGED <<logVars, stream, localVars>>
      BY <2>1 DEF ReadPreviousEpoch, SendSessionReset, EpochUnchanged, ResetFailed,
                  linkVars
    <3> QED
      BY <3>1, CopyUntouched
  <2>2. CASE SessionAcknowledged
    <3>1. PICK value : /\ EpochRead(value) /\ value # previous_epoch
                       /\ ResetLocalSession(SessionOf(value))
      BY <2>2 DEF SessionAcknowledged
    <3>2. SessionOf(value) = session /\ adopted # session
      BY <1>0, <2>2, <3>1, AcknowledgedIsCurrent DEF SessionAcknowledged
    <3>3. UNCHANGED <<logVars, stream>> /\ ResetLocalSession(session)
      BY <2>2, <3>1, <3>2 DEF SessionAcknowledged, linkVars
    <3> QED
      BY <3>2, <3>3, CopyOpened
  <2> QED
    BY <1>3, <2>1, <2>2 DEF ResetNext
<1>4. CASE MonitorNext
  <2>1. CASE MonitorUnreachable
    <3>1. UNCHANGED logVars /\ stream' = stream
      BY <2>1 DEF MonitorUnreachable, linkVars
    <3>2. CASE MarkSessionOffline
      BY <3>1, <3>2, OfflineKeepsConsumption
    <3>3. CASE UNCHANGED localVars
      BY <3>1, <3>3, CopyUntouched
    <3> QED
      BY <2>1, <3>2, <3>3 DEF MonitorUnreachable
  <2>2. CASE MonitorLoading
    BY <2>2, OfflineKeepsConsumption DEF MonitorLoading, linkVars
  <2>3. CASE MonitorReady \/ MonitorFault \/ CommandFault \/ OperatorPanic
    <3>1. UNCHANGED <<logVars, stream, localVars>>
      BY <2>3 DEF MonitorReady, MonitorFault, CommandFault, OperatorPanic, linkVars
    <3> QED
      BY <3>1, CopyUntouched
  <2> QED
    BY <1>4, <2>1, <2>2, <2>3 DEF MonitorNext
<1>5. CASE InitNext
  <2>1. CASE McuRestart
    BY <2>1, CopyForgotten DEF McuRestart, ExchangeEnd
  <2>2. CASE InitReady \/ InitFatal
    BY <2>2, CopyUntouched DEF InitReady, InitFatal, linkVars
  <2> QED
    BY <1>5, <2>1, <2>2 DEF InitNext
<1>6. CASE UNCHANGED allVars
  BY <1>6, CopyUntouched DEF allVars, linkVars, mcuVars
<1> QED
  BY <1>1, <1>2, <1>3, <1>4, <1>5, <1>6 DEF SessionNext

(* Every step keeps the ownership. *)
LEMMA NextOwnership ==
  ASSUME SessionInv, [SessionNext]_allVars
  PROVE  Ownership'
<1>1. CASE SessionNext
  BY <1>1, FpgaKeepsOwnership, PollKeepsOwnership, ResetKeepsOwnership,
     MonitorKeepsOwnership, InitKeepsOwnership DEF SessionNext
<1>2. CASE UNCHANGED allVars
  <2>1. Ownership
    BY Halves
  <2> QED
    BY <1>2, <2>1
       DEF allVars, logVars, fpgaVars, linkVars, mcuVars, faultVars, localVars,
           Ownership, SessionTypeOK, ControlConsistent, StaleEpochHarmless,
           OpenedOnce, ServedIsOwned
<1> QED
  BY <1>1, <1>2

(* Both sides start with nothing logged and no session owned. *)
LEMMA InitSessionInv == SessionInit => SessionInv
<1> SUFFICES ASSUME SessionInit PROVE SessionInv
  OBVIOUS
<1>1. LogInv
  BY InitLogInv DEF SessionInit, Init
<1>2. /\ session = 0 /\ accepted = << >> /\ Len(accepted) = 0
      /\ write_sequence_q = 0 /\ acknowledge_sequence_q = 0
      /\ response.count = 0 /\ response.session = 0 /\ ~stream.active
      /\ received = << >> /\ mcu_session = -1 /\ adopted = -1
  BY NoStreamInactive DEF SessionInit, LogInit, EmptyResponse, NoSession
<1>3. 0 % SequenceMod = 0 /\ 0 \in SequenceNumbers
  BY SmallRemainder, RangeExceedsRing DEF SequenceNumbers
<1>4. Acknowledged = 0
  BY <1>2 DEF Acknowledged, AcknowledgedAvailable, Distance
<1>5. SessionTypeOK
  <2>1. << >> \in Seq(1..MaxEvents) /\ 0 \in 0..MaxSessions
    BY LogAssumption
  <2>2. mailbox \in Int /\ previous_epoch \in Int /\ session_epoch <= session
        /\ mcu_session \in Int /\ adopted \in Int
    BY <1>2 DEF SessionInit, NoEpoch
  <2> QED
    BY <1>2, <1>3, <2>1, <2>2 DEF SessionTypeOK, SessionInit
<1>6. ControlConsistent /\ StaleEpochHarmless /\ OpenedOnce /\ ServedIsOwned
  BY <1>2 DEF SessionInit, ControlConsistent, StaleEpochHarmless, OpenedOnce,
              ServedIsOwned, NoSession
<1>7. HeadersCurrent /\ AcknowledgedConsumed /\ DropsFlagged /\ ConsumedIsPrefix
      /\ NoGapConsumed
  BY <1>2, <1>3, <1>4 DEF HeadersCurrent, AcknowledgedConsumed, DropsFlagged,
                          NoGapIn, ConsumedIsPrefix, NoGapConsumed
<1> QED
  BY <1>1, <1>5, <1>6, <1>7 DEF SessionInv

(* The invariant holds throughout. *)
LEMMA SessionInvHolds == SessionSpec => []SessionInv
<1>1. SessionInv /\ [SessionNext]_allVars => SessionInv'
  <2>1. ASSUME SessionInv, [SessionNext]_allVars PROVE Ownership' /\ Consumption'
    BY <2>1, NextOwnership, NextConsumption
  <2> QED
    BY <2>1 DEF SessionInv, Ownership, Consumption
<1> QED
  BY <1>1, InitSessionInv, PTL DEF SessionSpec

(* "Retries are idempotent" (rp2040_firmware.md): whatever is corrupted,   *)
(* retried, reset or restarted, the MCU consumes the log of the session it *)
(* has opened, in order, without a gap and nothing else.                   *)
THEOREM OwnLogConsumed == SessionSpec => []ConsumesOwnLog
<1>1. SessionInv => ConsumesOwnLog
  BY DEF SessionInv, ConsumesOwnLog, EpochIdentifiesSession, ServedIsOwned
<1> QED
  BY <1>1, SessionInvHolds, PTL

-----------------------------------------------------------------------------
(* The transport implements CompletionChannel. *)

Held == IF mcu_session = session THEN received ELSE << >>

(* Nothing the channel shows has moved. *)
LEMMA ChannelStutters ==
  ASSUME UNCHANGED <<accepted, session, mcu_session, adopted, received>>
  PROVE  UNCHANGED Channel!vars
  BY DEF Channel!vars, Lease

(* Giving up the MCU's copy closes the channel, if it was held. *)
LEMMA ForgettingCloses ==
  ASSUME SessionInv, UNCHANGED <<accepted, session>>, ResetLocalSession(NoSession)
  PROVE  [Channel!Next]_Channel!vars
<1>1. /\ mcu_session' = NoSession /\ mcu_session' # session /\ adopted' = adopted
      /\ mcu_session = session => adopted = session
  BY SessionNumber DEF SessionInv, OpenedOnce, ResetLocalSession, NoSession
<1>2. CASE mcu_session = session
  BY <1>1, <1>2 DEF Channel!Next, Channel!Close, Lease
<1>3. CASE mcu_session # session
  BY <1>1, <1>3 DEF Channel!vars, Lease
<1> QED
  BY <1>2, <1>3

(* A clear restarts the channel: no session so far is the new one. *)
LEMMA ClearingRestarts ==
  ASSUME SessionInv, LogClear, UNCHANGED localVars
  PROVE  [Channel!Next]_Channel!vars
<1>1. session' = session + 1 /\ session \in Nat /\ accepted' = << >>
  BY SessionNumber DEF LogClear, SessionInv
<1>2. mcu_session' # session' /\ adopted' # session'
  BY <1>1 DEF SessionInv, SessionTypeOK, OpenedOnce, localVars, NoSession
<1> QED
  BY <1>1, <1>2 DEF Channel!Next, Channel!Restart, Lease

(* An edge of the log logs the next completion, or nothing. *)
LEMMA EdgeLogs ==
  ASSUME SessionInv, NEW event \in EventInputs, NEW q \in Queries,
         LogCycle(event, q), UNCHANGED localVars
  PROVE  [Channel!Next]_Channel!vars
<1>1. /\ session' = session
      /\ \/ UNCHANGED accepted
         \/ /\ accepted' = Append(accepted, event) /\ event \in 1..MaxEvents
  BY CycleAccepts DEF SessionInv
<1>2. CASE UNCHANGED accepted
  BY <1>1, <1>2, ChannelStutters DEF localVars
<1>3. CASE accepted' = Append(accepted, event) /\ event \in 1..MaxEvents
  <2>1. \E e \in 1..MaxEvents : accepted' = Append(accepted, e)
    BY <1>3
  <2>2. UNCHANGED <<Held, Lease>>
    BY <1>1 DEF localVars, Held, Lease
  <2> QED
    BY <2>1, <2>2 DEF Channel!Next, Channel!Log, Held
<1> QED
  BY <1>1, <1>2, <1>3

(* A batch consumed is the channel's Consume, unless it was empty. *)
LEMMA ConsumingConsumes ==
  ASSUME SessionInv, BatchConsumed
  PROVE  [Channel!Next]_Channel!vars
<1> DEFINE n == stream.header.count
           r == received \o stream.items
<1>1. /\ xfer = "data" /\ StreamComplete /\ BatchWellFormed
      /\ received' = r /\ UNCHANGED <<accepted, session, mcu_session, adopted>>
  BY DEF BatchConsumed, logVars
<1>2. /\ r \in Seq(1..MaxEvents)
      /\ n = 0 => r = received
      /\ n > 0 => /\ Len(r) = Len(received) + n
                  /\ Len(r) <= Len(accepted)
                  /\ \A i \in 1..Len(r) : r[i] = accepted[i]
  BY <1>1, ConsumedExtends
<1>3. n \in 0..BatchItems /\ (n > 0 => mcu_session = session)
  BY <1>1, BatchIsNext
<1>4. Len(received) \in Nat /\ accepted \in Seq(1..MaxEvents) /\ Len(accepted) \in Nat
  BY SessionNumber DEF SessionInv, SessionTypeOK
<1> HIDE DEF n, r
<1>5. CASE n = 0
  BY <1>1, <1>2, <1>5, ChannelStutters
<1>6. CASE n > 0
  <2>1. r = SubSeq(accepted, 1, Len(r))
    BY <1>2, <1>4, <1>6, PrefixPointwise
  <2>2. Len(r) \in (Len(received) + 1)..Len(accepted)
    BY <1>2, <1>3, <1>4, <1>6, RangeExceedsRing
  <2>3. \E m \in (Len(received) + 1)..Len(accepted) : received' = SubSeq(accepted, 1, m)
    BY <1>1, <2>1, <2>2
  <2>4. mcu_session = session /\ mcu_session' = session'
    BY <1>1, <1>3, <1>6
  <2> QED
    BY <1>1, <2>3, <2>4 DEF Channel!Next, Channel!Consume, Lease
<1> QED
  BY <1>3, <1>5, <1>6, RangeExceedsRing

(* Adopting the changed epoch opens a session that was free. *)
LEMMA AcknowledgingOpens ==
  ASSUME SessionInv, SessionAcknowledged
  PROVE  [Channel!Next]_Channel!vars
<1>1. PICK value : /\ EpochRead(value) /\ value # previous_epoch
                   /\ ResetLocalSession(SessionOf(value))
  BY DEF SessionAcknowledged
<1>2. SessionOf(value) = session /\ adopted # session
  BY <1>1, Halves, AcknowledgedIsCurrent DEF SessionAcknowledged
<1>3. /\ mcu_session' = session /\ received' = << >>
      /\ UNCHANGED <<accepted, session>>
      /\ mcu_session # session
  BY <1>1, <1>2, SessionNumber
     DEF SessionAcknowledged, ResetLocalSession, logVars, SessionInv, OpenedOnce, NoSession
<1> QED
  BY <1>2, <1>3 DEF Channel!Next, Channel!Open, Lease

(* Going offline closes the channel or leaves it. *)
LEMMA OfflineCloses ==
  ASSUME SessionInv, MarkSessionOffline, UNCHANGED logVars
  PROVE  [Channel!Next]_Channel!vars
<1>1. CASE fpga_session_ready
  BY <1>1, ForgettingCloses DEF MarkSessionOffline, logVars
<1>2. CASE ~fpga_session_ready
  BY <1>2, ChannelStutters DEF MarkSessionOffline, logVars, localVars
<1> QED
  BY <1>1, <1>2

(* Every step of the transport is a step of the channel or a stutter. *)
LEMMA StepImplementsChannel ==
  ASSUME SessionInv, [SessionNext]_allVars
  PROVE  [Channel!Next]_Channel!vars
<1>1. ASSUME UNCHANGED <<logVars, localVars>> PROVE [Channel!Next]_Channel!vars
  BY <1>1, ChannelStutters DEF logVars, localVars
<1>2. CASE CompletionEvent
  <2>1. PICK event \in EventInputs : LogCycle(event, NoQuery)
    BY <1>2 DEF CompletionEvent
  <2> QED
    BY <1>2, <2>1, EdgeLogs DEF CompletionEvent, mcuVars, Queries
<1>3. CASE ResetDrained \/ FpgaRestart
  BY <1>3, ClearingRestarts DEF ResetDrained, FpgaRestart, mcuVars
<1>4. CASE RequestAccepted
  <2>1. PICK event \in EventInputs : LogCycle(event, app_completion_sequence)
    BY <1>4 DEF RequestAccepted
  <2>2. app_completion_sequence \in Queries
    BY DEF SessionInv, SessionTypeOK, Queries
  <2> QED
    BY <1>4, <2>1, <2>2, EdgeLogs DEF RequestAccepted, mcuVars
<1>5. CASE PollBusy \/ MonitorLoading
  BY <1>5, OfflineCloses DEF PollBusy, MonitorLoading
<1>6. CASE ExchangeFailed \/ BatchRefused \/ MonitorUnreachable
  <2>1. UNCHANGED logVars /\ (MarkSessionOffline \/ UNCHANGED localVars)
    BY <1>6 DEF ExchangeFailed, BatchRefused, AttemptFailed, MonitorUnreachable
  <2> QED
    BY <1>1, <2>1, OfflineCloses
<1>7. CASE BatchConsumed
  BY <1>7, ConsumingConsumes
<1>8. CASE SessionAcknowledged
  BY <1>8, AcknowledgingOpens
<1>9. CASE McuRestart
  BY <1>9, ForgettingCloses DEF McuRestart, logVars
<1>10. CASE ResetAssert \/ AssetLoaded \/ PollStart \/ ExchangeStart \/ RequestIgnored
            \/ BatchForcesReset
  BY <1>1, <1>10 DEF ResetAssert, AssetLoaded, PollStart, ExchangeStart,
                     RequestIgnored, BatchForcesReset, mcuVars
<1>11. CASE HeaderShifted \/ ItemShifted
  BY <1>1, <1>11 DEF HeaderShifted, ItemShifted, LatchHeader, StreamItem, mcuVars
<1>12. CASE ReadPreviousEpoch \/ SendSessionReset \/ EpochUnchanged
  <2>1. UNCHANGED <<logVars, localVars>>
    BY <1>12 DEF ReadPreviousEpoch, SendSessionReset, EpochUnchanged, ResetFailed
  <2> QED
    BY <1>1, <2>1
<1>13. CASE MonitorReady \/ MonitorFault \/ CommandFault \/ OperatorPanic
            \/ InitReady \/ InitFatal
  BY <1>1, <1>13 DEF MonitorReady, MonitorFault, CommandFault, OperatorPanic,
                     InitReady, InitFatal
<1>14. CASE UNCHANGED allVars
  BY <1>1, <1>14 DEF allVars, mcuVars
<1> QED
  BY <1>2, <1>3, <1>4, <1>5, <1>6, <1>7, <1>8, <1>9, <1>10, <1>11, <1>12, <1>13,
     <1>14
     DEF SessionNext, FpgaNext, PollNext, ResetNext, MonitorNext, InitNext

(* The rings, frames, epochs, retries and restarts implement a channel the *)
(* MCU opens once per session and reads in order, exactly once.            *)
THEOREM TransportIsChannel == SessionSpec => ImplementsChannel
<1>1. SessionInit => Channel!Init
  <2> SUFFICES ASSUME SessionInit PROVE Channel!Init
    OBVIOUS
  <2>1. accepted = << >> /\ received = << >> /\ mcu_session # session
        /\ adopted # session
    BY DEF SessionInit, LogInit, NoSession
  <2> QED
    BY <2>1 DEF Channel!Init, Lease
<1>2. SessionInv /\ [SessionNext]_allVars => [Channel!Next]_Channel!vars
  BY StepImplementsChannel
<1> QED
  BY <1>1, <1>2, SessionInvHolds, PTL DEF SessionSpec, ImplementsChannel, Channel!Spec
=============================================================================
