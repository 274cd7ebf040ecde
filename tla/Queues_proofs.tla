--------------------------- MODULE Queues_proofs ---------------------------
(***************************************************************************)
(* Proofs about the queues between the firmware's cores, interrupts and    *)
(* the FPGA, for every size of the rings:                                  *)
(* - CommandPath: every admitted command is in exactly one place, in       *)
(*   order;                                                                *)
(* - AudioCapture: no interleaving of the two cores loses a resync         *)
(*   request, and the packet policy never asks the ring for more frames    *)
(*   than it holds;                                                        *)
(* - MidiIngress, for every width of its counters that is a multiple of    *)
(*   the ring's size: the ring is a queue and loses no packet, and a panic *)
(*   lets at most one packet through;                                      *)
(* - SpiBridge, for every size of the staging RAM, every payload limit and *)
(*   every stream of words, when the FIFO has drained a commit before the  *)
(*   next 0xa5 opcode arrives: what the command ingress publishes is what  *)
(*   it accepted, word for word, and it splits into whole commands.        *)
(***************************************************************************)
EXTENDS CommandPath, AudioCapture, MidiIngress, SpiBridge, CommonLemmas

Command == [id : Nat, words : Nat]

(* The frames in the ring, oldest first. *)
Waiting == RingSeq(frames, read_index, count, QueueCapacity)

PathTypeOK ==
  /\ batch \in Seq(Command) /\ held \in Seq(Command)
  /\ frames \in [DmaSlots -> Seq(Command)]
  /\ read_index \in DmaSlots /\ count \in 0 .. QueueCapacity
  /\ admitted \in Seq(Command) /\ delivered \in Seq(Command)
  /\ errors \in Nat /\ known \in Nat /\ commands \in Nat

(* The interrupt and the enqueue agree on the ring: the producer's index   *)
(* is count slots ahead, and a transfer runs exactly while a frame waits.  *)
RingShape ==
  /\ write_index = (read_index + count) % QueueCapacity
  /\ dma_active <=> count > 0

(* The inductive invariant. *)
PathInv == PathTypeOK /\ RingShape /\ NothingLost

-----------------------------------------------------------------------------
(* The constants as numbers. *)
LEMMA PathNumbers ==
  /\ QueueCapacity \in Nat /\ QueueCapacity > 0 /\ CommandWords \subseteq Nat
  /\ DmaSlots = 0 .. (QueueCapacity - 1)
BY PathAssumption DEF DmaSlots

(* The ring's content is a sequence of frames, and what it holds in all is *)
(* a sequence of commands.                                                 *)
LEMMA WaitingType ==
  ASSUME PathTypeOK
  PROVE  /\ Waiting \in Seq(Seq(Command)) /\ Len(Waiting) = count
         /\ QueuedFrames = FlattenSeq(Waiting)
         /\ QueuedFrames \in Seq(Command)
<1>1. /\ QueueCapacity \in Nat /\ QueueCapacity > 0 /\ read_index \in Nat /\ count \in Nat
      /\ IsRing(frames, QueueCapacity, Seq(Command))
  BY PathNumbers DEF PathTypeOK, IsRing
<1>2. Waiting \in Seq(Seq(Command)) /\ Len(Waiting) = count
  BY <1>1, RingSeqType DEF Waiting
<1>3. QueuedFrames = FlattenSeq(Waiting)
  BY DEF QueuedFrames, Waiting, RingSeq
<1>4. FlattenSeq(Waiting) \in Seq(Command)
  BY <1>2, FlattenSeqType
<1> QED
  BY <1>2, <1>3, <1>4

(* The invariant holds at power-up. *)
LEMMA PathInvInit == PathInit => PathInv
<1> SUFFICES ASSUME PathInit PROVE PathInv
  OBVIOUS
<1> USE PathNumbers DEF PathInit
<1>1. PathTypeOK
  BY DEF PathTypeOK
<1>2. RingShape
  BY SmallRemainder DEF RingShape
<1>4. NothingLost
  <2>1. QueuedFrames = << >>
    <3>1. Len(Waiting) = 0 /\ Waiting = << >>
      BY <1>1, WaitingType
    <3> QED
      BY <1>1, <3>1, WaitingType DEF FlattenSeq
  <2> QED
    BY <2>1 DEF NothingLost
<1> QED
  BY <1>1, <1>2, <1>4 DEF PathInv

-----------------------------------------------------------------------------
(* The two moves of the ring. *)

(* A frame enqueued is the last to be sent. *)
LEMMA EnqueueAppends ==
  ASSUME PathTypeOK, RingShape, EnqueueFrame
  PROVE  Waiting' = Append(Waiting, batch)
<1>1. /\ QueueCapacity \in Nat /\ QueueCapacity > 0 /\ read_index \in Nat /\ count \in Nat
      /\ IsRing(frames, QueueCapacity, Seq(Command)) /\ batch \in Seq(Command)
      /\ count < QueueCapacity
  BY PathNumbers DEF PathTypeOK, EnqueueFrame, HasRoom, IsRing
<1>2. read_index' = read_index /\ Stores(frames, frames', QueueCapacity, read_index, count, count', batch)
  BY <1>1 DEF EnqueueFrame, RingShape, Stores
<1>3. RingSeq(frames', read_index, count', QueueCapacity)
        = Append(RingSeq(frames, read_index, count, QueueCapacity), batch)
  BY <1>1, <1>2, RingPush
<1> QED
  BY <1>2, <1>3 DEF Waiting

(* A transfer that ends retires the oldest frame. *)
LEMMA IrqRetires ==
  ASSUME PathTypeOK, RingShape, DmaIrq
  PROVE  /\ Waiting # << >> /\ Head(Waiting) = frames[read_index]
         /\ Waiting' = Tail(Waiting)
<1>1. /\ QueueCapacity \in Nat /\ QueueCapacity > 0 /\ read_index \in Nat /\ count \in Nat
      /\ IsRing(frames, QueueCapacity, Seq(Command)) /\ 1 \in 0 .. count
      /\ read_index \in 0 .. (QueueCapacity - 1)
  BY PathNumbers DEF PathTypeOK, DmaIrq, RingShape, IsRing
<1>2. Waiting # << >>
  BY <1>1, WaitingType
<1>3. Head(Waiting) = frames[read_index]
  <2>1. Waiting[1] = frames[(read_index + 1 - 1) % QueueCapacity]
    BY <1>1 DEF Waiting, RingSeq
  <2>2. read_index + 1 - 1 = read_index /\ read_index % QueueCapacity = read_index
    BY <1>1, SmallRemainder
  <2> QED
    BY <2>1, <2>2
<1>4. read_index' \in Nat /\ read_index' % QueueCapacity = (read_index + 1) % QueueCapacity
  <2>1. read_index' = (read_index + 1) % QueueCapacity
    BY DEF DmaIrq, NextSlot
  <2>2. read_index' \in 0 .. (QueueCapacity - 1)
    BY <1>1, <2>1, DivMod
  <2>3. read_index' % QueueCapacity = read_index'
    BY <1>1, <2>2, SmallRemainder
  <2> QED
    BY <2>1, <2>2, <2>3
<1>5. RingSeq(frames, read_index', count', QueueCapacity)
        = Tail(RingSeq(frames, read_index, count, QueueCapacity))
  <2>1. Passes(QueueCapacity, read_index, read_index', count, count', 1, 2)
    BY <1>1, <1>4 DEF DmaIrq, Passes
  <2> QED
    BY <1>1, <1>4, <2>1, RingPop
<1> QED
  BY <1>2, <1>3, <1>5 DEF DmaIrq, Waiting

-----------------------------------------------------------------------------
(* Concatenation of sequences of commands, in the form the steps use. *)
LEMMA Regroup ==
  ASSUME NEW a \in Seq(Command), NEW b \in Seq(Command), NEW c \in Seq(Command)
  PROVE  /\ (a \o b) \o c = a \o (b \o c)
         /\ a \o << >> = a /\ << >> \o a = a
         /\ a \o b \in Seq(Command)
BY ST!ConcatAssociative, ST!ConcatEmptySeq, ST!ConcatProperties, SMTT(60)

(* Steps that leave the ring alone leave what it holds alone. *)
LEMMA RingKept ==
  ASSUME UNCHANGED ringVars
  PROVE  Waiting' = Waiting /\ QueuedFrames' = QueuedFrames
BY DEF ringVars, Waiting, QueuedFrames

(* The sink takes a command. *)
LEMMA AppendKeeps ==
  ASSUME PathInv, NEW n \in CommandWords, AppendCommand(n)
  PROVE  PathInv'
<1> DEFINE c == [id |-> commands + 1, words |-> n]
<1>1. c \in Command /\ c \in Command /\ <<c>> \in Seq(Command)
  BY PathNumbers DEF PathInv, PathTypeOK, Command
<1>2. /\ UNCHANGED <<frames, read_index, write_index, count, dma_active, pathReady, errors,
                     known, pathFault, delivered, lost>>
      /\ core' # "exchange" /\ commands' = commands + 1
      /\ pathReady
  BY DEF AppendCommand, ringVars
<1>3. QueuedFrames' = QueuedFrames
  BY <1>2, RingKept DEF ringVars
<1>4. QueuedFrames \in Seq(Command)
  BY WaitingType DEF PathInv
<1>5. CASE FitsBatch(c)
  <2>1. batch' = Append(batch, c) /\ admitted' = Append(admitted, c) /\ held' = held
    BY <1>5 DEF AppendCommand
  <2>2. Append(batch, c) \in Seq(Command) /\ Append(admitted, c) \in Seq(Command)
    BY <1>1 DEF PathInv, PathTypeOK
  <2>3. PathTypeOK'
    BY <1>2, <2>1, <2>2 DEF PathInv, PathTypeOK
  <2>4. RingShape'
    BY <1>2 DEF PathInv, RingShape
  <2>5. ASSUME ~lost PROVE Append(admitted, c) = delivered \o QueuedFrames \o Append(batch, c)
    <3> DEFINE d == delivered \o QueuedFrames
    <3>1. admitted = d \o batch /\ d \in Seq(Command)
      BY <1>2, <1>4, <2>5, Regroup DEF PathInv, NothingLost, PathTypeOK
    <3>2. batch \in Seq(Command) /\ admitted \in Seq(Command)
      BY DEF PathInv, PathTypeOK
    <3> HIDE DEF d, c
    <3>3. Append(admitted, c) = (d \o batch) \o <<c>> /\ Append(batch, c) = batch \o <<c>>
      BY <1>1, <3>1, <3>2, ST!AppendIsConcat
    <3>4. (d \o batch) \o <<c>> = d \o (batch \o <<c>>)
      BY <1>1, <3>1, <3>2, Regroup
    <3> QED
      BY <3>3, <3>4 DEF d
  <2>6. NothingLost'
    BY <1>2, <1>3, <2>1, <2>5 DEF NothingLost
  <2> QED
    BY <2>3, <2>4, <2>6 DEF PathInv
<1>6. CASE ~FitsBatch(c)
  <2>1. batch' = batch /\ admitted' = admitted /\ held' = <<c>>
    BY <1>6 DEF AppendCommand
  <2>2. PathTypeOK'
    BY <1>1, <1>2, <2>1 DEF PathInv, PathTypeOK
  <2>3. RingShape'
    BY <1>2 DEF PathInv, RingShape
  <2>4. NothingLost'
    BY <1>2, <1>3, <2>1 DEF PathInv, NothingLost
  <2> QED
    BY <2>2, <2>3, <2>4 DEF PathInv
<1> QED
  BY <1>5, <1>6

(* The batch becomes the last frame of the ring. *)
LEMMA EnqueueKeeps ==
  ASSUME PathInv, EnqueueFrame
  PROVE  PathInv'
<1>1. /\ batch \in Seq(Command) /\ held \in Seq(Command) /\ admitted \in Seq(Command)
      /\ delivered \in Seq(Command) /\ count \in Nat /\ count < QueueCapacity
      /\ read_index \in Nat /\ write_index \in DmaSlots
  <2>1. (read_index + count) % QueueCapacity \in 0 .. (QueueCapacity - 1)
    BY PathNumbers, DivMod DEF PathInv, PathTypeOK
  <2> QED
    BY <2>1, PathNumbers DEF PathInv, PathTypeOK, RingShape, EnqueueFrame, HasRoom
<1>2. PathTypeOK'
  <2>1. admitted \o held \in Seq(Command)
    BY <1>1, Regroup
  <2> QED
    BY <1>1, <2>1, PathNumbers DEF PathInv, PathTypeOK, EnqueueFrame
<1>3. RingShape'
  <2>1. write_index' = (((read_index + count) % QueueCapacity) + 1) % QueueCapacity
    BY DEF EnqueueFrame, NextSlot, PathInv, RingShape
  <2> DEFINE a == read_index + count
  <2>2. a \in Int /\ 1 \in Int /\ a + 1 = read_index + (count + 1)
    BY <1>1
  <2> HIDE DEF a
  <2>3. ((a % QueueCapacity) + 1) % QueueCapacity = (a + 1) % QueueCapacity
    BY <2>2, PathNumbers, RemainderOfSum
  <2>4. write_index' = (read_index + (count + 1)) % QueueCapacity
    BY <2>1, <2>2, <2>3 DEF a
  <2> QED
    BY <1>1, <2>4 DEF EnqueueFrame, RingShape
<1>5. QueuedFrames' = QueuedFrames \o batch
  <2>1. Waiting' = Append(Waiting, batch)
    BY EnqueueAppends DEF PathInv
  <2>2. QueuedFrames' = FlattenSeq(Waiting') /\ QueuedFrames = FlattenSeq(Waiting)
    BY DEF QueuedFrames, Waiting, RingSeq
  <2>3. Waiting \in Seq(Seq(Command))
    BY WaitingType DEF PathInv
  <2>4. FlattenSeq(Append(Waiting, batch)) = FlattenSeq(Waiting) \o batch
    BY <1>1, <2>3, FlattenAppend
  <2> QED
    BY <2>1, <2>2, <2>4
<1>6. NothingLost'
  <2>1. ASSUME pathReady, ~lost
        PROVE  admitted \o held = delivered \o (QueuedFrames \o batch) \o held
    <3>1. QueuedFrames \in Seq(Command)
      BY WaitingType DEF PathInv
    <3>2. admitted = delivered \o QueuedFrames \o batch
      BY <2>1 DEF PathInv, NothingLost
    <3>3. (delivered \o QueuedFrames) \o batch = delivered \o (QueuedFrames \o batch)
      BY <1>1, <3>1, Regroup, SMTT(60)
    <3> QED
      BY <3>2, <3>3
  <2> QED
    BY <1>5, <2>1 DEF NothingLost, EnqueueFrame
<1> QED
  BY <1>2, <1>3, <1>6 DEF PathInv

(* A frame is taken by the FPGA, or refused. *)
LEMMA IrqKeeps ==
  ASSUME PathInv, DmaIrq
  PROVE  PathInv'
<1>1. /\ QueueCapacity \in Nat /\ QueueCapacity > 0
      /\ batch \in Seq(Command) /\ delivered \in Seq(Command) /\ count \in Nat /\ count # 0
      /\ count <= QueueCapacity /\ read_index \in Nat /\ frames[read_index] \in Seq(Command)
      /\ errors \in Nat
  BY PathNumbers DEF PathInv, PathTypeOK, RingShape, DmaIrq
<1>2. read_index' = (read_index + 1) % QueueCapacity /\ read_index' \in DmaSlots
  <2>1. (read_index + 1) % QueueCapacity \in 0 .. (QueueCapacity - 1)
    BY <1>1, DivMod
  <2> QED
    BY <2>1, PathNumbers DEF DmaIrq, NextSlot
<1>3. PathTypeOK'
  <2>1. delivered \o frames[read_index] \in Seq(Command)
    BY <1>1, Regroup
  <2>2. delivered' \in Seq(Command) /\ errors' \in Nat
    <3>1. delivered' \in {delivered, delivered \o frames[read_index]}
          /\ (errors' = errors \/ errors' = errors + 1)
      BY DEF DmaIrq, FrameArrives
    <3>2. delivered' \in Seq(Command)
      BY <1>1, <2>1, <3>1, Zenon
    <3>3. errors' \in Nat
      BY <1>1, <3>1
    <3> QED
      BY <3>2, <3>3
  <2>3. count' \in 0 .. QueueCapacity
    BY <1>1 DEF DmaIrq
  <2> QED
    BY <1>2, <2>2, <2>3 DEF DmaIrq, PathInv, PathTypeOK
<1>4. RingShape'
  <2> DEFINE a == read_index + 1
             j == count - 1
  <2>1. a \in Int /\ j \in Int /\ a + j = read_index + count
    BY <1>1
  <2>2. read_index' = a % QueueCapacity /\ count' = j
    BY <1>2 DEF DmaIrq
  <2> HIDE DEF a, j
  <2>3. ((a % QueueCapacity) + j) % QueueCapacity = (a + j) % QueueCapacity
    BY <1>1, <2>1, RemainderOfSum
  <2>4. write_index' = (read_index' + count') % QueueCapacity
    BY <2>1, <2>2, <2>3 DEF DmaIrq, PathInv, RingShape
  <2>5. dma_active' <=> count' > 0
    <3>1. dma_active' = (count > 1) /\ count' = count - 1
      BY DEF DmaIrq
    <3>2. (count > 1) <=> (count - 1 > 0)
      BY <1>1
    <3> QED
      BY <3>1, <3>2, Zenon
  <2> QED
    BY <2>4, <2>5 DEF RingShape
<1>6. QueuedFrames = frames[read_index] \o QueuedFrames' /\ QueuedFrames' \in Seq(Command)
  <2>1. Waiting # << >> /\ Head(Waiting) = frames[read_index] /\ Waiting' = Tail(Waiting)
    BY IrqRetires DEF PathInv
  <2>2. QueuedFrames' = FlattenSeq(Waiting') /\ QueuedFrames = FlattenSeq(Waiting)
    BY DEF QueuedFrames, Waiting, RingSeq
  <2>3. Waiting \in Seq(Seq(Command))
    BY WaitingType DEF PathInv
  <2>4. FlattenSeq(Waiting) = Head(Waiting) \o FlattenSeq(Tail(Waiting))
    BY <2>1, <2>3, FlattenTail
  <2>5. Tail(Waiting) \in Seq(Seq(Command))
    BY <2>1, <2>3, ST!HeadTailProperties
  <2>6. FlattenSeq(Tail(Waiting)) \in Seq(Command)
    BY <2>5, FlattenSeqType
  <2> QED
    BY <2>1, <2>2, <2>4, <2>6
<1>7. NothingLost'
  <2> SUFFICES ASSUME pathReady', ~lost' PROVE admitted' = delivered' \o QueuedFrames' \o batch'
    BY DEF NothingLost
  <2>1. pathReady /\ ~lost /\ admitted' = admitted /\ batch' = batch
        /\ delivered' = delivered \o frames[read_index]
    BY DEF DmaIrq, FrameArrives
  <2>2. admitted = delivered \o QueuedFrames \o batch
    BY <2>1 DEF PathInv, NothingLost
  <2>4. delivered \o (frames[read_index] \o QueuedFrames')
          = (delivered \o frames[read_index]) \o QueuedFrames'
    <3> DEFINE x == frames[read_index]
               y == QueuedFrames'
    <3>1. x \in Seq(Command) /\ y \in Seq(Command) /\ delivered \in Seq(Command)
      BY <1>1, <1>6
    <3> HIDE DEF x, y
    <3>2. (delivered \o x) \o y = delivered \o (x \o y)
      BY <3>1, Regroup
    <3> QED
      BY <3>2 DEF x, y
  <2> QED
    BY <1>6, <2>1, <2>2, <2>4
<1> QED
  BY <1>3, <1>4, <1>7 DEF PathInv

(* Steps that leave the ring and the delivered commands alone. *)
LEMMA QuietKeeps ==
  ASSUME PathInv, UNCHANGED <<ringVars, delivered, errors, commands>>,
         UNCHANGED held \/ held' = << >>,
         \/ ~pathReady' /\ batch' = << >> /\ UNCHANGED <<admitted, known>>
         \/ UNCHANGED <<batch, admitted, lost>> /\ pathReady' = pathReady /\ known' \in {known, errors}
  PROVE  PathInv'
<1>1. QueuedFrames' = QueuedFrames
  BY RingKept
<1>2. /\ UNCHANGED <<frames, read_index, write_index, count, dma_active, delivered, errors, commands>>
  BY DEF ringVars
<1>3. PathTypeOK'
  <2>1. << >> \in Seq(Command)
    OBVIOUS
  <2>2. batch' \in Seq(Command) /\ held' \in Seq(Command) /\ admitted' \in Seq(Command)
    BY <2>1, Zenon DEF PathInv, PathTypeOK
  <2>3. known' \in Nat
    BY DEF PathInv, PathTypeOK
  <2> QED
    BY <1>2, <2>2, <2>3 DEF PathInv, PathTypeOK
<1>4. RingShape'
  BY <1>2 DEF PathInv, RingShape
<1>5. NothingLost'
  BY <1>1, <1>2 DEF PathInv, NothingLost
<1> QED
  BY <1>3, <1>4, <1>5 DEF PathInv

(* A reset that finds the bus idle starts a new history. *)
LEMMA ResetKeeps ==
  ASSUME PathInv, PathReset
  PROVE  PathInv'
<1>1. CASE ~pathReady' /\ UNCHANGED <<errors, known, admitted, delivered, lost>>
  <2>1. UNCHANGED <<ringVars, delivered, errors, commands, held, core>> /\ batch' = << >>
    BY <1>1 DEF PathReset
  <2> QED
    BY <1>1, <2>1, QuietKeeps
<1>2. CASE /\ SpiIdle
           /\ pathReady' = TRUE
           /\ admitted' = DefaultCommands
           /\ FrameArrives(<< >>, DefaultCommands, 0, FALSE)
           /\ known' = known \/ (~pathReady /\ known' = errors')
  <2>1. /\ UNCHANGED <<frames, read_index, write_index, count, dma_active, held, commands>>
        /\ batch' = << >> /\ count = 0
    BY <1>2 DEF PathReset, ringVars, SpiIdle
  <2>2. DefaultCommands \in Seq(Command) /\ << >> \o DefaultCommands = DefaultCommands
        /\ DefaultCommands \o << >> = DefaultCommands
    BY DEF DefaultCommands, Command
  <2>3. errors' \in Nat /\ delivered' \in Seq(Command) /\ (~lost' => delivered' = DefaultCommands)
    <3>1. CASE delivered' = << >> \o DefaultCommands /\ errors' = 0 /\ lost' = FALSE
      BY <2>2, <3>1
    <3>2. CASE delivered' = << >> /\ lost' = TRUE /\ errors' \in {0, 0 + 1}
      <4>1. errors' \in Nat /\ delivered' \in Seq(Command)
        BY <3>2
      <4> QED
        BY <3>2, <4>1, Zenon
    <3> QED
      BY <1>2, <3>1, <3>2, Zenon DEF FrameArrives
  <2>4. PathTypeOK'
    <3>1. known' \in Nat
      BY <1>2, <2>3 DEF PathInv, PathTypeOK
    <3>2. batch' \in Seq(Command)
      BY <2>1
    <3> QED
      BY <1>2, <2>1, <2>2, <2>3, <3>1, <3>2 DEF PathInv, PathTypeOK
  <2>5. RingShape'
    BY <2>1 DEF PathInv, RingShape
  <2>6. QueuedFrames' = << >>
    <3>1. Waiting' = Waiting /\ QueuedFrames' = QueuedFrames
      BY <2>1, RingKept DEF ringVars
    <3>2. Waiting = << >> /\ QueuedFrames = FlattenSeq(Waiting)
      BY <2>1, WaitingType DEF PathInv
    <3> QED
      BY <3>1, <3>2 DEF FlattenSeq
  <2>7. NothingLost'
    BY <1>2, <2>1, <2>2, <2>3, <2>6 DEF NothingLost
  <2> QED
    BY <2>4, <2>5, <2>7 DEF PathInv
<1> QED
  BY <1>1, <1>2 DEF PathReset

(* Every step keeps the invariant. *)
LEMMA PathInvStep == PathInv /\ [PathNext]_pathVars => PathInv'
<1> SUFFICES ASSUME PathInv, [PathNext]_pathVars PROVE PathInv'
  OBVIOUS
<1>1. ASSUME NEW n \in CommandWords, AppendCommand(n) PROVE PathInv'
  BY <1>1, AppendKeeps
<1>2. CASE FlushCommands
  BY <1>2, QuietKeeps DEF FlushCommands
<1>3. CASE EnqueueFrame
  BY <1>3, EnqueueKeeps
<1>4. CASE EnqueueTimeout
  BY <1>4, QuietKeeps DEF EnqueueTimeout
<1>5. CASE DmaIrq
  BY <1>5, IrqKeeps
<1>6. CASE ExchangeStart
  BY <1>6, QuietKeeps DEF ExchangeStart
<1>7. CASE ExchangeEnd
  BY <1>7, QuietKeeps DEF ExchangeEnd
<1>10. CASE MarkOffline
  BY <1>10, QuietKeeps DEF MarkOffline
<1>8. CASE PathReset
  BY <1>8, ResetKeeps
<1>9. CASE UNCHANGED pathVars
  BY <1>9, QuietKeeps DEF pathVars
<1> QED
  BY <1>1, <1>2, <1>3, <1>4, <1>5, <1>6, <1>7, <1>10, <1>8, <1>9 DEF PathNext, Enqueue, Exchange

-----------------------------------------------------------------------------
(* The invariant is one of every behaviour. *)
LEMMA PathInvariant == FairPathSpec => []PathInv
BY PathInvInit, PathInvStep, PTL DEF FairPathSpec

(* Every command the sink admitted is taken by the FPGA, in the ring or in *)
(* the batch, exactly once and in order, for every size of a frame and of  *)
(* the ring and every interleaving with the DMA interrupt                  *)
(* (command_batch.c, spi_dma_queue.c).                                     *)
THEOREM CommandsNeitherLostNorReordered == FairPathSpec => []NothingLost
<1>1. PathInv => NothingLost
  BY DEF PathInv
<1> QED
  BY PathInvariant, <1>1, PTL

-----------------------------------------------------------------------------
(* The capture ring and its resync request: AudioCapture. *)

(* The resync request. *)

(* The inductive invariant: the request in flight or pending covers the    *)
(* reset, and so does the restart whose last stores are still to come.     *)
RequestInv ==
  /\ ResyncCoversReset
  /\ core0 = "clear" => aligned
  /\ requester \in {"idle", "reset", "half"}

(* It holds at power-up. *)
LEMMA RequestInvInit == CaptureInit => RequestInv
BY DEF CaptureInit, RequestInv, ResyncCoversReset

(* Every step of either core keeps it. *)
LEMMA RequestInvStep == RequestInv /\ [CaptureNext]_captureVars => RequestInv'
<1> SUFFICES ASSUME RequestInv, [CaptureNext]_captureVars PROVE RequestInv'
  OBVIOUS
<1> USE DEF RequestInv, ResyncCoversReset
<1>1. ASSUME NEW n \in {0, Nominal, Nominal + 1}, Tick(n) PROVE RequestInv'
  BY <1>1 DEF Tick
<1>2. CASE AdvanceMonitor
  <2>1. UNCHANGED <<requester, aligned>> /\ core0' # "clear" /\ (resync => resync')
    BY <1>2 DEF AdvanceMonitor
  <2> QED
    BY <2>1
<1>3. CASE StoreValidity
  BY <1>3 DEF StoreValidity
<1>4. CASE RestartHardware
  BY <1>4 DEF RestartHardware, dmaVars
<1>5. CASE ClearFlags
  BY <1>5 DEF ClearFlags
<1>6. CASE UsbTask
  BY <1>6 DEF UsbTask
<1>7. CASE FpgaReset
  BY <1>7 DEF FpgaReset
<1>8. CASE Request
  BY <1>8 DEF Request, RequestResync
<1>9. CASE Settle
  BY <1>9 DEF Settle
<1>10. CASE UNCHANGED captureVars
  BY <1>10 DEF captureVars
<1> QED
  BY <1>1, <1>2, <1>3, <1>4, <1>5, <1>6, <1>7, <1>8, <1>9, <1>10 DEF CaptureNext, Core0

(* When no request is outstanding, the PIO has been synchronised since the *)
(* FPGA's last reset: core 1's two plain stores, the monitor's load and    *)
(* store and the restart's final stores lose no request in any order       *)
(* (i2s_capture_request_resync, i2s_capture_restart_hardware).             *)
THEOREM NoRequestLost == CaptureSpec => []ResyncCoversReset
<1>1. RequestInv => ResyncCoversReset
  BY DEF RequestInv
<1> QED
  BY RequestInvInit, RequestInvStep, <1>1, PTL DEF CaptureSpec

-----------------------------------------------------------------------------
(* The packet policy. *)

(* What the ring's cursors are. *)
CursorTypes ==
  /\ completed \in 0 .. FrameMod - 1
  /\ written \in 0 .. Ring - 1
  /\ read \in 0 .. FrameMod - 1

(* The smaller of two numbers. *)
LEMMA MinOfTwo ==
  ASSUME NEW a \in Nat, NEW b \in Nat
  PROVE  Min({a, b}) \in Nat /\ Min({a, b}) <= a /\ Min({a, b}) <= b
<1>1. \E x \in {a, b} : \A y \in {a, b} : x <= y
  <2>1. CASE a <= b
    BY <2>1
  <2>2. CASE b <= a
    BY <2>2
  <2> QED
    BY <2>1, <2>2
<1>2. Min({a, b}) \in {a, b} /\ \A y \in {a, b} : Min({a, b}) <= y
  BY <1>1, Zenon DEF Min
<1> QED
  BY <1>2

(* A cursor that is reduced stays in its range. *)
LEMMA Reduced ==
  ASSUME NEW m \in Nat \ {0}, NEW a \in Int
  PROVE  a % m \in 0 .. m - 1
BY Z3

(* The constants as numbers. *)
LEMMA CaptureNumbers ==
  /\ Ring \in Nat \ {0} /\ FrameMod \in Nat \ {0}
  /\ Nominal \in Nat \ {0} /\ Target \in Nat \ {0} /\ Margin \in Nat
  /\ Target <= Ring /\ Nominal <= Target - Margin
BY CaptureAssumption

(* The count of frames a reader may take. *)
LEMMA AvailableIsANumber ==
  ASSUME CursorTypes
  PROVE  WriteCount \in 0 .. FrameMod - 1 /\ Backlog \in Nat /\ Available \in Nat
<1>1. WriteCount \in 0 .. FrameMod - 1
  BY CaptureNumbers, Reduced DEF CursorTypes, WriteCount
<1>2. Backlog \in Nat
  <2>1. WriteCount - read \in Int
    BY <1>1, CaptureNumbers DEF CursorTypes
  <2>2. (WriteCount - read) % FrameMod \in 0 .. FrameMod - 1
    BY <2>1, CaptureNumbers, Reduced
  <2> QED
    BY <2>2, CaptureNumbers DEF Backlog
<1> QED
  BY <1>1, <1>2, CaptureNumbers, MinOfTwo DEF Available

(* The cursors start in their ranges. *)
LEMMA CursorTypesInit == CaptureInit => CursorTypes
BY CaptureNumbers DEF CaptureInit, CursorTypes

(* Every step keeps them there. *)
LEMMA CursorTypesStep == CursorTypes /\ [CaptureNext]_captureVars => CursorTypes'
<1> SUFFICES ASSUME CursorTypes, [CaptureNext]_captureVars PROVE CursorTypes'
  OBVIOUS
<1> USE CaptureNumbers DEF CursorTypes, dmaVars
<1>1. ASSUME NEW n \in {0, Nominal, Nominal + 1}, Tick(n) PROVE CursorTypes'
  <2>1. n \in Nat
    OBVIOUS
  <2>2. (written + n) % Ring \in 0 .. Ring - 1
    BY <2>1, Reduced
  <2>3. (completed + (IF written + n >= Ring THEN Ring ELSE 0)) % FrameMod \in 0 .. FrameMod - 1
    BY <2>1, Reduced
  <2> QED
    BY <1>1, <2>2, <2>3 DEF Tick
<1>2. CASE AdvanceMonitor
  BY <1>2 DEF AdvanceMonitor
<1>3. CASE StoreValidity
  BY <1>3 DEF StoreValidity
<1>4. CASE RestartHardware
  BY <1>4, AvailableIsANumber DEF RestartHardware
<1>5. CASE ClearFlags
  BY <1>5 DEF ClearFlags
<1>6. CASE UsbTask
  <2>1. CaughtUp \in 0 .. FrameMod - 1
    <3>1. read + Backlog - Available \in Int
      BY AvailableIsANumber
    <3> QED
      BY <3>1, Reduced DEF CaughtUp
  <2>2. (CaughtUp + Got) % FrameMod \in 0 .. FrameMod - 1
    <3>1. Asked \in Nat
      BY DEF Asked, PacketFrames
    <3>2. Got \in Nat
      BY <3>1, AvailableIsANumber, MinOfTwo DEF Got
    <3>3. CaughtUp + Got \in Int
      BY <2>1, <3>2
    <3> QED
      BY <3>3, Reduced
  <2>3. read' \in 0 .. FrameMod - 1
    BY <1>6, <2>1, <2>2, AvailableIsANumber DEF UsbTask, FillPacket
  <2> QED
    BY <1>6, <2>3 DEF UsbTask
<1>7. CASE FpgaReset
  BY <1>7 DEF FpgaReset
<1>8. CASE Request
  BY <1>8 DEF Request
<1>9. CASE Settle
  BY <1>9 DEF Settle
<1>10. CASE UNCHANGED captureVars
  BY <1>10 DEF captureVars
<1> QED
  BY <1>1, <1>2, <1>3, <1>4, <1>5, <1>6, <1>7, <1>8, <1>9, <1>10 DEF CaptureNext, Core0

(* What is asked for when audio is sent, whatever the fill of the ring:    *)
(* the plan has let the stream go on with Nominal - 1 frames at least, and *)
(* the rate match asks for more only above the fill target.                *)
LEMMA PolicyFits ==
  ASSUME CursorTypes, IsAudio
  PROVE  Asked <= Available /\ Asked \in Nominal - 1 .. Nominal + 1
<1> DEFINE n == Available
<1>1. n \in Nat
  BY AvailableIsANumber
<1>2. ~(~usbStream.started /\ n < Target) /\ ~(n < Nominal - 1)
  BY DEF IsAudio, Decision, Plan
<1>3. Asked = PacketFrames(n)
  BY DEF Asked
<1> HIDE DEF n
<1>4. PacketFrames(n) <= n /\ PacketFrames(n) \in Nominal - 1 .. Nominal + 1
  BY <1>1, <1>2, CaptureNumbers DEF PacketFrames
<1> QED
  BY <1>3, <1>4 DEF n

(* No packet is short: the policy of usb_audio_rate_match.c and            *)
(* usb_audio_stream.c asks the capture ring for no more than it has and    *)
(* for at most one frame more or less than nominal, for every fill, rate   *)
(* of the external clock and lap of the ring.                              *)
THEOREM PacketsAreWhole == CaptureSpec => PacketFits
<1>1. CursorTypes /\ [CaptureNext]_captureVars
        => [due /\ ~due' /\ IsAudio =>
              Asked <= Available /\ Asked \in Nominal - 1 .. Nominal + 1]_captureVars
  BY PolicyFits
<1> QED
  BY CursorTypesInit, CursorTypesStep, <1>1, PTL DEF CaptureSpec, PacketFits

-----------------------------------------------------------------------------
(* The MIDI ring between the cores: MidiIngress. *)

Packet == [id : Nat, kind : AllKinds, round : Nat]
ReaderPcs == {"poll", "check", "push", "publish"}
LoopPcs == {"loop", "taken", "panic"}
DroppingPcs == {"reset", "discard again", "discarding again", "resume"}
PanicPcs == {"discard", "discarding"} \union DroppingPcs

IngressTypeOK ==
  /\ usb \in Seq(Packet) /\ packets \in [Slots -> Packet] /\ fifo \in Seq(Packet)
  /\ write_count \in 0 .. (CountMod - 1) /\ read_count \in 0 .. (CountMod - 1)
  /\ panic_active \in BOOLEAN /\ halted \in BOOLEAN /\ ready \in BOOLEAN
  /\ reader.pc \in ReaderPcs /\ reader.packet \in Packet
  /\ reader = [pc |-> reader.pc, packet |-> reader.packet]
  /\ control \in [pc : LoopPcs \union PanicPcs, packet : Packet, upto : 0 .. (CountMod - 1),
                  dropped : Nat, origin : {"uart", "sysex"}]
  /\ sent \in Nat /\ dispatched \in Nat /\ discards \in Nat /\ panics \in Nat /\ crossed \in Nat

(* The producer's side of the ring: there is room from the look at the     *)
(* depth until the packet is published, since only the producer fills it.  *)
ProducerInv ==
  /\ QueueDepth <= Capacity
  /\ reader.pc # "poll" => QueueDepth < Capacity
  /\ reader.pc = "publish" => packets[write_count % Capacity] = reader.packet

(* The consumer's side: what it takes is there, what it discards is there, *)
(* and what a panic dropped is counted once.                               *)
ConsumerInv ==
  /\ control.pc = "taken" => fifo # << >>
  /\ control.pc \in {"discarding", "discarding again"} =>
       (control.upto - read_count) % CountMod <= QueueDepth
  /\ control.pc \notin DroppingPcs => control.dropped = 0

QueueInv == IngressTypeOK /\ ProducerInv /\ ConsumerInv /\ EveryPacketAccounted

-----------------------------------------------------------------------------
Old(packet) == packet.round < panics
ReaderOld == reader.pc # "poll" /\ Old(reader.packet)
InFlight == reader.pc \in {"push", "publish"}

(* While a panic runs, ingress is blocked and nothing has crossed; outside *)
(* one the flag says whether the last one failed.  A packet past the check *)
(* of the flag was read before the panic.                                  *)
BlockedInv ==
  /\ reader.packet.round <= panics
  /\ control.pc \in PanicPcs => panic_active /\ halted /\ crossed = 0
  /\ control.pc \in LoopPcs => panic_active = halted
  /\ panic_active /\ InFlight => Old(reader.packet)

(* After the second discard at most the packet core 0 held is left. *)
DrainedInv ==
  /\ control.pc = "discarding again" =>
       /\ (write_count - control.upto) % CountMod <= 1
       /\ ReaderOld => write_count = control.upto
  /\ control.pc = "resume" => Len(fifo) <= 1 /\ (ReaderOld => fifo = << >>)

(* With the flag up nothing new enters; with it down, a packet from before *)
(* the panic is the first of the ring or still in core 0's hand.           *)
CrossingInv ==
  control.pc \in LoopPcs =>
    IF halted
    THEN crossed + Len(fifo) <= 1 /\ (InFlight => crossed = 0 /\ fifo = << >>)
    ELSE /\ crossed <= 1
         /\ ReaderOld => crossed = 0 /\ fifo = << >>
         /\ \A i \in 1 .. Len(fifo) : Old(fifo[i]) => i = 1 /\ crossed = 0

PanicInv == BlockedInv /\ DrainedInv /\ CrossingInv

-----------------------------------------------------------------------------
(* The constants as numbers. *)
LEMMA IngressNumbers ==
  /\ Capacity \in Nat /\ Capacity > 0 /\ CountMod \in Nat /\ CountMod > 0 /\ CountMod > 1
  /\ Capacity < CountMod /\ CountMod % Capacity = 0
  /\ Slots = 0 .. (Capacity - 1) /\ Kinds \subseteq AllKinds
BY IngressAssumption DEF Slots

(* The ring in the terms of the lemmas about rings. *)
LEMMA RingView ==
  ASSUME IngressTypeOK
  PROVE  /\ read_count \in Nat /\ write_count \in Nat
         /\ QueueDepth = Gap(read_count, write_count, CountMod)
         /\ QueueDepth \in Nat /\ QueueDepth < CountMod
         /\ IsRing(packets, Capacity, Packet)
         /\ Queued = RingSeq(packets, read_count, QueueDepth, Capacity)
         /\ Queued \in Seq(Packet) /\ Len(Queued) = QueueDepth
<1>1. read_count \in Nat /\ write_count \in Nat /\ read_count \in Int /\ write_count \in Int
  BY IngressNumbers DEF IngressTypeOK
<1>2. QueueDepth = Gap(read_count, write_count, CountMod)
  BY DEF QueueDepth, Gap
<1>3. QueueDepth \in Nat /\ QueueDepth < CountMod
  <2>1. Gap(read_count, write_count, CountMod) \in 0 .. (CountMod - 1)
    BY <1>1, IngressNumbers, GapProperties
  <2> QED
    BY <1>2, <2>1, IngressNumbers
<1>4. IsRing(packets, Capacity, Packet)
  BY IngressNumbers DEF IngressTypeOK, IsRing
<1>5. Queued = RingSeq(packets, read_count, QueueDepth, Capacity)
  BY DEF Queued, RingSeq
<1>6. Queued \in Seq(Packet) /\ Len(Queued) = QueueDepth
  BY <1>1, <1>3, <1>4, <1>5, RingSeqType
<1> QED
  BY <1>1, <1>2, <1>3, <1>4, <1>5, <1>6

(* What the history variable is worth. *)
LEMMA FifoLength ==
  ASSUME QueueInv
  PROVE  Len(fifo) = QueueDepth /\ fifo \in Seq(Packet) /\ Queued = fifo
BY RingView DEF QueueInv, EveryPacketAccounted, IngressTypeOK

(* The same in the next state. *)
LEMMA FifoLengthNext == QueueInv' => (Len(fifo) = QueueDepth /\ fifo \in Seq(Packet))'
<1>1. QueueInv => Len(fifo) = QueueDepth /\ fifo \in Seq(Packet)
  BY FifoLength
<1> QED
  BY <1>1, PTL

(* Steps that leave the counters and the slots alone. *)
LEMMA QueueKept ==
  ASSUME UNCHANGED queueVars
  PROVE  /\ QueueDepth' = QueueDepth /\ Queued' = Queued
         /\ UNCHANGED <<packets, write_count, read_count, fifo>>
BY DEF queueVars, QueueDepth, Queued

(* The invariant holds at power-up. *)
LEMMA QueueInvInit == IngressInit => QueueInv
<1> SUFFICES ASSUME IngressInit PROVE QueueInv
  OBVIOUS
<1>1. NoPacket \in Packet
  BY DEF NoPacket, Packet, AllKinds
<1>2. IngressTypeOK
  <2>1. Idle \in [pc : LoopPcs \union PanicPcs, packet : Packet, upto : 0 .. (CountMod - 1),
                  dropped : Nat, origin : {"uart", "sysex"}]
    BY <1>1, IngressNumbers DEF Idle, LoopPcs
  <2>2. Polling.pc \in ReaderPcs /\ Polling.packet \in Packet
        /\ Polling = [pc |-> Polling.pc, packet |-> Polling.packet]
    BY <1>1 DEF Polling, ReaderPcs
  <2>3. usb \in Seq(Packet) /\ packets \in [Slots -> Packet] /\ fifo \in Seq(Packet)
    BY <1>1 DEF IngressInit
  <2>4. write_count \in 0 .. (CountMod - 1) /\ read_count \in 0 .. (CountMod - 1)
    BY IngressNumbers DEF IngressInit
  <2> QED
    BY <2>1, <2>2, <2>3, <2>4 DEF IngressInit, IngressTypeOK
<1>3. QueueDepth = 0
  BY IngressNumbers, GapNone DEF IngressInit, QueueDepth, Gap
<1>4. ProducerInv
  BY <1>3, IngressNumbers DEF ProducerInv, IngressInit, Polling
<1>5. ConsumerInv
  BY DEF ConsumerInv, IngressInit, Idle, DroppingPcs
<1>6. EveryPacketAccounted
  <2>1. Queued = fifo
    BY <1>2, <1>3, RingView DEF IngressInit
  <2> QED
    BY <1>3, <2>1 DEF EveryPacketAccounted, IngressInit, Polling, Idle
<1> QED
  BY <1>2, <1>4, <1>5, <1>6 DEF QueueInv

-----------------------------------------------------------------------------
(* Core 0. *)

(* The host's packet joins the USB stack's. *)
LEMMA HostSendsKeeps ==
  ASSUME QueueInv, NEW k \in Kinds, HostSends(k)
  PROVE  QueueInv'
<1> DEFINE p == [id |-> sent', kind |-> k, round |-> 0]
<1>1. UNCHANGED <<queueVars, panic_active, discards, reader, control, ready, dispatched, panics,
                  halted, crossed>>
      /\ sent' = sent + 1 /\ usb' = Append(usb, p)
  BY DEF HostSends
<1>2. QueueDepth' = QueueDepth /\ Queued' = Queued
      /\ UNCHANGED <<packets, write_count, read_count, fifo>>
  BY <1>1, QueueKept
<1>3. p \in Packet /\ sent \in Nat /\ usb \in Seq(Packet)
  <2>1. sent \in Nat /\ usb \in Seq(Packet)
    BY DEF QueueInv, IngressTypeOK
  <2>2. sent' \in Nat /\ k \in AllKinds
    BY <1>1, <2>1, IngressNumbers
  <2> QED
    BY <2>1, <2>2 DEF Packet
<1>4. Append(usb, p) \in Seq(Packet) /\ Len(Append(usb, p)) = Len(usb) + 1 /\ Len(usb) \in Nat
  BY <1>3
<1>5. IngressTypeOK'
  BY <1>1, <1>2, <1>3, <1>4 DEF QueueInv, IngressTypeOK
<1>6. ProducerInv' /\ ConsumerInv'
  BY <1>1, <1>2 DEF QueueInv, ProducerInv, ConsumerInv
<1>7. EveryPacketAccounted'
  <2>1. QueueDepth \in Nat /\ control.dropped \in Nat /\ dispatched \in Nat /\ discards \in Nat
    BY RingView DEF QueueInv, IngressTypeOK
  <2> QED
    BY <1>1, <1>2, <1>3, <1>4, <2>1 DEF QueueInv, EveryPacketAccounted
<1> QED
  BY <1>5, <1>6, <1>7 DEF QueueInv

(* Core 0 takes one packet from the stack when the ring has room. *)
LEMMA ReadPacketKeeps ==
  ASSUME QueueInv, ReadPacket
  PROVE  QueueInv'
<1> DEFINE p == [Head(usb) EXCEPT !.round = panics]
<1>1. /\ UNCHANGED <<queueVars, panic_active, discards, control, ready, sent, dispatched, panics,
                     halted, crossed>>
      /\ reader.pc = "poll" /\ usb # << >> /\ QueueDepth # Capacity
      /\ usb' = Tail(usb) /\ reader' = [pc |-> "check", packet |-> p]
  BY DEF ReadPacket, QueueFull
<1>2. QueueDepth' = QueueDepth /\ Queued' = Queued
      /\ UNCHANGED <<packets, write_count, read_count, fifo>>
  BY <1>1, QueueKept
<1>3. Tail(usb) \in Seq(Packet) /\ Len(Tail(usb)) = Len(usb) - 1 /\ Len(usb) \in Nat
      /\ Head(usb) \in Packet
  BY <1>1, ST!HeadTailProperties DEF QueueInv, IngressTypeOK
<1>4. p \in Packet
  BY <1>3 DEF Packet, QueueInv, IngressTypeOK
<1> HIDE DEF p
<1>5. reader'.pc = "check" /\ reader'.packet = p
      /\ reader' = [pc |-> reader'.pc, packet |-> reader'.packet]
  BY <1>1
<1>6. IngressTypeOK'
  BY <1>1, <1>2, <1>3, <1>4, <1>5 DEF QueueInv, IngressTypeOK, ReaderPcs
<1>7. ProducerInv'
  <2>1. QueueDepth \in Nat /\ QueueDepth <= Capacity
    BY RingView DEF QueueInv, ProducerInv
  <2> QED
    BY <1>1, <1>2, <1>5, <2>1, IngressNumbers DEF ProducerInv
<1>8. ConsumerInv'
  BY <1>1, <1>2 DEF QueueInv, ConsumerInv
<1>9. EveryPacketAccounted'
  <2>1. QueueDepth \in Nat /\ control.dropped \in Nat /\ dispatched \in Nat /\ discards \in Nat
    BY RingView DEF QueueInv, IngressTypeOK
  <2> QED
    BY <1>1, <1>2, <1>3, <1>5, <2>1 DEF QueueInv, EveryPacketAccounted
<1> QED
  BY <1>6, <1>7, <1>8, <1>9 DEF QueueInv

(* The packet is discarded under a panic, or goes on. *)
LEMMA CheckPanicKeeps ==
  ASSUME QueueInv, CheckPanic
  PROVE  QueueInv'
<1>1. /\ UNCHANGED <<queueVars, usb, panic_active, control, ready, sent, dispatched, panics,
                     halted, crossed>>
      /\ reader.pc = "check"
  BY DEF CheckPanic
<1>2. QueueDepth' = QueueDepth /\ Queued' = Queued
      /\ UNCHANGED <<packets, write_count, read_count, fifo>>
  BY <1>1, QueueKept
<1>3. QueueDepth \in Nat /\ control.dropped \in Nat /\ dispatched \in Nat /\ discards \in Nat
      /\ Len(usb) \in Nat
  BY RingView DEF QueueInv, IngressTypeOK
<1>4. ConsumerInv'
  BY <1>1, <1>2 DEF QueueInv, ConsumerInv
<1>5. CASE panic_active
  <2>1. reader' = Polling /\ discards' = discards + 1
    BY <1>5 DEF CheckPanic
  <2>2. reader'.pc = "poll" /\ reader'.packet \in Packet
        /\ reader' = [pc |-> reader'.pc, packet |-> reader'.packet]
    BY <2>1 DEF Polling, NoPacket, Packet, AllKinds
  <2>3. IngressTypeOK'
    BY <1>1, <1>2, <1>3, <2>1, <2>2 DEF QueueInv, IngressTypeOK, ReaderPcs
  <2>4. ProducerInv'
    BY <1>2, <2>2 DEF QueueInv, ProducerInv
  <2>5. EveryPacketAccounted'
    BY <1>1, <1>2, <1>3, <2>1, <2>2 DEF QueueInv, EveryPacketAccounted
  <2> QED
    BY <1>4, <2>3, <2>4, <2>5 DEF QueueInv
<1>6. CASE ~panic_active
  <2>1. reader' = [reader EXCEPT !.pc = "push"] /\ discards' = discards
    BY <1>6 DEF CheckPanic
  <2>2. reader'.pc = "push" /\ reader'.packet = reader.packet
        /\ reader' = [pc |-> reader'.pc, packet |-> reader'.packet]
    BY <2>1 DEF QueueInv, IngressTypeOK
  <2>3. IngressTypeOK'
    BY <1>1, <1>2, <2>1, <2>2 DEF QueueInv, IngressTypeOK, ReaderPcs
  <2>4. ProducerInv'
    BY <1>1, <1>2, <2>2 DEF QueueInv, ProducerInv
  <2>5. EveryPacketAccounted'
    BY <1>1, <1>2, <2>1, <2>2 DEF QueueInv, EveryPacketAccounted
  <2> QED
    BY <1>4, <2>3, <2>4, <2>5 DEF QueueInv
<1> QED
  BY <1>5, <1>6

(* The slot behind the last packet. *)
LEMMA SlotBehind ==
  ASSUME IngressTypeOK
  PROVE  (read_count + QueueDepth) % Capacity = write_count % Capacity
         /\ write_count % Capacity \in Slots
<1>1. read_count \in Int /\ write_count \in Int
  BY IngressNumbers DEF IngressTypeOK
<1>2. (read_count + Gap(read_count, write_count, CountMod)) % Capacity = write_count % Capacity
  BY <1>1, IngressNumbers, GapSlot
<1>3. write_count % Capacity \in 0 .. (Capacity - 1)
  BY <1>1, IngressNumbers, DivMod
<1> QED
  BY <1>2, <1>3, RingView, IngressNumbers

(* The store goes to a slot outside the queue. *)
LEMMA PushKeeps ==
  ASSUME QueueInv, Push
  PROVE  QueueInv'
<1>1. /\ UNCHANGED <<usb, write_count, read_count, fifo, panic_active, discards, control, ready,
                     sent, dispatched, panics, halted, crossed>>
      /\ reader.pc = "push"
  BY DEF Push, StorePacket
<1>2. IngressTypeOK /\ QueueDepth \in Nat /\ QueueDepth < Capacity /\ read_count \in Nat
      /\ IsRing(packets, Capacity, Packet)
  BY <1>1, RingView DEF QueueInv, ProducerInv
<1>3. ~QueueFull
  BY <1>2, IngressNumbers DEF QueueFull
<1>4. /\ reader' = [reader EXCEPT !.pc = "publish"]
      /\ packets' = [packets EXCEPT ![write_count % Capacity] = reader.packet]
  BY <1>3 DEF Push, StorePacket
<1>5. reader'.pc = "publish" /\ reader'.packet = reader.packet /\ reader.packet \in Packet
      /\ reader' = [pc |-> reader'.pc, packet |-> reader'.packet]
  BY <1>4 DEF QueueInv, IngressTypeOK
<1>6. packets' \in [Slots -> Packet] /\ packets'[write_count % Capacity] = reader.packet
  BY <1>2, <1>4, <1>5, SlotBehind DEF IngressTypeOK
<1>7. QueueDepth' = QueueDepth
  BY <1>1 DEF QueueDepth
<1>8. IngressTypeOK'
  BY <1>1, <1>5, <1>6 DEF QueueInv, IngressTypeOK, ReaderPcs
<1>9. ProducerInv'
  BY <1>1, <1>2, <1>5, <1>6, <1>7 DEF QueueInv, ProducerInv
<1>10. ConsumerInv'
  BY <1>1, <1>7 DEF QueueInv, ConsumerInv
<1>11. Queued' = Queued
  <2>1. Stores(packets, packets', Capacity, read_count, QueueDepth, QueueDepth + 1, reader.packet)
    BY <1>2, <1>4, SlotBehind DEF Stores
  <2>2. RingSeq(packets', read_count, QueueDepth, Capacity)
          = RingSeq(packets, read_count, QueueDepth, Capacity)
    BY <1>2, <1>5, <2>1, RingStoreUnseen
  <2>3. Queued' = RingSeq(packets', read_count, QueueDepth, Capacity)
    BY <1>1, <1>7 DEF Queued, RingSeq
  <2> QED
    BY <1>2, <2>2, <2>3, RingView
<1>12. EveryPacketAccounted'
  BY <1>1, <1>5, <1>7, <1>11 DEF QueueInv, EveryPacketAccounted
<1> QED
  BY <1>8, <1>9, <1>10, <1>12 DEF QueueInv

(* The store of the count makes the packet the last of the queue. *)
LEMMA PublishKeeps ==
  ASSUME QueueInv, Publish
  PROVE  QueueInv'
<1>1. /\ UNCHANGED <<usb, packets, read_count, panic_active, discards, control, ready, sent,
                     dispatched, panics, halted, crossed>>
      /\ reader.pc = "publish" /\ reader' = Polling
      /\ write_count' = (write_count + 1) % CountMod /\ fifo' = Append(fifo, reader.packet)
  BY DEF Publish
<1>2. /\ IngressTypeOK /\ QueueDepth \in Nat /\ QueueDepth < Capacity
      /\ packets[write_count % Capacity] = reader.packet /\ reader.packet \in Packet
      /\ IsRing(packets, Capacity, Packet) /\ read_count \in Nat /\ write_count \in Nat
      /\ QueueDepth = Gap(read_count, write_count, CountMod)
  BY <1>1, RingView DEF QueueInv, ProducerInv, IngressTypeOK
<1>3. Gap(write_count, write_count', CountMod) = 1 /\ write_count' \in 0 .. (CountMod - 1)
  <2>1. write_count \in Int /\ CountMod \in Nat /\ CountMod > 1
    BY <1>2, IngressNumbers
  <2>2. /\ Gap(write_count, (write_count + 1) % CountMod, CountMod) = 1
        /\ (write_count + 1) % CountMod \in 0 .. (CountMod - 1)
    BY <2>1, GapOne, Zenon
  <2> QED
    BY <1>1, <2>2
<1>4. QueueDepth' = QueueDepth + 1
  <2>1. QueueDepth' = Gap(read_count, write_count', CountMod)
    BY <1>1 DEF QueueDepth, Gap
  <2>2. /\ Gap(read_count, write_count, CountMod) + Gap(write_count, write_count', CountMod) < CountMod
        /\ read_count \in Int /\ write_count \in Int /\ write_count' \in Int
    BY <1>2, <1>3, IngressNumbers
  <2>3. Gap(read_count, write_count', CountMod)
          = Gap(read_count, write_count, CountMod) + Gap(write_count, write_count', CountMod)
    BY <2>2, IngressNumbers, GapSum
  <2> QED
    BY <1>2, <1>3, <2>1, <2>3
<1>5. reader'.pc = "poll" /\ reader'.packet \in Packet
      /\ reader' = [pc |-> reader'.pc, packet |-> reader'.packet]
  BY <1>1 DEF Polling, NoPacket, Packet, AllKinds
<1>6. fifo' \in Seq(Packet) /\ fifo' # << >> /\ Len(fifo) \in Nat
      /\ (fifo # << >> => Head(fifo') = Head(fifo))
  <2>1. fifo \in Seq(Packet)
    BY <1>2 DEF IngressTypeOK
  <2> QED
    BY <1>1, <1>2, <2>1, ST!AppendProperties, ST!HeadTailAppend
<1>7. IngressTypeOK'
  BY <1>1, <1>3, <1>5, <1>6 DEF QueueInv, IngressTypeOK, ReaderPcs
<1>8. ProducerInv'
  BY <1>2, <1>4, <1>5, IngressNumbers DEF ProducerInv
<1>9. ConsumerInv'
  <2> DEFINE k == (control.upto - read_count) % CountMod
             waits == control.pc \in {"discarding", "discarding again"}
  <2>1. k \in Int
    <3>1. control.upto - read_count \in Int
      BY <1>2 DEF IngressTypeOK
    <3>2. k \in 0 .. (CountMod - 1)
      BY <3>1, IngressNumbers, DivMod
    <3> QED
      BY <3>2, IngressNumbers
  <2>2. /\ waits => k <= QueueDepth
        /\ control.pc \notin DroppingPcs => control.dropped = 0
    BY DEF QueueInv, ConsumerInv
  <2>3. waits' = waits /\ k' = k /\ control' = control
    BY <1>1
  <2> HIDE DEF k, waits
  <2>4. waits => k <= QueueDepth'
    BY <1>2, <1>4, <2>1, <2>2
  <2> QED
    BY <1>6, <2>2, <2>3, <2>4 DEF ConsumerInv, k, waits
<1>10. Queued' = fifo'
  <2>1. packets[(read_count + QueueDepth) % Capacity] = reader.packet
    BY <1>2, SlotBehind
  <2>2. RingSeq(packets, read_count, QueueDepth', Capacity)
          = Append(RingSeq(packets, read_count, QueueDepth, Capacity), reader.packet)
    BY <1>2, <1>4, <2>1, RingPublish
  <2>3. Queued' = RingSeq(packets, read_count, QueueDepth', Capacity)
    BY <1>1 DEF Queued, RingSeq
  <2>4. fifo = RingSeq(packets, read_count, QueueDepth, Capacity)
    BY <1>2, RingView DEF QueueInv, EveryPacketAccounted
  <2> QED
    BY <1>1, <2>2, <2>3, <2>4
<1>11. EveryPacketAccounted'
  <2>1. control.dropped \in Nat /\ dispatched \in Nat /\ discards \in Nat /\ Len(usb) \in Nat
    BY <1>2 DEF IngressTypeOK
  <2>2. control.pc = "taken" => fifo # << >>
    BY DEF QueueInv, ConsumerInv
  <2> QED
    BY <1>1, <1>2, <1>4, <1>5, <1>6, <1>10, <2>1, <2>2, SMTT(60) DEF QueueInv, EveryPacketAccounted
<1> QED
  BY <1>7, <1>8, <1>9, <1>11 DEF QueueInv

-----------------------------------------------------------------------------
(* Core 1. *)

ControlType ==
  [pc : LoopPcs \union PanicPcs, packet : Packet, upto : 0 .. (CountMod - 1),
   dropped : Nat, origin : {"uart", "sysex"}]

(* The record core 1 starts every round of its loop with. *)
LEMMA IdleControl ==
  /\ Idle \in ControlType /\ Idle.pc = "loop" /\ Idle.dropped = 0
  /\ [Idle EXCEPT !.pc = "panic"] \in ControlType
  /\ [Idle EXCEPT !.pc = "panic", !.origin = "sysex"] \in ControlType
<1>1. NoPacket \in Packet
  BY DEF NoPacket, Packet, AllKinds
<1>2. Idle \in ControlType /\ Idle.pc = "loop" /\ Idle.dropped = 0
  BY <1>1, IngressNumbers DEF Idle, ControlType, LoopPcs
<1>3. "panic" \in LoopPcs
  BY DEF LoopPcs
<1>4. [Idle EXCEPT !.pc = "panic"] \in ControlType
  BY <1>2, <1>3 DEF ControlType
<1>5. [Idle EXCEPT !.pc = "panic", !.origin = "sysex"] \in ControlType
  BY <1>2, <1>3 DEF ControlType
<1> QED
  BY <1>2, <1>4, <1>5

(* Steps of core 1 that leave the ring alone: what remains is to see that  *)
(* the numbers and the packet in its hand are right.                       *)
LEMMA ControlStepKeeps ==
  ASSUME QueueInv, UNCHANGED <<queueVars, usb, reader, sent, dispatched>>,
         control' \in ControlType, discards' \in Nat, panics' \in Nat, crossed' \in Nat,
         panic_active' \in BOOLEAN, halted' \in BOOLEAN, ready' \in BOOLEAN,
         discards' + control'.dropped = discards + control.dropped,
         ConsumerInv', control'.pc = "taken" => control'.packet = Head(fifo)
  PROVE  QueueInv'
<1>1. QueueDepth' = QueueDepth /\ Queued' = Queued
      /\ UNCHANGED <<packets, write_count, read_count, fifo, usb, reader, sent, dispatched>>
  BY QueueKept
<1>2. IngressTypeOK'
  BY <1>1 DEF QueueInv, IngressTypeOK, ControlType
<1>3. ProducerInv'
  BY <1>1 DEF QueueInv, ProducerInv
<1>4. EveryPacketAccounted'
  <2>1. /\ QueueDepth \in Nat /\ control.dropped \in Nat /\ dispatched \in Nat
        /\ discards \in Nat /\ Len(usb) \in Nat /\ control'.dropped \in Nat
    BY RingView, SMTT(60) DEF QueueInv, IngressTypeOK, ControlType
  <2> DEFINE u == Len(usb) + (IF reader.pc = "poll" THEN 0 ELSE 1) + QueueDepth + dispatched
  <2>2. u \in Nat /\ sent = u + discards + control.dropped
    BY <2>1 DEF QueueInv, EveryPacketAccounted
  <2>3. u' = u
    BY <1>1
  <2>4. sent = u + discards' + control'.dropped
    <3> DEFINE b == discards
               c == control.dropped
               d == discards'
               e == control'.dropped
    <3>1. /\ u \in Nat /\ b \in Nat /\ c \in Nat /\ d \in Nat /\ e \in Nat
          /\ sent = u + b + c /\ d + e = b + c
      BY <2>1, <2>2
    <3> HIDE DEF u, b, c, d, e
    <3>2. sent = u + d + e
      BY <3>1
    <3> QED
      BY <3>2 DEF d, e
  <2> QED
    BY <1>1, <2>3, <2>4 DEF QueueInv, EveryPacketAccounted
<1> QED
  BY <1>2, <1>3, <1>4 DEF QueueInv

(* The types core 1's steps rely on. *)
LEMMA ControlTypes ==
  ASSUME QueueInv
  PROVE  /\ control \in ControlType /\ discards \in Nat /\ panics \in Nat /\ crossed \in Nat
         /\ panic_active \in BOOLEAN /\ halted \in BOOLEAN /\ ready \in BOOLEAN
         /\ control.dropped \in Nat /\ control.packet \in Packet
BY DEF QueueInv, IngressTypeOK, ControlType

(* The oldest packet is copied out of its slot. *)
LEMMA TakePacketKeeps ==
  ASSUME QueueInv, TakePacket
  PROVE  QueueInv'
<1>1. /\ UNCHANGED <<queueVars, usb, reader, sent, dispatched, discards, panics, crossed,
                     panic_active, halted, ready>>
      /\ control.pc = "loop" /\ QueueDepth # 0
      /\ control' = [control EXCEPT !.pc = "taken", !.packet = packets[read_count % Capacity]]
  BY DEF TakePacket
<1>2. /\ IngressTypeOK /\ QueueDepth \in Nat /\ Len(fifo) = QueueDepth /\ fifo \in Seq(Packet)
      /\ Queued = fifo /\ read_count \in Nat
  BY RingView, FifoLength DEF QueueInv
<1>3. fifo # << >> /\ Head(fifo) = fifo[1]
  BY <1>1, <1>2
<1>4. fifo[1] = packets[read_count % Capacity]
  <2>1. 1 \in 1 .. QueueDepth /\ read_count + 1 - 1 = read_count
    BY <1>1, <1>2
  <2>2. Queued[1] = packets[(read_count + 1 - 1) % Capacity]
    BY <2>1 DEF Queued
  <2> QED
    BY <1>2, <2>1, <2>2
<1>5. Head(fifo) \in Packet
  BY <1>2, <1>3
<1>6. /\ control' \in ControlType /\ control'.pc = "taken" /\ control'.packet = Head(fifo)
      /\ control'.dropped = control.dropped
  BY <1>1, <1>3, <1>4, <1>5, ControlTypes DEF ControlType, LoopPcs
<1>7. ConsumerInv'
  <2>1. control.dropped = 0
    BY <1>1 DEF QueueInv, ConsumerInv, DroppingPcs
  <2>2. fifo' = fifo
    BY <1>1 DEF queueVars
  <2> QED
    BY <1>3, <1>6, <2>1, <2>2 DEF ConsumerInv
<1> QED
  BY <1>1, <1>6, <1>7, ControlTypes, ControlStepKeeps

(* A panic is asked for, by the UART. *)
LEMMA UartPanicKeeps ==
  ASSUME QueueInv, UartPanic
  PROVE  QueueInv'
<1>1. /\ UNCHANGED <<queueVars, usb, reader, sent, dispatched, discards, panics, crossed,
                     panic_active, halted, ready>>
      /\ control.pc = "loop" /\ control' = [Idle EXCEPT !.pc = "panic"]
  BY DEF UartPanic
<1>2. control'.pc = "panic" /\ control'.dropped = 0
  BY <1>1 DEF Idle
<1>3. control.dropped = 0
  BY <1>1 DEF QueueInv, ConsumerInv, DroppingPcs
<1>4. ConsumerInv'
  BY <1>2 DEF ConsumerInv
<1> QED
  BY <1>1, <1>2, <1>3, <1>4, ControlTypes, IdleControl, ControlStepKeeps

(* It begins. *)
LEMMA BeginPanicKeeps ==
  ASSUME QueueInv, BeginPanic
  PROVE  QueueInv'
<1>1. /\ UNCHANGED <<queueVars, usb, reader, sent, dispatched, discards, ready>>
      /\ control.pc = "panic" /\ control' = [control EXCEPT !.pc = "discard"]
      /\ panics' = panics + 1 /\ crossed' = 0 /\ panic_active' = TRUE /\ halted' = TRUE
  BY DEF BeginPanic
<1>2. control'.pc = "discard" /\ control'.dropped = control.dropped /\ control' \in ControlType
  BY <1>1, ControlTypes DEF ControlType, PanicPcs
<1>3. control.dropped = 0
  BY <1>1 DEF QueueInv, ConsumerInv, DroppingPcs
<1>4. ConsumerInv'
  BY <1>2, <1>3 DEF ConsumerInv
<1>5. panics' \in Nat /\ crossed' \in Nat /\ panic_active' \in BOOLEAN /\ halted' \in BOOLEAN
  BY <1>1, ControlTypes
<1> QED
  BY <1>1, <1>2, <1>4, <1>5, ControlTypes, ControlStepKeeps

(* It looks at the producer's count. *)
LEMMA DiscardLoadKeeps ==
  ASSUME QueueInv, DiscardLoad
  PROVE  QueueInv'
<1>1. /\ UNCHANGED <<queueVars, usb, reader, sent, dispatched, discards, ready, panics, crossed,
                     panic_active, halted>>
      /\ control.pc \in {"discard", "discard again"}
      /\ control' = [control EXCEPT !.upto = write_count,
                       !.pc = IF @ = "discard" THEN "discarding" ELSE "discarding again"]
  BY DEF DiscardLoad
<1>2. /\ control'.pc = (IF control.pc = "discard" THEN "discarding" ELSE "discarding again")
      /\ control'.dropped = control.dropped /\ control'.upto = write_count
      /\ control' \in ControlType
  <2>1. write_count \in 0 .. (CountMod - 1)
    BY DEF QueueInv, IngressTypeOK
  <2> QED
    BY <1>1, <2>1, ControlTypes DEF ControlType, PanicPcs, DroppingPcs
<1>3. ConsumerInv'
  <2>1. UNCHANGED <<read_count, write_count>> /\ QueueDepth' = QueueDepth
    BY <1>1, QueueKept
  <2>2. (control'.upto - read_count') % CountMod <= QueueDepth'
    <3>1. (control'.upto - read_count') % CountMod = QueueDepth'
      BY <1>2, <2>1 DEF QueueDepth
    <3>2. QueueDepth' \in Nat
      BY <2>1, RingView DEF QueueInv
    <3> QED
      BY <3>1, <3>2
  <2>3. control'.pc \notin DroppingPcs => control'.dropped = 0
    BY <1>1, <1>2 DEF QueueInv, ConsumerInv, DroppingPcs
  <2> QED
    BY <1>2, <2>2, <2>3 DEF ConsumerInv
<1>4. discards' = discards /\ control'.dropped = control.dropped
  BY <1>1, <1>2
<1>5. control'.pc # "taken"
  <2>1. control'.pc \in {"discarding", "discarding again"}
    BY <1>2
  <2> QED
    BY <2>1
<1> QED
  BY <1>1, <1>2, <1>3, <1>4, <1>5, ControlTypes, ControlStepKeeps

(* The session is reset. *)
LEMMA ResetSessionKeeps ==
  ASSUME QueueInv, ResetSession
  PROVE  QueueInv'
<1>1. /\ UNCHANGED <<queueVars, usb, reader, sent, dispatched, discards, panics, crossed,
                     panic_active, halted>>
      /\ control.pc = "reset" /\ control' = [control EXCEPT !.pc = "discard again"]
      /\ ready' \in BOOLEAN
  BY DEF ResetSession
<1>2. control'.pc = "discard again" /\ control'.dropped = control.dropped /\ control' \in ControlType
  BY <1>1, ControlTypes DEF ControlType, PanicPcs, DroppingPcs
<1>3. ConsumerInv'
  BY <1>2 DEF ConsumerInv, DroppingPcs
<1>4. discards' + control'.dropped = discards + control.dropped
  BY <1>1, <1>2
<1>5. control'.pc # "taken"
  BY <1>2
<1>6. discards' \in Nat /\ panics' \in Nat /\ crossed' \in Nat
      /\ panic_active' \in BOOLEAN /\ halted' \in BOOLEAN /\ ready' \in BOOLEAN
  BY <1>1, ControlTypes
<1> QED
  BY <1>1, <1>2, <1>3, <1>4, <1>5, <1>6, ControlStepKeeps

(* The panic ends, and what it dropped is counted. *)
LEMMA ResumeKeeps ==
  ASSUME QueueInv, ResumeIngress
  PROVE  QueueInv'
<1>1. /\ UNCHANGED <<queueVars, usb, reader, sent, dispatched, panics, crossed, ready>>
      /\ control.pc = "resume" /\ control' = Idle /\ discards' = discards + control.dropped
      /\ panic_active' = ~ready /\ halted' = ~ready
  BY DEF ResumeIngress, Resumed
<1>2. ConsumerInv'
  BY <1>1, IdleControl DEF ConsumerInv
<1>3. discards' \in Nat /\ discards' + control'.dropped = discards + control.dropped
      /\ control'.pc = "loop"
  BY <1>1, ControlTypes, IdleControl
<1>4. panic_active' \in BOOLEAN /\ halted' \in BOOLEAN
  BY <1>1
<1> QED
  BY <1>1, <1>2, <1>3, <1>4, ControlTypes, IdleControl, ControlStepKeeps

(* The session goes off line or comes back. *)
LEMMA MonitorKeeps ==
  ASSUME QueueInv, MonitorTransport
  PROVE  QueueInv'
<1>1. /\ UNCHANGED <<queueVars, usb, reader, control, sent, dispatched, discards, panics, crossed,
                     panic_active, halted>>
      /\ ready' = ~ready
  BY DEF MonitorTransport
<1>2. ConsumerInv'
  BY <1>1, QueueKept DEF QueueInv, ConsumerInv
<1>3. ready' \in BOOLEAN /\ (control'.pc = "taken" => control'.packet = Head(fifo))
  BY <1>1 DEF QueueInv, EveryPacketAccounted
<1> QED
  BY <1>1, <1>2, <1>3, ControlTypes, ControlStepKeeps

(* Moving the consumer's count to q, k packets on, leaves the rest. *)
LEMMA ConsumeCount ==
  ASSUME QueueInv, NEW q \in 0 .. (CountMod - 1), UNCHANGED <<packets, write_count>>,
         read_count' = q, Gap(read_count, q, CountMod) <= QueueDepth
  PROVE  LET k == Gap(read_count, q, CountMod) IN
         /\ k \in Nat /\ QueueDepth' \in Nat /\ QueueDepth' = QueueDepth - k
         /\ Queued' = SubSeq(fifo, k + 1, Len(fifo))
         /\ SubSeq(fifo, k + 1, Len(fifo)) \in Seq(Packet)
         /\ Len(SubSeq(fifo, k + 1, Len(fifo))) = QueueDepth - k
<1> DEFINE k == Gap(read_count, q, CountMod)
<1>1. /\ IngressTypeOK /\ read_count \in Nat /\ write_count \in Nat /\ q \in Nat
      /\ QueueDepth \in Nat /\ QueueDepth = Gap(read_count, write_count, CountMod)
      /\ IsRing(packets, Capacity, Packet)
      /\ fifo = RingSeq(packets, read_count, QueueDepth, Capacity)
      /\ Len(fifo) = QueueDepth /\ fifo \in Seq(Packet)
  BY RingView, FifoLength, IngressNumbers DEF QueueInv
<1>2. k \in Nat /\ k <= QueueDepth
  <2>1. Gap(read_count, q, CountMod) \in 0 .. (CountMod - 1)
    BY <1>1, IngressNumbers, GapProperties
  <2> QED
    BY <2>1, IngressNumbers
<1>3. QueueDepth' = QueueDepth - k
  <2>1. QueueDepth' = Gap(q, write_count, CountMod)
    BY DEF QueueDepth, Gap
  <2>2. Gap(q, write_count, CountMod)
          = Gap(read_count, write_count, CountMod) - Gap(read_count, q, CountMod)
    BY <1>1, IngressNumbers, GapRest
  <2> QED
    BY <1>1, <2>1, <2>2
<1>4. (read_count + k) % Capacity = q % Capacity
  BY <1>1, IngressNumbers, GapSlot
<1> DEFINE n == QueueDepth
           m == QueueDepth'
           b == k + 1
<1>5. k \in Nat /\ m \in Nat /\ n \in Nat /\ b \in Nat /\ m = n - k /\ k \in 0 .. n
  BY <1>1, <1>2, <1>3
<1> HIDE DEF k, n, m, b
<1>6. Passes(Capacity, read_count, q, n, m, k, b)
  BY <1>4, <1>5 DEF Passes, b
<1>7. RingSeq(packets, q, m, Capacity) = SubSeq(RingSeq(packets, read_count, n, Capacity), b, n)
  BY <1>1, <1>5, <1>6, RingDrop, SMTT(60)
<1>8. Queued' = RingSeq(packets, q, m, Capacity)
  BY DEF Queued, RingSeq, m
<1>9. SubSeq(fifo, k + 1, n) \in Seq(Packet) /\ Len(SubSeq(fifo, k + 1, n)) = n - k
  <2>1. Len(fifo) = n
    BY <1>1 DEF n
  <2> QED
    BY <1>1, <1>5, <2>1
<1>10. Queued' = SubSeq(fifo, k + 1, n)
  BY <1>1, <1>7, <1>8 DEF n, b
<1> QED
  BY <1>1, <1>3, <1>5, <1>9, <1>10 DEF k, n, m

(* The slot is freed and the packet dispatched or counted. *)
LEMMA ReleaseKeeps ==
  ASSUME QueueInv, ReleasePacket
  PROVE  QueueInv' /\ QueueDepth' = QueueDepth - 1 /\ fifo' = Tail(fifo) /\ fifo # << >>
<1>1. /\ UNCHANGED <<usb, packets, write_count, panic_active, reader, ready, sent, panics, halted>>
      /\ control.pc = "taken" /\ read_count' = (read_count + 1) % CountMod /\ fifo' = Tail(fifo)
  BY DEF ReleasePacket
<1>2. /\ IngressTypeOK /\ fifo # << >> /\ fifo \in Seq(Packet) /\ Len(fifo) = QueueDepth
      /\ QueueDepth \in Nat /\ read_count \in Nat /\ control.dropped = 0
  BY <1>1, RingView, FifoLength DEF QueueInv, ConsumerInv, DroppingPcs
<1>3. Gap(read_count, read_count', CountMod) = 1 /\ read_count' \in 0 .. (CountMod - 1)
  BY <1>1, <1>2, IngressNumbers, GapOne
<1>4. 1 <= QueueDepth
  BY <1>2
<1>5. /\ QueueDepth' \in Nat /\ QueueDepth' = QueueDepth - 1
      /\ Queued' = SubSeq(fifo, 1 + 1, Len(fifo))
  BY <1>1, <1>3, <1>4, ConsumeCount
<1>6. Queued' = fifo' /\ fifo' \in Seq(Packet)
  <2>1. Tail(fifo) = SubSeq(fifo, 2, Len(fifo)) /\ Tail(fifo) \in Seq(Packet)
    BY <1>2, ST!TailIsSubSeq, ST!HeadTailProperties
  <2> QED
    BY <1>1, <1>5, <2>1
<1>7. /\ control' \in ControlType /\ control'.dropped = 0 /\ control'.pc \in {"loop", "panic"}
      /\ discards' + dispatched' = discards + dispatched + 1
      /\ discards' \in Nat /\ dispatched' \in Nat /\ crossed' \in Nat
  <2>1. discards \in Nat /\ dispatched \in Nat /\ crossed \in Nat
    BY <1>2 DEF IngressTypeOK
  <2>2. CASE ~ready
    BY <2>1, <2>2, IdleControl DEF ReleasePacket
  <2>3. CASE ready
    <3>1. dispatched' = dispatched + 1 /\ discards' = discards
          /\ (crossed' = crossed \/ crossed' = crossed + 1)
          /\ \/ control' = Idle
             \/ control' = [Idle EXCEPT !.pc = "panic", !.origin = "sysex"]
      BY <2>3 DEF ReleasePacket
    <3>2. control' \in ControlType /\ control'.dropped = 0 /\ control'.pc \in {"loop", "panic"}
      <4>1. CASE control' = Idle
        BY <4>1, IdleControl
      <4>2. CASE control' = [Idle EXCEPT !.pc = "panic", !.origin = "sysex"]
        <5>1. control'.dropped = 0 /\ control'.pc = "panic"
          BY <4>2 DEF Idle
        <5> QED
          BY <4>2, <5>1, IdleControl
      <4> QED
        BY <3>1, <4>1, <4>2
    <3> QED
      BY <2>1, <3>1, <3>2
  <2> QED
    BY <1>2, <2>2, <2>3 DEF IngressTypeOK
<1>8. IngressTypeOK'
  BY <1>1, <1>2, <1>3, <1>6, <1>7 DEF IngressTypeOK, ControlType
<1>9. ProducerInv'
  BY <1>1, <1>2, <1>5, IngressNumbers DEF QueueInv, ProducerInv
<1>10. ConsumerInv'
  BY <1>7 DEF ConsumerInv, DroppingPcs
<1>11. EveryPacketAccounted'
  <2>1. /\ Len(usb) \in Nat /\ discards \in Nat /\ dispatched \in Nat
        /\ sent = Len(usb) + (IF reader.pc = "poll" THEN 0 ELSE 1) + QueueDepth + dispatched
                   + discards + 0
    BY <1>2 DEF QueueInv, EveryPacketAccounted, IngressTypeOK
  <2>2. sent' = Len(usb') + (IF reader'.pc = "poll" THEN 0 ELSE 1) + QueueDepth' + dispatched'
                + discards' + control'.dropped
    <3> DEFINE u == Len(usb) + (IF reader.pc = "poll" THEN 0 ELSE 1)
    <3>1. u \in Nat
      BY <2>1
    <3>2. sent = u + QueueDepth + dispatched + discards
      BY <1>2, <2>1
    <3>3. u' = u /\ sent' = sent
      BY <1>1
    <3> HIDE DEF u
    <3> DEFINE x == QueueDepth'
               y == dispatched'
               z == discards'
    <3>4. /\ x \in Nat /\ x = QueueDepth - 1 /\ y \in Nat /\ z \in Nat
          /\ z + y = discards + dispatched + 1
      BY <1>5, <1>7
    <3> HIDE DEF x, y, z
    <3>5. sent = u + x + y + z + 0
      BY <1>2, <2>1, <3>1, <3>2, <3>4
    <3> QED
      BY <1>7, <3>3, <3>5 DEF u, x, y, z
  <2> QED
    BY <1>6, <1>7, <2>2 DEF EveryPacketAccounted
<1> QED
  BY <1>1, <1>2, <1>5, <1>8, <1>9, <1>10, <1>11 DEF QueueInv

(* The discard frees every slot up to the count it has loaded. *)
LEMMA DiscardStoreKeeps ==
  ASSUME QueueInv, DiscardStore
  PROVE  /\ QueueInv'
         /\ QueueDepth' = Gap(control.upto, write_count, CountMod)
<1> DEFINE k == Gap(read_count, control.upto, CountMod)
<1>1. /\ UNCHANGED <<usb, packets, write_count, panic_active, discards, reader, ready, sent,
                     dispatched, panics, halted, crossed>>
      /\ control.pc \in {"discarding", "discarding again"} /\ read_count' = control.upto
      /\ fifo' = SubSeq(fifo, 1 + k, Len(fifo))
      /\ control' = [control EXCEPT !.dropped = @ + k,
                       !.pc = IF @ = "discarding" THEN "reset" ELSE "resume"]
  BY DEF DiscardStore, DiscardTarget, Gap
<1>2. /\ IngressTypeOK /\ QueueDepth \in Nat /\ control.upto \in 0 .. (CountMod - 1)
      /\ k <= QueueDepth /\ Len(fifo) = QueueDepth /\ control \in ControlType
      /\ control.dropped \in Nat
  <2>1. (control.upto - read_count) % CountMod <= QueueDepth
    BY <1>1 DEF QueueInv, ConsumerInv
  <2> QED
    BY <2>1, RingView, FifoLength, ControlTypes DEF QueueInv, IngressTypeOK, Gap
<1>3. /\ k \in Nat /\ QueueDepth' \in Nat /\ QueueDepth' = QueueDepth - k
      /\ Queued' = SubSeq(fifo, k + 1, Len(fifo))
      /\ SubSeq(fifo, k + 1, Len(fifo)) \in Seq(Packet)
  BY <1>1, <1>2, ConsumeCount
<1>4. QueueDepth' = Gap(control.upto, write_count, CountMod)
  BY <1>1 DEF QueueDepth, Gap
<1> HIDE DEF k
<1>5. Queued' = fifo' /\ fifo' \in Seq(Packet)
  <2>1. 1 + k = k + 1
    BY <1>3
  <2> QED
    BY <1>1, <1>3, <2>1
<1>6. /\ control' \in ControlType /\ control'.dropped = control.dropped + k
      /\ control'.pc \in {"reset", "resume"}
  <2>1. control.dropped + k \in Nat
    BY <1>2, <1>3
  <2> QED
    BY <1>1, <1>2, <2>1 DEF ControlType, PanicPcs, DroppingPcs
<1>7. IngressTypeOK'
  BY <1>1, <1>2, <1>5, <1>6 DEF IngressTypeOK, ControlType
<1>8. ProducerInv'
  <2>1. /\ QueueDepth <= Capacity
        /\ reader.pc # "poll" => QueueDepth < Capacity
        /\ reader.pc = "publish" => packets[write_count % Capacity] = reader.packet
    BY DEF QueueInv, ProducerInv
  <2>2. QueueDepth' <= QueueDepth
    BY <1>2, <1>3
  <2> QED
    <3>1. QueueDepth' <= Capacity /\ (QueueDepth < Capacity => QueueDepth' < Capacity)
      BY <1>2, <1>3, <2>1, <2>2, IngressNumbers
    <3>2. UNCHANGED <<reader, packets, write_count>>
      BY <1>1
    <3> QED
      BY <2>1, <3>1, <3>2 DEF ProducerInv
<1>9. ConsumerInv'
  BY <1>6 DEF ConsumerInv, DroppingPcs
<1>10. EveryPacketAccounted'
  <2>1. Len(usb) \in Nat /\ discards \in Nat /\ dispatched \in Nat
    BY <1>2 DEF IngressTypeOK
  <2>2. sent' = Len(usb') + (IF reader'.pc = "poll" THEN 0 ELSE 1) + QueueDepth' + dispatched'
                + discards' + control'.dropped
    <3> DEFINE u == Len(usb) + (IF reader.pc = "poll" THEN 0 ELSE 1)
    <3>1. u \in Nat
      BY <2>1
    <3>2. sent = u + QueueDepth + dispatched + discards + control.dropped
      BY DEF QueueInv, EveryPacketAccounted
    <3>3. u' = u /\ sent' = sent /\ dispatched' = dispatched /\ discards' = discards
      BY <1>1
    <3> HIDE DEF u
    <3> DEFINE x == QueueDepth'
               e == control.dropped
               f == control'.dropped
    <3>4. x \in Nat /\ x = QueueDepth - k /\ e \in Nat /\ f = e + k
      BY <1>2, <1>3, <1>6
    <3>5. sent = u + QueueDepth + dispatched + discards + e
      BY <3>2
    <3> HIDE DEF x, e, f
    <3>6. sent = u + x + dispatched + discards + f
      BY <1>2, <1>3, <2>1, <3>1, <3>4, <3>5
    <3> QED
      BY <3>3, <3>6 DEF u, x, f
  <2> QED
    BY <1>5, <1>6, <2>2 DEF EveryPacketAccounted
<1> QED
  BY <1>4, <1>7, <1>8, <1>9, <1>10 DEF QueueInv

(* Every step keeps the queue's invariant. *)
LEMMA QueueInvStep == QueueInv /\ [IngressNext]_ingressVars => QueueInv'
<1> SUFFICES ASSUME QueueInv, [IngressNext]_ingressVars PROVE QueueInv'
  OBVIOUS
<1>1. CASE UNCHANGED ingressVars
  <2>1. /\ UNCHANGED <<queueVars, usb, reader, control, sent, dispatched, discards, panics, crossed,
                       panic_active, halted, ready>>
    BY <1>1 DEF ingressVars
  <2>2. ConsumerInv'
    BY <2>1, QueueKept DEF QueueInv, ConsumerInv
  <2>3. control'.pc = "taken" => control'.packet = Head(fifo)
    BY <2>1 DEF QueueInv, EveryPacketAccounted
  <2> QED
    BY <2>1, <2>2, <2>3, ControlTypes, ControlStepKeeps
<1> QED
  BY <1>1, HostSendsKeeps, ReadPacketKeeps, CheckPanicKeeps, PushKeeps, PublishKeeps,
     TakePacketKeeps, ReleaseKeeps, UartPanicKeeps, BeginPanicKeeps, DiscardLoadKeeps,
     DiscardStoreKeeps, ResetSessionKeeps, ResumeKeeps, MonitorKeeps
  DEF IngressNext, Core0Ingress, Core1Ingress, PanicStep

(* The ring between the cores is a queue, and every packet the host has    *)
(* sent is somewhere, once: for every capacity and every counter width     *)
(* that is a multiple of it, under every interleaving of the producer, the *)
(* consumer, panics and outages (midi_ingress_queue.c,                     *)
(* service_usb_midi_ingress).                                              *)
THEOREM IngressLosesNothing == IngressSpec => []EveryPacketAccounted
<1>1. QueueInv => EveryPacketAccounted
  BY DEF QueueInv
<1> QED
  BY QueueInvInit, QueueInvStep, <1>1, PTL DEF IngressSpec

-----------------------------------------------------------------------------
(* The panic. *)

(* The history starts clean. *)
LEMMA PanicInvInit == IngressInit => PanicInv
<1> SUFFICES ASSUME IngressInit PROVE PanicInv
  OBVIOUS
<1>1. /\ control.pc = "loop" /\ reader.pc = "poll" /\ reader.packet.round = 0 /\ panics = 0
      /\ crossed = 0 /\ fifo = << >> /\ ~panic_active /\ ~halted
  BY DEF IngressInit, Idle, Polling, NoPacket
<1>2. Len(fifo) = 0 /\ panic_active = halted
  BY <1>1 DEF IngressInit
<1>3. BlockedInv
  BY <1>1, <1>2 DEF BlockedInv, PanicPcs, DroppingPcs
<1>4. DrainedInv
  BY <1>1 DEF DrainedInv
<1>5. CrossingInv
  BY <1>1, <1>2 DEF CrossingInv, ReaderOld
<1> QED
  BY <1>3, <1>4, <1>5 DEF PanicInv

panicVars == <<panic_active, halted, crossed, panics, fifo, write_count>>

(* Core 0 in the middle of a packet it keeps. *)
LEMMA ReaderGoesOn ==
  ASSUME PanicInv, UNCHANGED panicVars, UNCHANGED control,
         reader'.packet = reader.packet, reader.pc # "poll", reader'.pc # "poll",
         InFlight' => InFlight \/ ~panic_active
  PROVE  PanicInv'
<1>1. UNCHANGED <<panic_active, halted, crossed, panics, fifo, write_count>>
  BY DEF panicVars
<1>2. ReaderOld' = ReaderOld
  BY <1>1 DEF ReaderOld, Old
<1>3. BlockedInv'
  BY <1>1 DEF PanicInv, BlockedInv, Old
<1>4. DrainedInv'
  BY <1>1, <1>2 DEF PanicInv, DrainedInv
<1>5. CrossingInv'
  <2> SUFFICES ASSUME control.pc \in LoopPcs
               PROVE  IF halted
                      THEN crossed + Len(fifo) <= 1 /\ (InFlight' => crossed = 0 /\ fifo = << >>)
                      ELSE /\ crossed <= 1
                           /\ ReaderOld => crossed = 0 /\ fifo = << >>
                           /\ \A i \in 1 .. Len(fifo) : Old(fifo[i]) => i = 1 /\ crossed = 0
    BY <1>1, <1>2 DEF CrossingInv, Old
  <2>1. panic_active = halted
    BY DEF PanicInv, BlockedInv
  <2> QED
    BY <2>1 DEF PanicInv, CrossingInv
<1> QED
  BY <1>3, <1>4, <1>5 DEF PanicInv

(* Core 0 with no packet, or a new one it has not checked. *)
LEMMA ReaderClean ==
  ASSUME PanicInv, UNCHANGED panicVars, UNCHANGED control,
         ~ReaderOld', ~InFlight', reader'.packet.round <= panics
  PROVE  PanicInv'
<1>1. UNCHANGED <<panic_active, halted, crossed, panics, fifo, write_count>>
  BY DEF panicVars
<1>2. BlockedInv'
  BY <1>1 DEF PanicInv, BlockedInv
<1>3. DrainedInv'
  BY <1>1 DEF PanicInv, DrainedInv
<1>4. CrossingInv'
  BY <1>1 DEF PanicInv, CrossingInv, Old
<1> QED
  BY <1>2, <1>3, <1>4 DEF PanicInv

(* Core 1 stays where it is, or in its loop. *)
ControlGoesOn ==
  \/ control'.pc = control.pc /\ control'.upto = control.upto
  \/ control.pc \in LoopPcs /\ control'.pc \in LoopPcs

(* Core 1 in its loop, with nothing dispatched. *)
LEMMA LoopGoesOn ==
  ASSUME PanicInv, UNCHANGED panicVars, UNCHANGED reader, ControlGoesOn
  PROVE  PanicInv'
<1>1. UNCHANGED <<panic_active, halted, crossed, panics, fifo, write_count, reader>>
  BY DEF panicVars
<1>2. ReaderOld' = ReaderOld /\ InFlight' = InFlight
  BY <1>1 DEF ReaderOld, Old, InFlight
<1>3. BlockedInv'
  BY <1>1, <1>2 DEF PanicInv, BlockedInv, ControlGoesOn, Old, LoopPcs, PanicPcs, DroppingPcs
<1>4. DrainedInv'
  BY <1>1, <1>2 DEF PanicInv, DrainedInv, ControlGoesOn, LoopPcs
<1>5. CrossingInv'
  BY <1>1, <1>2 DEF PanicInv, CrossingInv, ControlGoesOn, Old
<1> QED
  BY <1>3, <1>4, <1>5 DEF PanicInv

(* Core 0 looks at the flag. *)
LEMMA CheckPanicBlocks ==
  ASSUME QueueInv, PanicInv, CheckPanic
  PROVE  PanicInv'
<1>1. UNCHANGED panicVars /\ UNCHANGED control /\ reader.pc = "check"
  BY DEF CheckPanic, panicVars, queueVars
<1>2. CASE panic_active
  <2>1. reader'.pc = "poll" /\ reader'.packet.round = 0
    BY <1>2 DEF CheckPanic, Polling, NoPacket
  <2>2. ~ReaderOld' /\ ~InFlight'
    BY <2>1 DEF ReaderOld, InFlight
  <2>3. reader'.packet.round <= panics
    BY <2>1, ControlTypes
  <2> QED
    BY <1>1, <2>2, <2>3, ReaderClean
<1>3. CASE ~panic_active
  <2>1. reader' = [reader EXCEPT !.pc = "push"]
    BY <1>3 DEF CheckPanic
  <2>2. reader'.pc = "push" /\ reader'.packet = reader.packet
    BY <2>1 DEF QueueInv, IngressTypeOK
  <2> QED
    BY <1>1, <1>3, <2>2, ReaderGoesOn
<1> QED
  BY <1>2, <1>3

(* It reads a packet of this round. *)
LEMMA ReadPacketClean ==
  ASSUME QueueInv, PanicInv, ReadPacket
  PROVE  PanicInv'
<1>1. UNCHANGED panicVars /\ UNCHANGED control /\ usb # << >>
      /\ reader' = [pc |-> "check", packet |-> [Head(usb) EXCEPT !.round = panics]]
  BY DEF ReadPacket, panicVars, queueVars
<1>2. Head(usb) \in Packet
  BY <1>1, ST!HeadTailProperties DEF QueueInv, IngressTypeOK
<1>3. reader'.pc = "check" /\ reader'.packet.round = panics
  BY <1>1, <1>2 DEF Packet
<1>4. panics \in Nat /\ panics' = panics
  BY <1>1, ControlTypes DEF panicVars
<1>5. ~ReaderOld' /\ ~InFlight' /\ reader'.packet.round <= panics
  BY <1>3, <1>4 DEF ReaderOld, Old, InFlight
<1> QED
  BY <1>1, <1>5, ReaderClean

(* It stores the packet. *)
LEMMA PushGoesOn ==
  ASSUME QueueInv, PanicInv, Push
  PROVE  PanicInv'
<1>1. UNCHANGED panicVars /\ UNCHANGED control /\ reader.pc = "push"
  BY DEF Push, StorePacket, panicVars
<1>2. ~QueueFull
  BY <1>1, RingView, IngressNumbers DEF QueueInv, ProducerInv, QueueFull
<1>3. reader' = [reader EXCEPT !.pc = "publish"]
  BY <1>2 DEF Push, StorePacket
<1>4. reader'.pc = "publish" /\ reader'.packet = reader.packet /\ InFlight
  BY <1>1, <1>3 DEF QueueInv, IngressTypeOK, InFlight
<1> QED
  BY <1>1, <1>4, ReaderGoesOn

(* It publishes the packet: one that was read before a panic goes into a   *)
(* ring that the panic has emptied.                                        *)
LEMMA PublishCrosses ==
  ASSUME QueueInv, PanicInv, Publish
  PROVE  PanicInv'
<1> DEFINE p == reader.packet
<1>1. /\ UNCHANGED <<panic_active, halted, crossed, panics, control>>
      /\ reader.pc = "publish" /\ reader' = Polling
      /\ write_count' = (write_count + 1) % CountMod /\ fifo' = Append(fifo, p)
  BY DEF Publish
<1>2. reader'.pc = "poll" /\ reader'.packet.round = 0
  BY <1>1 DEF Polling, NoPacket
<1>3. ~ReaderOld' /\ ~InFlight' /\ InFlight /\ (Old(p) <=> ReaderOld)
  BY <1>1, <1>2 DEF ReaderOld, InFlight
<1>4. /\ fifo \in Seq(Packet) /\ p \in Packet /\ panics \in Nat /\ crossed \in Nat
      /\ write_count \in 0 .. (CountMod - 1)
  BY DEF QueueInv, IngressTypeOK
<1>5. /\ Len(fifo') = Len(fifo) + 1 /\ Len(fifo) \in Nat
      /\ \A i \in 1 .. Len(fifo) : fifo'[i] = fifo[i]
      /\ fifo'[Len(fifo) + 1] = p
      /\ fifo = << >> => Len(fifo) = 0
  BY <1>1, <1>4, ST!AppendProperties
<1>6. BlockedInv'
  BY <1>1, <1>2, <1>3, <1>4 DEF PanicInv, BlockedInv
<1>7. DrainedInv'
  <2>1. ASSUME control.pc \in {"discarding again", "resume"} PROVE ReaderOld
    BY <1>3, <2>1 DEF PanicInv, BlockedInv, PanicPcs, DroppingPcs
  <2>2. ASSUME control.pc = "discarding again"
        PROVE  (write_count' - control.upto) % CountMod <= 1
    <3>1. write_count = control.upto
      BY <2>1, <2>2 DEF PanicInv, DrainedInv
    <3>2. Gap(write_count, write_count', CountMod) = 1
      BY <1>1, <1>4, IngressNumbers, GapOne
    <3> QED
      BY <3>1, <3>2 DEF Gap
  <2>3. ASSUME control.pc = "resume" PROVE Len(fifo') <= 1
    BY <1>5, <2>1, <2>3 DEF PanicInv, DrainedInv
  <2> QED
    BY <1>1, <1>3, <2>2, <2>3 DEF DrainedInv
<1>8. CrossingInv'
  <2> SUFFICES ASSUME control.pc \in LoopPcs
               PROVE  IF halted THEN crossed + Len(fifo') <= 1
                      ELSE /\ crossed <= 1
                           /\ \A i \in 1 .. Len(fifo') : Old(fifo'[i]) => i = 1 /\ crossed = 0
    BY <1>1, <1>3 DEF CrossingInv, Old
  <2>1. CASE halted
    BY <1>3, <1>4, <1>5, <2>1 DEF PanicInv, CrossingInv
  <2>2. CASE ~halted
    <3>1. /\ crossed <= 1
          /\ Old(p) => crossed = 0 /\ fifo = << >>
          /\ \A i \in 1 .. Len(fifo) : Old(fifo[i]) => i = 1 /\ crossed = 0
      BY <1>3, <2>2 DEF PanicInv, CrossingInv
    <3>2. ASSUME NEW i \in 1 .. Len(fifo'), Old(fifo'[i]) PROVE i = 1 /\ crossed = 0
      <4>1. CASE i \in 1 .. Len(fifo)
        BY <1>5, <3>1, <3>2, <4>1
      <4>2. CASE i = Len(fifo) + 1
        BY <1>5, <3>1, <3>2, <4>2
      <4> QED
        BY <1>5, <4>1, <4>2
    <3> QED
      BY <2>2, <3>1, <3>2
  <2> QED
    BY <2>1, <2>2
<1> QED
  BY <1>6, <1>7, <1>8 DEF PanicInv

(* Core 1 dispatches or discards the oldest packet. *)
LEMMA ReleaseCrosses ==
  ASSUME QueueInv, PanicInv, ReleasePacket
  PROVE  PanicInv'
<1> DEFINE old == Old(control.packet)
<1>1. /\ UNCHANGED <<panic_active, halted, panics, reader, write_count>>
      /\ control.pc = "taken" /\ fifo' = Tail(fifo)
      /\ crossed' = crossed \/ (crossed' = crossed + 1 /\ (halted \/ old))
  BY DEF ReleasePacket, Old
<1>2. control'.pc \in {"loop", "panic"}
  <2>1. control' = Idle \/ control' = [Idle EXCEPT !.pc = "panic", !.origin = "sysex"]
    BY DEF ReleasePacket
  <2>2. ASSUME control' = Idle PROVE control'.pc = "loop"
    BY <2>2 DEF Idle
  <2>3. ASSUME control' = [Idle EXCEPT !.pc = "panic", !.origin = "sysex"]
        PROVE  control'.pc = "panic"
    BY <2>3 DEF Idle
  <2> QED
    BY <2>1, <2>2, <2>3
<1>3. /\ fifo # << >> /\ fifo \in Seq(Packet) /\ control.packet = Head(fifo) /\ crossed \in Nat
  BY <1>1, FifoLength DEF QueueInv, ConsumerInv, EveryPacketAccounted, IngressTypeOK
<1>4. /\ Len(fifo') = Len(fifo) - 1 /\ Len(fifo) \in Nat /\ Len(fifo) # 0
      /\ \A i \in 1 .. Len(fifo') : fifo'[i] = fifo[i + 1]
      /\ control.packet = fifo[1]
  BY <1>1, <1>3, ST!HeadTailProperties
<1>5. ReaderOld' = ReaderOld /\ InFlight' = InFlight
  BY <1>1 DEF ReaderOld, InFlight, Old
<1>6. panic_active = halted
  BY <1>1 DEF PanicInv, BlockedInv, LoopPcs
<1>7. BlockedInv'
  BY <1>1, <1>2, <1>5, <1>6 DEF PanicInv, BlockedInv, PanicPcs, DroppingPcs, Old
<1>8. DrainedInv'
  BY <1>2 DEF DrainedInv
<1>9. CrossingInv'
  <2>1. CASE halted
    <3>1. crossed + Len(fifo) <= 1 /\ ~InFlight
      BY <1>1, <1>3, <2>1 DEF PanicInv, CrossingInv, LoopPcs
    <3>2. crossed' + Len(fifo') <= 1
      BY <1>1, <1>3, <1>4, <3>1
    <3> QED
      BY <1>1, <1>5, <2>1, <3>1, <3>2 DEF CrossingInv
  <2>2. CASE ~halted
    <3>1. /\ crossed <= 1 /\ ~ReaderOld
          /\ \A i \in 1 .. Len(fifo) : Old(fifo[i]) => i = 1 /\ crossed = 0
      BY <1>1, <1>3, <2>2 DEF PanicInv, CrossingInv, LoopPcs
    <3>2. old => crossed = 0
      BY <1>4, <3>1
    <3>3. crossed' <= 1
      BY <1>1, <1>3, <2>2, <3>1, <3>2
    <3>4. ASSUME NEW i \in 1 .. Len(fifo'), Old(fifo'[i]) PROVE FALSE
      <4>1. i + 1 \in 1 .. Len(fifo) /\ fifo'[i] = fifo[i + 1] /\ i + 1 # 1
        BY <1>4
      <4> QED
        BY <3>1, <3>4, <4>1
    <3>5. \A i \in 1 .. Len(fifo') : Old(fifo[i])' => i = 1 /\ crossed' = 0
      BY <1>1, <3>4 DEF Old
    <3> QED
      BY <1>1, <1>5, <2>2, <3>1, <3>3, <3>5 DEF CrossingInv
  <2> QED
    BY <2>1, <2>2
<1> QED
  BY <1>7, <1>8, <1>9 DEF PanicInv

(* The panic starts a new round. *)
LEMMA BeginPanicBlocks ==
  ASSUME QueueInv, PanicInv, BeginPanic
  PROVE  PanicInv'
<1>1. /\ UNCHANGED reader /\ control'.pc = "discard"
      /\ panics' = panics + 1 /\ crossed' = 0 /\ panic_active' /\ halted'
  BY ControlTypes DEF BeginPanic, ControlType
<1>2. panics \in Nat /\ reader.packet.round <= panics /\ reader.packet.round \in Nat
  BY DEF PanicInv, BlockedInv, QueueInv, IngressTypeOK, Packet
<1>3. BlockedInv'
  BY <1>1, <1>2 DEF BlockedInv, Old, LoopPcs
<1>4. DrainedInv' /\ CrossingInv'
  BY <1>1 DEF DrainedInv, CrossingInv, LoopPcs
<1> QED
  BY <1>3, <1>4 DEF PanicInv

(* The load, and the reset between the two discards. *)
LEMMA DiscardLoadDrains ==
  ASSUME QueueInv, PanicInv, DiscardLoad
  PROVE  PanicInv'
<1>1. /\ UNCHANGED panicVars /\ UNCHANGED reader
      /\ control.pc \in {"discard", "discard again"}
      /\ control'.pc \in {"discarding", "discarding again"} /\ control'.upto = write_count
  BY ControlTypes DEF DiscardLoad, ControlType, panicVars, queueVars
<1>2. UNCHANGED <<panic_active, halted, crossed, panics, fifo, write_count, reader>>
  BY <1>1 DEF panicVars
<1>3. BlockedInv'
  BY <1>1, <1>2 DEF PanicInv, BlockedInv, Old, InFlight, LoopPcs, PanicPcs, DroppingPcs
<1>4. DrainedInv'
  <2>1. write_count \in Int
    BY IngressNumbers DEF QueueInv, IngressTypeOK
  <2>2. Gap(write_count, write_count, CountMod) = 0
    BY <2>1, IngressNumbers, GapNone
  <2>3. (write_count - write_count) % CountMod <= 1
    BY <2>2 DEF Gap
  <2> QED
    BY <1>1, <1>2, <2>3 DEF DrainedInv
<1>5. CrossingInv'
  BY <1>1 DEF CrossingInv, LoopPcs
<1> QED
  BY <1>3, <1>4, <1>5 DEF PanicInv

(* The session is reset between the two discards. *)
LEMMA ResetSessionBlocks ==
  ASSUME QueueInv, PanicInv, ResetSession
  PROVE  PanicInv'
<1>1. /\ UNCHANGED panicVars /\ UNCHANGED reader
      /\ control.pc = "reset" /\ control'.pc = "discard again"
  BY ControlTypes DEF ResetSession, ControlType, panicVars, queueVars
<1>2. UNCHANGED <<panic_active, halted, crossed, panics, fifo, write_count, reader>>
  BY <1>1 DEF panicVars
<1>3. BlockedInv'
  BY <1>1, <1>2 DEF PanicInv, BlockedInv, Old, InFlight, LoopPcs, PanicPcs, DroppingPcs
<1>4. DrainedInv' /\ CrossingInv'
  BY <1>1 DEF DrainedInv, CrossingInv, LoopPcs
<1> QED
  BY <1>3, <1>4 DEF PanicInv

(* The store of a discard. *)
LEMMA DiscardStoreDrains ==
  ASSUME QueueInv, QueueInv', PanicInv, DiscardStore
  PROVE  PanicInv'
<1>1. /\ UNCHANGED <<panic_active, halted, crossed, panics, write_count, reader>>
      /\ control.pc \in {"discarding", "discarding again"}
      /\ control'.pc = (IF control.pc = "discarding" THEN "reset" ELSE "resume")
  BY ControlTypes DEF DiscardStore, ControlType
<1>2. BlockedInv'
  BY <1>1 DEF PanicInv, BlockedInv, Old, InFlight, LoopPcs, PanicPcs, DroppingPcs
<1>3. DrainedInv'
  <2> SUFFICES ASSUME control'.pc = "resume"
               PROVE  Len(fifo') <= 1 /\ (ReaderOld => fifo' = << >>)
    BY <1>1 DEF DrainedInv, ReaderOld, Old
  <2>1. /\ (write_count - control.upto) % CountMod <= 1
        /\ ReaderOld => write_count = control.upto
    BY <1>1 DEF PanicInv, DrainedInv
  <2>2. Len(fifo') = Gap(control.upto, write_count, CountMod) /\ fifo' \in Seq(Packet)
    <3>1. Len(fifo') = QueueDepth' /\ fifo' \in Seq(Packet)
      BY FifoLengthNext
    <3> QED
      BY <3>1, DiscardStoreKeeps
  <2>3. ReaderOld => Gap(control.upto, write_count, CountMod) = 0
    <3>1. write_count \in Int
      BY IngressNumbers DEF QueueInv, IngressTypeOK
    <3> QED
      BY <2>1, <3>1, IngressNumbers, GapNone
  <2> QED
    BY <2>1, <2>2, <2>3 DEF Gap
<1>4. CrossingInv'
  BY <1>1 DEF CrossingInv, LoopPcs
<1> QED
  BY <1>2, <1>3, <1>4 DEF PanicInv

(* The panic is over: at most one packet from before it is left. *)
LEMMA ResumeCrosses ==
  ASSUME QueueInv, PanicInv, ResumeIngress
  PROVE  PanicInv'
<1>1. /\ UNCHANGED <<crossed, panics, write_count, reader, fifo>>
      /\ control.pc = "resume" /\ control'.pc = "loop"
      /\ panic_active' = ~ready /\ halted' = ~ready
  BY DEF ResumeIngress, Resumed, Idle, queueVars
<1>2. /\ panic_active /\ crossed = 0 /\ Len(fifo) <= 1 /\ (ReaderOld => fifo = << >>)
  BY <1>1 DEF PanicInv, BlockedInv, DrainedInv, PanicPcs, DroppingPcs
<1>3. InFlight => ReaderOld
  BY <1>2 DEF PanicInv, BlockedInv, InFlight, ReaderOld
<1>4. fifo \in Seq(Packet) /\ Len(fifo) \in Nat
  BY DEF QueueInv, IngressTypeOK
<1>5. ReaderOld' = ReaderOld /\ InFlight' = InFlight /\ panic_active' = halted'
  BY <1>1 DEF ReaderOld, InFlight, Old
<1>6. BlockedInv'
  BY <1>1, <1>2, <1>3, <1>5 DEF PanicInv, BlockedInv, PanicPcs, DroppingPcs, Old, ReaderOld
<1>7. DrainedInv'
  BY <1>1 DEF DrainedInv
<1>8. CrossingInv'
  <2>1. \A i \in 1 .. Len(fifo) : i = 1
    BY <1>2, <1>4
  <2>2. crossed + Len(fifo) <= 1 /\ crossed <= 1
    BY <1>2, <1>4
  <2> QED
    BY <1>1, <1>2, <1>3, <1>5, <2>1, <2>2 DEF CrossingInv
<1> QED
  BY <1>6, <1>7, <1>8 DEF PanicInv

(* Every step keeps the invariant of the panic. *)
LEMMA PanicInvStep ==
  QueueInv /\ QueueInv' /\ PanicInv /\ [IngressNext]_ingressVars => PanicInv'
<1> SUFFICES ASSUME QueueInv, QueueInv', PanicInv, [IngressNext]_ingressVars PROVE PanicInv'
  OBVIOUS
<1>1. ASSUME NEW k \in Kinds, HostSends(k) PROVE PanicInv'
  <2>1. UNCHANGED panicVars /\ UNCHANGED reader /\ UNCHANGED control
    BY <1>1 DEF HostSends, panicVars, queueVars
  <2>2. UNCHANGED panicVars /\ UNCHANGED reader
    BY <2>1
  <2>3. ControlGoesOn
    BY <2>1 DEF ControlGoesOn
  <2> QED
    BY <2>2, <2>3, LoopGoesOn
<1>2. CASE TakePacket
  <2>1. UNCHANGED panicVars /\ UNCHANGED reader /\ control.pc \in LoopPcs /\ control'.pc \in LoopPcs
    BY <1>2, ControlTypes DEF TakePacket, ControlType, panicVars, queueVars, LoopPcs
  <2>2. ControlGoesOn
    BY <2>1 DEF ControlGoesOn
  <2> QED
    BY <2>1, <2>2, LoopGoesOn
<1>3. CASE UartPanic
  <2>1. UNCHANGED panicVars /\ UNCHANGED reader /\ control.pc \in LoopPcs /\ control'.pc \in LoopPcs
    BY <1>3 DEF UartPanic, panicVars, queueVars, LoopPcs, Idle
  <2>2. ControlGoesOn
    BY <2>1 DEF ControlGoesOn
  <2> QED
    BY <2>1, <2>2, LoopGoesOn
<1>4. CASE MonitorTransport
  <2>1. UNCHANGED panicVars /\ UNCHANGED reader /\ UNCHANGED control
    BY <1>4 DEF MonitorTransport, panicVars, queueVars
  <2>2. UNCHANGED panicVars /\ UNCHANGED reader
    BY <2>1
  <2>3. ControlGoesOn
    BY <2>1 DEF ControlGoesOn
  <2> QED
    BY <2>2, <2>3, LoopGoesOn
<1>5. CASE UNCHANGED ingressVars
  <2>1. UNCHANGED panicVars /\ UNCHANGED reader /\ UNCHANGED control
    BY <1>5 DEF ingressVars, panicVars, queueVars
  <2>2. UNCHANGED panicVars /\ UNCHANGED reader
    BY <2>1
  <2>3. ControlGoesOn
    BY <2>1 DEF ControlGoesOn
  <2> QED
    BY <2>2, <2>3, LoopGoesOn
<1> QED
  BY <1>1, <1>2, <1>3, <1>4, <1>5, ReadPacketClean, CheckPanicBlocks, PushGoesOn, PublishCrosses,
     ReleaseCrosses, BeginPanicBlocks, DiscardLoadDrains, DiscardStoreDrains, ResetSessionBlocks,
     ResumeCrosses
  DEF IngressNext, Core0Ingress, Core1Ingress, PanicStep

(* Of the packets read before an operator panic, and of all packets while  *)
(* a failed one keeps ingress blocked, at most one is still dispatched,    *)
(* wherever core 0 was when the panic began (app_operator_panic).          *)
THEOREM PanicStopsTheStream == IngressSpec => []AtMostOneCrossesPanic
<1>1. QueueInv /\ PanicInv => AtMostOneCrossesPanic
  <2> SUFFICES ASSUME QueueInv, PanicInv PROVE crossed <= 1
    BY DEF AtMostOneCrossesPanic
  <2>1. /\ control.pc \in LoopPcs \union PanicPcs /\ crossed \in Nat /\ Len(fifo) \in Nat
        /\ halted \in BOOLEAN
    BY DEF QueueInv, IngressTypeOK
  <2>2. CASE control.pc \in PanicPcs
    BY <2>2 DEF PanicInv, BlockedInv
  <2>3. CASE control.pc \in LoopPcs
    BY <2>1, <2>3 DEF PanicInv, CrossingInv
  <2> QED
    BY <2>1, <2>2, <2>3
<1> QED
  BY QueueInvInit, QueueInvStep, PanicInvInit, PanicInvStep, <1>1, PTL DEF IngressSpec

-----------------------------------------------------------------------------
(* The SPI command ingress: SpiBridge. *)

Word == [frame : Nat, index : Nat, low : Nat]

(* The first n words of the staging RAM. *)
Staged(n) == [i \in 1 .. n |-> command_staging[i - 1]]

BridgeTypeOK ==
  /\ state \in {"IDLE", "COMMAND", "REJECT", "STREAM_HEADER", "STREAM_DATA",
                "FLUSH_WAIT", "SESSION_RESET_WAIT"}
  /\ quiet \in BOOLEAN /\ stream_reject \in BOOLEAN
  /\ commit_start_pending \in BOOLEAN /\ cmd_valid \in BOOLEAN
  /\ wire \in Seq(Word) /\ frame \in Nat
  /\ stream_declared_words \in Nat /\ stream_received_words \in Nat
  /\ stream_command_words_remaining \in Nat
  /\ command_staging \in [Indices -> Word]
  /\ staging_read_data \in Word /\ cmd_data \in Word
  /\ commit_index \in Nat /\ commit_words \in Nat
  /\ accepted \in Seq(Word) /\ published \in Seq(Word)

(* The receiver: no commit runs while words arrive, the read port then     *)
(* looks at word 0, and what has arrived so far is in the RAM with the     *)
(* parser's count of the words its last command misses.                    *)
ReceiveInv ==
  /\ commit_index \in Indices
  /\ state \in {"STREAM_HEADER", "STREAM_DATA"} => ~Committing /\ commit_index = 0
  /\ state = "STREAM_DATA" /\ quiet => staging_read_data = command_staging[0]
  /\ state = "STREAM_HEADER" => stream_received_words = 0 /\ stream_command_words_remaining = 0
  /\ state = "COMMAND" => stream_received_words = 0 /\ stream_command_words_remaining = 0
  /\ state = "STREAM_DATA" /\ ~stream_reject =>
       /\ stream_declared_words \in 1 .. MaxCommandWords
       /\ stream_received_words <= stream_declared_words
       /\ Missing(Staged(stream_received_words)) = stream_command_words_remaining

(* The commit: the words not yet taken are those of the RAM from           *)
(* commit_index on, the word on offer is the first of them and the         *)
(* read-ahead holds the second.                                            *)
CommitInv ==
  /\ commit_start_pending => ~cmd_valid /\ commit_index = 0
  /\ Committing =>
       /\ commit_words \in 1 .. MaxCommandWords /\ commit_index < commit_words
       /\ cmd_data = command_staging[commit_index]
       /\ accepted = published \o SubSeq(Staged(commit_words), commit_index + 1, commit_words)
  /\ cmd_valid /\ commit_index + 1 < commit_words =>
       staging_read_data = command_staging[commit_index + 1]
  /\ ~Committing => published = accepted
  /\ Missing(accepted) = 0

BridgeInv == BridgeTypeOK /\ ReceiveInv /\ CommitInv

-----------------------------------------------------------------------------
(* The count of missing words, by its recursion. *)

(* g counts the words missing after each of the first n words. *)
Counts(g, words, n) ==
  g = [i \in 0 .. n |-> IF i = 0 THEN 0 ELSE WordsLeft(g[i - 1], words[i])]

(* There is such a function for every length. *)
LEMMA CountsExists ==
  ASSUME NEW words, NEW n \in Nat
  PROVE  \E g : Counts(g, words, n)
<1> DEFINE S == {k \in Nat : \E g : Counts(g, words, k)}
<1>1. 0 \in S
  <2>1. Counts([i \in 0 .. 0 |-> 0], words, 0)
    BY DEF Counts
  <2> QED
    BY <2>1
<1>2. ASSUME NEW k \in Nat, k \in S PROVE k + 1 \in S
  <2>1. PICK g : Counts(g, words, k)
    BY <1>2
  <2> DEFINE h == [i \in 0 .. (k + 1) |-> IF i = 0 THEN 0 ELSE WordsLeft(g[i - 1], words[i])]
  <2>2. ASSUME NEW i \in 0 .. k PROVE h[i] = g[i]
    BY <2>1, <2>2 DEF Counts
  <2>3. ASSUME NEW i \in 0 .. (k + 1)
        PROVE  h[i] = IF i = 0 THEN 0 ELSE WordsLeft(h[i - 1], words[i])
    <3>1. CASE i = 0
      BY <3>1
    <3>2. CASE i # 0
      <4>1. i - 1 \in 0 .. k
        BY <3>2
      <4>2. h[i - 1] = g[i - 1]
        BY <2>2, <4>1
      <4> QED
        BY <3>2, <4>2
    <3> QED
      BY <3>1, <3>2
  <2>4. Counts(h, words, k + 1)
    BY <2>3 DEF Counts
  <2> QED
    BY <2>4
<1>3. Nat \subseteq S
  <2> HIDE DEF S
  <2> QED
    BY <1>1, <1>2, SetInduction
<1> QED
  BY <1>3

(* What the recursion yields at every index. *)
LEMMA CountsStep ==
  ASSUME NEW g, NEW words, NEW n \in Nat, Counts(g, words, n)
  PROVE  /\ g[0] = 0
         /\ \A i \in 1 .. n : g[i] = WordsLeft(g[i - 1], words[i])
<1>1. g = [j \in 0 .. n |-> IF j = 0 THEN 0 ELSE WordsLeft(g[j - 1], words[j])]
  BY DEF Counts
<1>2. g[0] = 0
  BY <1>1
<1>3. ASSUME NEW i \in 1 .. n PROVE g[i] = WordsLeft(g[i - 1], words[i])
  BY <1>1
<1> QED
  BY <1>2, <1>3

(* Missing is the last value of that function. *)
LEMMA MissingIs ==
  ASSUME NEW words \in Seq(Word)
  PROVE  \E g : Counts(g, words, Len(words)) /\ Missing(words) = g[Len(words)]
<1>1. Len(words) \in Nat
  OBVIOUS
<1> DEFINE c == CHOOSE g : Counts(g, words, Len(words))
<1>2. Counts(c, words, Len(words))
  <2>1. \E g : Counts(g, words, Len(words))
    BY <1>1, CountsExists
  <2> QED
    BY <2>1
<1>3. Missing(words) = c[Len(words)]
  BY DEF Missing, Counts
<1> QED
  BY <1>2, <1>3

(* Where two counts agree and the words after it do, they go on agreeing. *)
LEMMA CountsAgree ==
  ASSUME NEW g, NEW s, NEW m \in Nat, Counts(g, s, m),
         NEW h, NEW u, NEW n \in Nat, Counts(h, u, n),
         NEW d \in Nat, d + m <= n, h[d] = 0,
         \A i \in 1 .. m : s[i] = u[d + i]
  PROVE  g[m] = h[d + m]
<1> DEFINE T == {k \in Nat : k <= m => g[k] = h[d + k]}
<1>1. 0 \in T
  BY CountsStep
<1>2. ASSUME NEW k \in Nat, k \in T PROVE k + 1 \in T
  <2> SUFFICES ASSUME k + 1 <= m PROVE g[k + 1] = h[d + (k + 1)]
    OBVIOUS
  <2>1. g[k] = h[d + k]
    BY <1>2
  <2>2. k + 1 \in 1 .. m /\ k + 1 - 1 = k
    OBVIOUS
  <2>3. d + (k + 1) \in 1 .. n /\ d + (k + 1) - 1 = d + k
    OBVIOUS
  <2>4. g[k + 1] = WordsLeft(g[k], s[k + 1])
    BY <2>2, CountsStep
  <2>5. h[d + (k + 1)] = WordsLeft(h[d + k], u[d + (k + 1)])
    BY <2>3, CountsStep
  <2> QED
    BY <2>1, <2>2, <2>4, <2>5
<1>3. Nat \subseteq T
  <2> HIDE DEF T
  <2> QED
    BY <1>1, <1>2, SetInduction
<1> QED
  BY <1>3

(* No words, none missing. *)
LEMMA MissingNone == Missing(<< >>) = 0
<1>1. << >> \in Seq(Word) /\ Len(<< >>) = 0
  OBVIOUS
<1>2. PICK g : Counts(g, << >>, 0) /\ Missing(<< >>) = g[0]
  BY <1>1, MissingIs
<1> QED
  BY <1>2, CountsStep

(* One more word. *)
LEMMA MissingAppend ==
  ASSUME NEW s \in Seq(Word), NEW w \in Word
  PROVE  Missing(Append(s, w)) = WordsLeft(Missing(s), w)
<1> DEFINE u == Append(s, w)
           m == Len(s)
<1>1. /\ u \in Seq(Word) /\ m \in Nat /\ Len(u) = m + 1
      /\ \A i \in 1 .. m : s[i] = u[0 + i]
      /\ u[m + 1] = w
  BY ST!AppendProperties, ST!LenProperties
<1>2. PICK g : Counts(g, s, m) /\ Missing(s) = g[m]
  BY MissingIs
<1> HIDE DEF u, m
<1>3. PICK h : Counts(h, u, m + 1) /\ Missing(u) = h[m + 1]
  <2>1. \E h : Counts(h, u, Len(u)) /\ Missing(u) = h[Len(u)]
    BY <1>1, MissingIs
  <2> QED
    BY <1>1, <2>1
<1>4. m + 1 \in Nat /\ 0 + m <= m + 1 /\ 0 + m = m /\ m + 1 \in 1 .. (m + 1) /\ m + 1 - 1 = m
  BY <1>1
<1>5. /\ h[0] = 0
      /\ h[m + 1] = WordsLeft(h[m], u[m + 1])
  <2>1. h[0] = 0 /\ \A i \in 1 .. (m + 1) : h[i] = WordsLeft(h[i - 1], u[i])
    BY <1>3, <1>4, CountsStep
  <2> DEFINE j == m + 1
  <2>2. j \in 1 .. (m + 1) /\ j - 1 = m
    BY <1>1
  <2> HIDE DEF j
  <2>3. h[j] = WordsLeft(h[j - 1], u[j])
    BY <2>1, <2>2
  <2>4. h[j] = WordsLeft(h[m], u[j])
    BY <2>2, <2>3
  <2> QED
    BY <2>1, <2>4 DEF j
<1>6. g[m] = h[0 + m]
  BY <1>1, <1>2, <1>3, <1>4, <1>5, CountsAgree
<1> QED
  BY <1>1, <1>2, <1>3, <1>4, <1>5, <1>6 DEF u

(* Whole commands after whole commands. *)
LEMMA MissingConcat ==
  ASSUME NEW s \in Seq(Word), NEW t \in Seq(Word), Missing(s) = 0
  PROVE  Missing(s \o t) = Missing(t)
<1> DEFINE u == s \o t
           d == Len(s)
           m == Len(t)
<1>1. /\ u \in Seq(Word) /\ m \in Nat /\ d \in Nat /\ Len(u) = d + m
      /\ \A i \in 1 .. m : t[i] = u[d + i]
      /\ \A i \in 1 .. d : s[i] = u[0 + i]
  BY ST!ConcatProperties, ST!LenProperties
<1>2. PICK g : Counts(g, t, m) /\ Missing(t) = g[m]
  BY MissingIs
<1>3. PICK f : Counts(f, s, d) /\ Missing(s) = f[d]
  BY MissingIs
<1> HIDE DEF u, d, m
<1>4. PICK h : Counts(h, u, d + m) /\ Missing(u) = h[d + m]
  <2>1. \E h : Counts(h, u, Len(u)) /\ Missing(u) = h[Len(u)]
    BY <1>1, MissingIs
  <2> QED
    BY <1>1, <2>1
<1>5. d + m \in Nat /\ 0 + d <= d + m /\ d + m <= d + m /\ 0 + d = d
  BY <1>1
<1>6. h[0] = 0
  BY <1>4, <1>5, CountsStep
<1>7. f[d] = h[0 + d]
  <2> DEFINE n == d + m
  <2>1. n \in Nat /\ 0 + d <= n /\ Counts(h, u, n)
    BY <1>4, <1>5
  <2> HIDE DEF n
  <2> QED
    BY <1>1, <1>3, <1>6, <2>1, CountsAgree
<1>8. h[d] = 0
  BY <1>3, <1>5, <1>7
<1>9. g[m] = h[d + m]
  BY <1>1, <1>2, <1>4, <1>5, <1>8, CountsAgree
<1> QED
  BY <1>2, <1>4, <1>9 DEF u

-----------------------------------------------------------------------------
(* The words of a commit that are still to be taken. *)

(* Concatenation of words. *)
LEMMA WordsConcat ==
  ASSUME NEW a \in Seq(Word), NEW b \in Seq(Word), NEW c \in Seq(Word)
  PROVE  /\ (a \o b) \o c = a \o (b \o c)
         /\ a \o << >> = a
BY ST!ConcatAssociative, ST!ConcatEmptySeq

(* The next word of s moves to the end of p. *)
LEMMA TakeWord ==
  ASSUME NEW p \in Seq(Word), NEW s \in Seq(Word), NEW k \in Nat, k < Len(s)
  PROVE  p \o SubSeq(s, k + 1, Len(s)) = Append(p, s[k + 1]) \o SubSeq(s, k + 2, Len(s))
<1> DEFINE x == <<s[k + 1]>>
           r == SubSeq(s, k + 2, Len(s))
<1>1. SubSeq(s, k + 1, Len(s)) = x \o r
  OBVIOUS
<1>2. Append(p, s[k + 1]) = p \o x
  OBVIOUS
<1>3. r \in Seq(Word) /\ x \in Seq(Word)
  OBVIOUS
<1> HIDE DEF x, r
<1>4. p \o (x \o r) = (p \o x) \o r
  BY <1>3, WordsConcat, ZenonT(60)
<1> QED
  BY <1>1, <1>2, <1>4 DEF r

(* The words in the RAM as a sequence. *)
LEMMA StagedType ==
  ASSUME BridgeTypeOK, NEW n \in 0 .. MaxCommandWords
  PROVE  /\ Staged(n) \in Seq(Word) /\ Len(Staged(n)) = n
         /\ \A i \in 1 .. n : Staged(n)[i] = command_staging[i - 1]
<1>1. \A i \in 1 .. n : i - 1 \in Indices
  BY BridgeAssumption DEF Indices
<1>2. \A i \in 1 .. n : command_staging[i - 1] \in Word
  BY <1>1 DEF BridgeTypeOK
<1>3. n \in Nat
  BY BridgeAssumption
<1> QED
  BY <1>2, <1>3 DEF Staged

CommitTypeOK ==
  /\ commit_start_pending \in BOOLEAN /\ cmd_valid \in BOOLEAN
  /\ staging_read_data \in Word /\ cmd_data \in Word
  /\ commit_index \in Nat /\ commit_words \in Nat
  /\ accepted \in Seq(Word) /\ published \in Seq(Word)
  /\ commit_index \in Indices

(* The read port always looks at a word of the RAM. *)
LEMMA ReadTyped ==
  ASSUME BridgeInv, NEW r \in BOOLEAN
  PROVE  /\ StagingReadAddress(r) \in Indices
         /\ command_staging[StagingReadAddress(r)] \in Word
<1>1. /\ commit_index \in Indices /\ commit_index \in Nat /\ commit_words \in Nat
      /\ MaxCommandWords \in Nat
  BY BridgeAssumption DEF BridgeInv, ReceiveInv, BridgeTypeOK
<1>2. Committing => commit_words <= MaxCommandWords
  BY <1>1 DEF BridgeInv, CommitInv
<1>3. StagingReadAddress(r) \in Indices
  BY <1>1, <1>2 DEF StagingReadAddress, LastWord, Taken, Committing, Indices
<1> QED
  BY <1>3 DEF BridgeInv, BridgeTypeOK

(* An edge on which no commit is running. *)
LEMMA IdleCommit ==
  ASSUME BridgeInv, ~Committing, NEW r \in BOOLEAN, ReadAhead(r),
         cmd_valid' = NextCmdValid(r), cmd_data' = NextCmdData(r),
         commit_start_pending' = FALSE, commit_words' = commit_words,
         published' = Published(r), UNCHANGED accepted,
         commit_index' \in {0, commit_index}
  PROVE  CommitInv' /\ CommitTypeOK' /\ ~Committing'
<1>1. ~cmd_valid /\ ~commit_start_pending
  BY DEF Committing
<1>2. /\ ~cmd_valid' /\ ~commit_start_pending' /\ published' = published /\ cmd_data' = cmd_data
      /\ cmd_valid' \in BOOLEAN /\ commit_start_pending' \in BOOLEAN
  BY <1>1 DEF NextCmdValid, Taken, Published, NextCmdData
<1>3. ~Committing'
  BY <1>2 DEF Committing
<1>4. CommitInv'
  BY <1>2, <1>3 DEF BridgeInv, CommitInv
<1>5. staging_read_data' \in Word
  BY ReadTyped DEF ReadAhead
<1>6. commit_index' \in Nat /\ commit_index' \in Indices
  BY BridgeAssumption DEF BridgeInv, BridgeTypeOK, ReceiveInv, Indices
<1> QED
  BY <1>2, <1>3, <1>4, <1>5, <1>6 DEF BridgeInv, BridgeTypeOK, CommitTypeOK

(* An edge of a commit. *)
LEMMA CommitKeeps ==
  ASSUME BridgeInv, NEW r \in BOOLEAN, CommitRuns(r), UNCHANGED <<command_staging, accepted>>
  PROVE  CommitInv' /\ CommitTypeOK' /\ (~Committing => ~Committing' /\ commit_index' = commit_index)
<1>1. CASE ~Committing
  <2>1. commit_index' = commit_index
    BY <1>1 DEF CommitRuns, NextCommitIndex, Taken, Committing
  <2> QED
    BY <1>1, <2>1, IdleCommit DEF CommitRuns
<1>2. CASE Committing
  <2> DEFINE n == commit_words
             k == commit_index
             S == Staged(commit_words)
  <2>1. /\ n \in 1 .. MaxCommandWords /\ k \in Nat /\ k < n /\ n \in Nat
        /\ cmd_data = command_staging[k]
        /\ accepted = published \o SubSeq(S, k + 1, n)
        /\ Missing(accepted) = 0 /\ published \in Seq(Word) /\ cmd_data \in Word
        /\ staging_read_data \in Word /\ accepted \in Seq(Word)
    BY <1>2 DEF BridgeInv, CommitInv, BridgeTypeOK
  <2>2. S \in Seq(Word) /\ Len(S) = n /\ \A i \in 1 .. n : S[i] = command_staging[i - 1]
    <3>1. BridgeTypeOK /\ n \in 0 .. MaxCommandWords
      BY <2>1 DEF BridgeInv
    <3> QED
      BY <3>1, StagedType, Zenon
  <2>3. S' = S /\ n' = n /\ accepted' = accepted /\ command_staging' = command_staging
        /\ commit_start_pending' = FALSE
    BY DEF CommitRuns, Staged
  <2>4. staging_read_data' = command_staging[StagingReadAddress(r)] /\ staging_read_data' \in Word
    BY ReadTyped DEF CommitRuns, ReadAhead
  <2>5. CASE commit_start_pending
    <3>1. ~cmd_valid /\ k = 0
      BY <2>5 DEF BridgeInv, CommitInv
    <3>2. cmd_valid' = TRUE /\ k' = 0 /\ cmd_data' = cmd_data /\ published' = published
      BY <2>5, <3>1 DEF CommitRuns, NextCmdValid, NextCommitIndex, NextCmdData, Published, Taken
    <3>3. k + 1 < n => staging_read_data' = command_staging[k + 1]
      BY <2>1, <2>4, <2>5 DEF StagingReadAddress, LastWord
    <3>4. 0 \in Indices
      BY BridgeAssumption DEF Indices
    <3>5. CommitInv'
      BY <2>1, <2>3, <3>1, <3>2, <3>3 DEF CommitInv, Committing
    <3> QED
      BY <1>2, <2>1, <2>3, <2>4, <3>2, <3>4, <3>5 DEF CommitTypeOK
  <2>6. CASE ~commit_start_pending /\ ~r
    <3>1. cmd_valid
      BY <1>2, <2>6 DEF Committing
    <3>2. cmd_valid' = TRUE /\ k' = k /\ cmd_data' = cmd_data /\ published' = published
      BY <2>6, <3>1 DEF CommitRuns, NextCmdValid, NextCommitIndex, NextCmdData, Published, Taken
    <3>3. k + 1 < n => staging_read_data' = command_staging[k + 1]
      BY <2>1, <2>4, <2>6, <3>1 DEF StagingReadAddress, LastWord, Taken
    <3>4. k \in Indices
      BY DEF BridgeInv, ReceiveInv
    <3>5. CommitInv'
      BY <2>1, <2>3, <3>2, <3>3 DEF CommitInv, Committing
    <3> QED
      BY <1>2, <2>1, <2>3, <2>4, <3>2, <3>4, <3>5 DEF CommitTypeOK
  <2>7. CASE ~commit_start_pending /\ r
    <3>1. cmd_valid
      BY <1>2, <2>7 DEF Committing
    <3>2. published' = Append(published, cmd_data) /\ published' \in Seq(Word)
      BY <2>1, <2>7, <3>1 DEF CommitRuns, Published, Taken
    <3>3. cmd_data = S[k + 1]
      <4>1. k + 1 \in 1 .. n /\ k + 1 - 1 = k
        BY <2>1
      <4> HIDE DEF S, n, k
      <4> QED
        BY <2>1, <2>2, <4>1
    <3>4. accepted = published' \o SubSeq(S, k + 2, n)
      <4> HIDE DEF S, n, k
      <4>1. published \o SubSeq(S, k + 1, Len(S)) = Append(published, S[k + 1]) \o SubSeq(S, k + 2, Len(S))
        BY <2>1, <2>2, TakeWord
      <4> QED
        BY <2>1, <2>2, <3>2, <3>3, <4>1
    <3>5. CASE k + 1 < n
      <4>1. cmd_valid' = TRUE /\ k' = k + 1 /\ cmd_data' = staging_read_data
        <5>1. Taken(r) /\ ~LastWord
          BY <2>1, <2>7, <3>1, <3>5 DEF Taken, LastWord
        <5>2. NextCmdValid(r) = TRUE
          BY <3>1, <5>1, Zenon DEF NextCmdValid
        <5> QED
          BY <5>1, <5>2 DEF CommitRuns, NextCommitIndex, NextCmdData
      <4>2. cmd_data' = command_staging[k + 1]
        BY <3>1, <3>5, <4>1 DEF BridgeInv, CommitInv
      <4>3. (k + 1) + 1 < n => staging_read_data' = command_staging[(k + 1) + 1]
        BY <2>1, <2>4, <2>7, <3>1, <3>5 DEF StagingReadAddress, LastWord, Taken
      <4>4. k + 1 \in Indices /\ k + 1 \in Nat /\ (k + 1) + 1 = k + 2
        BY <2>1, <3>5, BridgeAssumption DEF Indices
      <4>5. CommitInv'
        BY <2>1, <2>3, <3>4, <3>5, <4>1, <4>2, <4>3, <4>4 DEF CommitInv, Committing
      <4> QED
        BY <1>2, <2>1, <2>3, <2>4, <3>2, <4>1, <4>4, <4>5 DEF CommitTypeOK
    <3>6. CASE ~(k + 1 < n)
      <4>1. cmd_valid' = FALSE /\ k' = k /\ cmd_data' = cmd_data
        <5>1. Taken(r) /\ LastWord
          BY <2>1, <2>7, <3>1, <3>6 DEF Taken, LastWord
        <5>2. NextCmdValid(r) = FALSE
          BY <2>7, <5>1, Zenon DEF NextCmdValid
        <5> QED
          BY <5>1, <5>2 DEF CommitRuns, NextCommitIndex, NextCmdData
      <4>2. SubSeq(S, k + 2, n) = << >>
        BY <2>1, <2>2, <3>6
      <4>3. published' = accepted
        BY <3>2, <3>4, <4>2, WordsConcat
      <4>4. k \in Indices
        BY DEF BridgeInv, ReceiveInv
      <4>5. CommitInv'
        BY <2>1, <2>3, <4>1, <4>3 DEF CommitInv, Committing
      <4> QED
        BY <1>2, <2>1, <2>3, <2>4, <3>2, <4>1, <4>4, <4>5 DEF CommitTypeOK
    <3> QED
      BY <3>5, <3>6
  <2> QED
    BY <2>5, <2>6, <2>7
<1> QED
  BY <1>1, <1>2

-----------------------------------------------------------------------------
(* One lemma for each step. *)

ReceiveTypeOK ==
  /\ state \in {"IDLE", "COMMAND", "REJECT", "STREAM_HEADER", "STREAM_DATA",
                "FLUSH_WAIT", "SESSION_RESET_WAIT"}
  /\ quiet \in BOOLEAN /\ stream_reject \in BOOLEAN
  /\ wire \in Seq(Word) /\ frame \in Nat
  /\ stream_declared_words \in Nat /\ stream_received_words \in Nat
  /\ stream_command_words_remaining \in Nat
  /\ command_staging \in [Indices -> Word]

(* The invariant in the next state, from its parts. *)
LEMMA BridgeInvParts ==
  CommitInv' /\ CommitTypeOK' /\ ReceiveTypeOK' /\ ReceiveInv' => BridgeInv'
BY DEF BridgeInv, BridgeTypeOK, CommitTypeOK, ReceiveTypeOK

(* Values of a reset. *)
LEMMA ResetValues ==
  << >> \in Seq(Word) /\ NoWord \in Word /\ 0 \in Indices /\ FALSE \in BOOLEAN /\ TRUE \in BOOLEAN
BY BridgeAssumption DEF NoWord, Word, Indices

(* Without a commit the read port looks at commit_index. *)
LEMMA IdleRead ==
  ASSUME ~Committing, NEW r \in BOOLEAN
  PROVE  StagingReadAddress(r) = commit_index
BY DEF Committing, StagingReadAddress, Taken

(* The invariant holds at reset. *)
LEMMA BridgeInvInit == BridgeInit => BridgeInv
<1> SUFFICES ASSUME BridgeInit PROVE BridgeInv
  OBVIOUS
<1>1. [i \in Indices |-> NoWord] \in [Indices -> Word]
  BY ResetValues
<1>2. BridgeTypeOK
  <2>1. /\ wire \in Seq(Word) /\ published \in Seq(Word) /\ accepted \in Seq(Word)
        /\ quiet \in BOOLEAN /\ stream_reject \in BOOLEAN
        /\ commit_start_pending \in BOOLEAN /\ cmd_valid \in BOOLEAN
    BY ResetValues, Zenon DEF BridgeInit
  <2> QED
    BY <1>1, <2>1, ResetValues DEF BridgeInit, BridgeTypeOK
<1>3. ReceiveInv
  BY BridgeAssumption DEF BridgeInit, ReceiveInv, Indices
<1>4. CommitInv
  BY MissingNone DEF BridgeInit, CommitInv, Committing
<1> QED
  BY <1>2, <1>3, <1>4 DEF BridgeInv

(* A clock edge without an SPI event. *)
LEMMA NoSpiEventKeeps ==
  ASSUME BridgeInv, NEW r \in BOOLEAN, NoSpiEvent(r)
  PROVE  BridgeInv'
<1>1. /\ UNCHANGED <<state, wire, stream_declared_words, stream_received_words,
                     stream_command_words_remaining, stream_reject, command_staging, frame>>
      /\ quiet' = TRUE /\ CommitRuns(r) /\ accepted' = accepted
  BY DEF NoSpiEvent, RequestsAcked
<1>2. CommitInv' /\ CommitTypeOK' /\ (~Committing => ~Committing' /\ commit_index' = commit_index)
  BY <1>1, CommitKeeps
<1>3. ReceiveTypeOK'
  BY <1>1 DEF ReceiveTypeOK, BridgeInv, BridgeTypeOK
<1>4. state = "STREAM_DATA" => staging_read_data' = command_staging[0]
  BY <1>1, IdleRead DEF BridgeInv, ReceiveInv, CommitRuns, ReadAhead
<1>5. Staged(stream_received_words)' = Staged(stream_received_words)
  BY <1>1 DEF Staged
<1>6. ReceiveInv'
  BY <1>1, <1>2, <1>4, <1>5 DEF ReceiveInv, BridgeInv, CommitTypeOK
<1> QED
  BY <1>2, <1>3, <1>6, BridgeInvParts

(* Chip select falls. *)
LEMMA CsStartKeeps ==
  ASSUME BridgeInv, NEW r \in BOOLEAN, CsStart(r)
  PROVE  BridgeInv'
<1>1. /\ UNCHANGED <<command_staging, frame, accepted>> /\ CommitRuns(r)
      /\ state' \in {"REJECT", "COMMAND"} /\ quiet' = FALSE /\ stream_reject' = FALSE
      /\ stream_declared_words' = 0 /\ stream_received_words' = 0
      /\ stream_command_words_remaining' = 0 /\ wire' = << >>
  BY DEF CsStart, RequestsAcked
<1>2. CommitInv' /\ CommitTypeOK'
  BY <1>1, CommitKeeps
<1>3. ReceiveTypeOK'
  <2>1. wire' \in Seq(Word) /\ quiet' \in BOOLEAN /\ stream_reject' \in BOOLEAN
    BY <1>1, ResetValues, Zenon
  <2> QED
    BY <1>1, <2>1 DEF ReceiveTypeOK, BridgeInv, BridgeTypeOK
<1>4. ReceiveInv'
  BY <1>1, <1>2 DEF ReceiveInv, CommitTypeOK
<1> QED
  BY <1>2, <1>3, <1>4, BridgeInvParts

(* The opcode of a command stream, with no commit running. *)
LEMMA StreamOpcodeKeeps ==
  ASSUME BridgeInv, FifoKeepsUp, NEW r \in BOOLEAN, StreamOpcode(r)
  PROVE  BridgeInv'
<1>1. /\ UNCHANGED <<stream_declared_words, stream_received_words, accepted,
                     stream_command_words_remaining, stream_reject, command_staging>>
      /\ state = "COMMAND" /\ state' = "STREAM_HEADER" /\ quiet' = FALSE /\ frame' = frame + 1
      /\ ~Committing /\ commit_index' = 0
  BY DEF StreamOpcode, RequestsAcked
<1>2. CommitInv' /\ CommitTypeOK' /\ ~Committing'
  BY <1>1, IdleCommit DEF StreamOpcode
<1>3. wire' \in Seq(Word)
  <2>1. PICK s \in Shapes :
          wire' = [i \in DOMAIN s |-> [frame |-> frame + 1, index |-> i, low |-> s[i]]]
    BY DEF StreamOpcode
  <2>2. s \in Seq(Nat) /\ DOMAIN s = 1 .. Len(s) /\ Len(s) \in Nat /\ frame \in Nat
    BY BridgeAssumption DEF BridgeInv, BridgeTypeOK
  <2>3. \A i \in 1 .. Len(s) : [frame |-> frame + 1, index |-> i, low |-> s[i]] \in Word
    BY <2>2 DEF Word
  <2> QED
    BY <2>1, <2>2, <2>3
<1>4. ReceiveTypeOK'
  <2>1. quiet' \in BOOLEAN
    BY <1>1, ResetValues, Zenon
  <2>2. frame' \in Nat
    BY <1>1 DEF BridgeInv, BridgeTypeOK
  <2> QED
    BY <1>1, <1>3, <2>1, <2>2 DEF ReceiveTypeOK, BridgeInv, BridgeTypeOK
<1>5. ReceiveInv'
  BY <1>1, <1>2 DEF BridgeInv, ReceiveInv, CommitTypeOK
<1> QED
  BY <1>2, <1>4, <1>5, BridgeInvParts

(* The opcode of a flush or of a session reset. *)
LEMMA ControlOpcodeKeeps ==
  ASSUME BridgeInv, NEW r \in BOOLEAN, ControlOpcode(r)
  PROVE  BridgeInv'
<1>1. /\ UNCHANGED <<wire, stream_declared_words, stream_received_words, accepted,
                     stream_command_words_remaining, stream_reject, command_staging, frame>>
      /\ state' \in {"FLUSH_WAIT", "SESSION_RESET_WAIT"} /\ quiet' = FALSE /\ CommitRuns(r)
  BY DEF ControlOpcode, RequestsAcked
<1>2. CommitInv' /\ CommitTypeOK'
  BY <1>1, CommitKeeps
<1>3. ReceiveTypeOK'
  BY <1>1 DEF ReceiveTypeOK, BridgeInv, BridgeTypeOK
<1>4. ReceiveInv'
  BY <1>1, <1>2 DEF ReceiveInv, CommitTypeOK
<1> QED
  BY <1>2, <1>3, <1>4, BridgeInvParts

(* The header of a command stream. *)
LEMMA StreamHeaderKeeps ==
  ASSUME BridgeInv, NEW r \in BOOLEAN, NEW declared \in 0 .. MaxCommandWords + 1,
         StreamHeader(r, declared)
  PROVE  BridgeInv'
<1>1. /\ UNCHANGED <<wire, stream_received_words, accepted,
                     stream_command_words_remaining, command_staging, frame>>
      /\ state = "STREAM_HEADER" /\ state' = "STREAM_DATA" /\ quiet' = FALSE /\ CommitRuns(r)
      /\ stream_declared_words' = declared
  BY DEF StreamHeader, RequestsAcked
<1>2. CommitInv' /\ CommitTypeOK' /\ (~Committing => ~Committing' /\ commit_index' = commit_index)
  BY <1>1, CommitKeeps
<1>3. /\ stream_reject' \in BOOLEAN
      /\ ~stream_reject' => declared # 0 /\ ~(declared > MaxCommandWords)
  BY Zenon DEF StreamHeader
<1>4. declared \in Nat /\ MaxCommandWords \in Nat
      /\ (~stream_reject' => declared \in 1 .. MaxCommandWords)
  BY <1>3, BridgeAssumption
<1>5. ReceiveTypeOK'
  BY <1>1, <1>3, <1>4 DEF ReceiveTypeOK, BridgeInv, BridgeTypeOK
<1>6. stream_received_words = 0 /\ stream_command_words_remaining = 0 /\ ~Committing
      /\ commit_index = 0
  BY <1>1 DEF BridgeInv, ReceiveInv
<1>7. Missing(Staged(stream_received_words))' = 0
  <2>1. Staged(stream_received_words)' = << >>
    BY <1>1, <1>6 DEF Staged
  <2> QED
    BY <2>1, MissingNone
<1>8. ReceiveInv'
  BY <1>1, <1>2, <1>4, <1>6, <1>7 DEF ReceiveInv, CommitTypeOK
<1> QED
  BY <1>2, <1>5, <1>8, BridgeInvParts

(* A word of a command stream. *)
LEMMA StreamWordKeeps ==
  ASSUME BridgeInv, NEW r \in BOOLEAN, StreamWord(r)
  PROVE  BridgeInv'
<1> DEFINE w == Head(wire)
           n == stream_received_words
<1>1. /\ UNCHANGED <<state, stream_declared_words, frame, accepted>>
      /\ state = "STREAM_DATA" /\ quiet' = FALSE /\ CommitRuns(r) /\ wire # << >>
      /\ wire' = Tail(wire) /\ n' = n + 1
      /\ stream_command_words_remaining' = WordsLeft(stream_command_words_remaining, w)
  BY DEF StreamWord, RequestsAcked, NextRemaining
<1>2. ~Committing /\ commit_index = 0
  BY <1>1 DEF BridgeInv, ReceiveInv
<1>3. CommitInv' /\ CommitTypeOK' /\ ~Committing' /\ commit_index' = 0
  <2>1. commit_index' = commit_index
    BY <1>1, <1>2 DEF CommitRuns, NextCommitIndex, Taken, Committing
  <2> QED
    BY <1>1, <1>2, <2>1, IdleCommit DEF CommitRuns
<1>4. w \in Word /\ wire' \in Seq(Word) /\ w.low \in Nat /\ n \in Nat
  <2>1. wire \in Seq(Word) /\ n \in Nat
    BY DEF BridgeInv, BridgeTypeOK
  <2>2. w \in Word /\ wire' \in Seq(Word)
    BY <1>1, <2>1, ST!HeadTailProperties
  <2> QED
    BY <2>1, <2>2 DEF Word
<1>5. stream_command_words_remaining' \in Nat
  BY <1>1, <1>4 DEF WordsLeft, BridgeInv, BridgeTypeOK
<1>6. /\ stream_reject' \in BOOLEAN
      /\ ~stream_reject' => ~stream_reject /\ ~(n >= stream_declared_words)
  BY Zenon DEF StreamWord
<1>7. command_staging' \in [Indices -> Word]
  BY <1>4 DEF StreamWord, BridgeInv, BridgeTypeOK
<1>8. ReceiveTypeOK'
  <2>1. quiet' \in BOOLEAN
    BY <1>1, ResetValues, Zenon
  <2>2. n' \in Nat
    BY <1>1, <1>4
  <2> QED
    BY <1>1, <1>4, <1>5, <1>6, <1>7, <2>1, <2>2 DEF ReceiveTypeOK, BridgeInv, BridgeTypeOK
<1>9. ASSUME ~stream_reject'
      PROVE  /\ stream_declared_words \in 1 .. MaxCommandWords
             /\ n + 1 <= stream_declared_words
             /\ Missing(Staged(stream_received_words))' = stream_command_words_remaining'
  <2>1. /\ ~stream_reject /\ stream_declared_words \in 1 .. MaxCommandWords
        /\ Missing(Staged(n)) = stream_command_words_remaining
        /\ n < stream_declared_words /\ n < MaxCommandWords /\ MaxCommandWords \in Nat
    BY <1>1, <1>4, <1>6, <1>9, BridgeAssumption DEF BridgeInv, ReceiveInv
  <2>2. n \in Indices /\ n \in 0 .. MaxCommandWords
    BY <1>4, <2>1 DEF Indices
  <2>3. command_staging' = [command_staging EXCEPT ![n] = w]
    BY <2>1 DEF StreamWord
  <2>4. Staged(n) \in Seq(Word) /\ Len(Staged(n)) = n
        /\ \A i \in 1 .. n : Staged(n)[i] = command_staging[i - 1]
    BY <2>2, StagedType DEF BridgeInv
  <2>5. Staged(stream_received_words)' = Append(Staged(n), w)
    <3>1. Staged(stream_received_words)' = [i \in 1 .. (n + 1) |-> command_staging'[i - 1]]
      BY <1>1 DEF Staged
    <3>2. ASSUME NEW i \in 1 .. (n + 1) PROVE command_staging'[i - 1] = Append(Staged(n), w)[i]
      <4>1. CASE i = n + 1
        <5>1. command_staging'[n] = w
          BY <2>2, <2>3 DEF BridgeInv, BridgeTypeOK
        <5>2. Append(Staged(n), w)[n + 1] = w
          BY <1>4, <2>4
        <5>3. i - 1 = n
          BY <1>4, <4>1
        <5> QED
          BY <4>1, <5>1, <5>2, <5>3
      <4>2. CASE i \in 1 .. n
        <5>1. i - 1 \in Indices /\ i - 1 # n
          BY <1>4, <2>1, <4>2 DEF Indices
        <5>2. command_staging'[i - 1] = command_staging[i - 1]
          BY <2>3, <5>1 DEF BridgeInv, BridgeTypeOK
        <5>3. Append(Staged(n), w)[i] = Staged(n)[i]
          BY <1>4, <2>4, <4>2
        <5> QED
          BY <2>4, <4>2, <5>2, <5>3
      <4>3. i = n + 1 \/ i \in 1 .. n
        BY <1>4
      <4> QED
        BY <4>1, <4>2, <4>3
    <3>3. Append(Staged(n), w) \in Seq(Word) /\ Len(Append(Staged(n), w)) = n + 1
      BY <1>4, <2>4
    <3> QED
      BY <1>4, <3>1, <3>2, <3>3
  <2>6. Missing(Append(Staged(n), w)) = WordsLeft(Missing(Staged(n)), w)
    BY <1>4, <2>4, MissingAppend
  <2>7. Missing(Staged(stream_received_words))' = stream_command_words_remaining'
    BY <1>1, <2>1, <2>5, <2>6
  <2>8. n + 1 <= stream_declared_words
    BY <1>4, <2>1
  <2> QED
    BY <2>1, <2>7, <2>8
<1>10. ReceiveInv'
  BY <1>1, <1>3, <1>9 DEF ReceiveInv, CommitTypeOK
<1> QED
  BY <1>3, <1>8, <1>10, BridgeInvParts

(* Chip select rises: a whole transaction starts a commit, a flush or a    *)
(* session reset cancels the one that runs, anything else is dropped.      *)
LEMMA CsEndKeeps ==
  ASSUME BridgeInv, NEW r \in BOOLEAN, NEW intact \in BOOLEAN, CsEnd(r, intact)
  PROVE  BridgeInv'
<1>1. /\ UNCHANGED <<stream_declared_words, stream_received_words,
                     stream_command_words_remaining, stream_reject, command_staging, frame>>
      /\ quiet /\ quiet' = FALSE /\ state' = "IDLE" /\ wire' = << >>
  BY DEF CsEnd
<1>2. ReceiveTypeOK'
  <2>1. wire' \in Seq(Word) /\ quiet' \in BOOLEAN
    BY <1>1, ResetValues, Zenon
  <2> QED
    BY <1>1, <2>1 DEF ReceiveTypeOK, BridgeInv, BridgeTypeOK
<1>3. SUFFICES CommitInv' /\ CommitTypeOK'
  <2>1. CommitTypeOK' => ReceiveInv'
    BY <1>1 DEF ReceiveInv, CommitTypeOK
  <2> QED
    BY <1>2, <2>1, BridgeInvParts
<1>4. ASSUME CommitCancelled(r) PROVE CommitInv' /\ CommitTypeOK'
  <2>1. /\ cmd_valid' = FALSE /\ commit_start_pending' = FALSE /\ commit_index' = 0
        /\ commit_words' = 0 /\ accepted' = << >> /\ published' = << >>
        /\ cmd_data' = NextCmdData(r) /\ ReadAhead(r)
    BY <1>4 DEF CommitCancelled
  <2>2. CommitInv'
    BY <2>1, MissingNone DEF CommitInv, Committing
  <2>3. staging_read_data' \in Word /\ cmd_data' \in Word
    BY <2>1, ReadTyped DEF ReadAhead, NextCmdData, BridgeInv, BridgeTypeOK
  <2>4. /\ accepted' \in Seq(Word) /\ published' \in Seq(Word)
        /\ cmd_valid' \in BOOLEAN /\ commit_start_pending' \in BOOLEAN
    BY <2>1, ResetValues, Zenon
  <2> QED
    BY <2>1, <2>2, <2>3, <2>4, ResetValues DEF CommitTypeOK
<1>5. ASSUME CommitRuns(r), RequestsAcked PROVE CommitInv' /\ CommitTypeOK'
  BY <1>1, <1>5, CommitKeeps DEF RequestsAcked
<1>6. ASSUME /\ state = "STREAM_DATA" /\ StreamAccepted(intact)
             /\ commit_index' = 0
             /\ commit_words' = stream_received_words
             /\ cmd_data' = staging_read_data
             /\ commit_start_pending' = TRUE
             /\ cmd_valid' = NextCmdValid(r)
             /\ ReadAhead(r)
             /\ published' = Published(r)
             /\ accepted' = accepted \o
                  [i \in 1 .. stream_received_words |-> command_staging[i - 1]]
      PROVE  CommitInv' /\ CommitTypeOK'
  <2> DEFINE n == stream_received_words
  <2>1. /\ ~stream_reject /\ n = stream_declared_words /\ stream_command_words_remaining = 0
        /\ ~Committing
    BY <1>6 DEF StreamAccepted
  <2>2. /\ n \in 1 .. MaxCommandWords /\ Missing(Staged(n)) = 0 /\ commit_index = 0
        /\ staging_read_data = command_staging[0] /\ n \in Nat /\ n # 0
    BY <1>1, <1>6, <2>1, BridgeAssumption DEF BridgeInv, ReceiveInv
  <2>3. n \in 0 .. MaxCommandWords /\ Staged(n) \in Seq(Word) /\ Len(Staged(n)) = n
    <3>1. n \in 0 .. MaxCommandWords
      BY <2>2, BridgeAssumption
    <3> QED
      BY <3>1, StagedType DEF BridgeInv
  <2>4. ~cmd_valid /\ ~commit_start_pending
    BY <2>1 DEF Committing
  <2>5. cmd_valid' = FALSE /\ published' = published /\ published = accepted
    BY <1>6, <2>1, <2>4 DEF NextCmdValid, Published, Taken, BridgeInv, CommitInv
  <2>6. accepted' = published \o Staged(n) /\ accepted' \in Seq(Word) /\ published \in Seq(Word)
        /\ accepted \in Seq(Word)
    BY <1>6, <2>3, <2>5, ST!ConcatProperties DEF Staged, BridgeInv, BridgeTypeOK
  <2>7. Missing(accepted') = 0
    <3>1. Missing(accepted) = 0
      BY DEF BridgeInv, CommitInv
    <3> QED
      BY <2>2, <2>3, <2>5, <2>6, <3>1, MissingConcat
  <2>8. SubSeq(Staged(n), 0 + 1, n) = Staged(n)
    BY <2>2, <2>3
  <2>9. Staged(commit_words)' = Staged(n)
    BY <1>1, <1>6 DEF Staged
  <2>10. CommitInv'
    <3>1. /\ ~cmd_valid' /\ commit_start_pending' /\ commit_index' = 0 /\ commit_words' = n
          /\ cmd_data' = command_staging'[0] /\ published' = published
      BY <1>1, <1>6, <2>2, <2>5
    <3>2. accepted' = published' \o SubSeq(Staged(commit_words)', 0 + 1, n)
      BY <2>6, <2>8, <2>9, <3>1
    <3>3. Committing' /\ 0 < n
      BY <2>2, <3>1 DEF Committing
    <3> HIDE DEF n
    <3> QED
      BY <2>2, <2>7, <3>1, <3>2, <3>3 DEF CommitInv
  <2>11. staging_read_data' \in Word /\ cmd_data' \in Word
    BY <1>6, ReadTyped DEF ReadAhead, BridgeInv, BridgeTypeOK
  <2>12. 0 \in Indices
    BY BridgeAssumption DEF Indices
  <2> QED
    BY <1>6, <2>2, <2>5, <2>6, <2>10, <2>11, <2>12 DEF CommitTypeOK
<1> QED
  BY <1>4, <1>5, <1>6 DEF CsEnd

(* Every step keeps the invariant while the FIFO keeps up. *)
LEMMA BridgeInvStep ==
  ASSUME FifoKeepsUp, BridgeInv, [BridgeNext]_bridgeVars
  PROVE  BridgeInv'
<1>1. CASE BridgeNext
  BY <1>1, NoSpiEventKeeps, CsStartKeeps, StreamOpcodeKeeps, ControlOpcodeKeeps,
     StreamHeaderKeeps, StreamWordKeeps, CsEndKeeps DEF BridgeNext
<1>2. CASE UNCHANGED bridgeVars
  <2>1. UNCHANGED <<receiveVars, commitVars, accepted>>
    BY <1>2 DEF bridgeVars, requestVars
  <2> QED
    BY <2>1 DEF receiveVars, commitVars, BridgeInv, BridgeTypeOK, ReceiveInv, CommitInv,
                Committing, Staged
<1> QED
  BY <1>1, <1>2

(* While the FIFO drains a commit before the next command stream begins,   *)
(* what it has taken since the last flush or reset is what was accepted,   *)
(* in order and without a gap, and the parser behind it stands at a        *)
(* command boundary whenever no commit runs (spi_register_bridge).         *)
THEOREM CommandsArriveWhole ==
  FifoKeepsUp => (BridgeSpec => [](PublishedWhole /\ CommandBoundary))
<1> SUFFICES ASSUME FifoKeepsUp PROVE BridgeSpec => [](PublishedWhole /\ CommandBoundary)
  OBVIOUS
<1>1. BridgeInv => PublishedWhole /\ CommandBoundary
  <2> SUFFICES ASSUME BridgeInv PROVE PublishedWhole /\ CommandBoundary
    OBVIOUS
  <2>1. ~Committing => published = accepted
    BY DEF BridgeInv, CommitInv
  <2>2. IsPrefix(published, accepted)
    <3>1. published \in Seq(Word) /\ accepted \in Seq(Word)
      BY DEF BridgeInv, BridgeTypeOK
    <3>2. CASE ~Committing
      BY <2>1, <3>1, <3>2 DEF IsPrefix
    <3>3. CASE Committing
      <4> DEFINE u == SubSeq(Staged(commit_words), commit_index + 1, commit_words)
      <4>1. /\ accepted = published \o u /\ commit_words \in 1 .. MaxCommandWords
            /\ commit_index \in Nat
        BY <3>3 DEF BridgeInv, BridgeTypeOK, CommitInv
      <4>2. commit_words \in 0 .. MaxCommandWords /\ commit_words \in Nat
        BY <4>1, BridgeAssumption
      <4>3. Staged(commit_words) \in Seq(Word) /\ Len(Staged(commit_words)) = commit_words
        BY <4>2, StagedType DEF BridgeInv
      <4>4. u \in Seq(Word)
        BY <4>1, <4>2, <4>3
      <4> HIDE DEF u
      <4> QED
        BY <3>1, <4>1, <4>4 DEF IsPrefix
    <3> QED
      BY <3>2, <3>3
  <2> QED
    BY <2>1, <2>2 DEF PublishedWhole, CommandBoundary, BridgeInv, CommitInv
<1>2. BridgeInv /\ [BridgeNext]_bridgeVars => BridgeInv'
  BY BridgeInvStep
<1> QED
  BY <1>1, <1>2, BridgeInvInit, PTL DEF BridgeSpec
=============================================================================
