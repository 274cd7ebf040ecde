----------------------------- MODULE HostPlayer -----------------------------
(***************************************************************************)
(* The real-time MIDI host program (src/host): three threads around two    *)
(* bounded queues.  MidiInputWorker reads MIDI bytes and pushes events     *)
(* into BoundedMidiEventQueue (or the main loop pushes them from a file);  *)
(* the main loop pops them and turns each one into a batch of FPGA         *)
(* commands; the worker thread of AsyncCommandScheduler gathers pending    *)
(* commands into transactions and retries each of them until the CH347     *)
(* accepts it.  At the end the main thread stops every voice, waits for    *)
(* the scheduler to fall idle, and shuts it down.                          *)
(*                                                                         *)
(* A batch holds producer_batch_depth_ above zero and the worker takes     *)
(* nothing meanwhile, so a batch is one step.  Which voice a note gets is  *)
(* McuModel's subject and a free choice here; what a command carries is    *)
(* one value per update kind.  No command the program emits belongs to the *)
(* scheduler's "normal" class, so that queue is absent.                    *)
(***************************************************************************)
EXTENDS Integers, Sequences, FiniteSets, FiniteSetsExt

CONSTANTS
  HostVoiceCount,     \* kNumVoices
  KindList,           \* VOICE_GAIN, VOICE_PITCH, VOICE_FILTER
  LifecycleCapacity,  \* kSchedulerLifecycleCapacity
  TransactionWords,   \* kMaxTransactionWords
  StartWords,         \* words of a START; every other command counts one
  MidiCapacity,       \* BoundedMidiEventQueue::kCapacity
  LifecycleReserve,   \* BoundedMidiEventQueue::kLifecycleReserve
  ErrorLimit,         \* consecutive transport errors before main gives up
  MaxMidiEvents       \* bound: MIDI events the source produces

ASSUME HostAssumption ==
  /\ HostVoiceCount \in Nat \ {0}
  /\ KindList \in Seq(STRING) /\ KindList # << >>
  /\ \A i, j \in DOMAIN KindList : KindList[i] = KindList[j] => i = j
  /\ TransactionWords \in Nat /\ StartWords \in 1 .. TransactionWords
  /\ LifecycleCapacity \in Nat /\ MidiCapacity \in Nat
  /\ LifecycleReserve \in 0 .. MidiCapacity

HostVoiceIds == 0 .. HostVoiceCount - 1
UpdateKinds == {KindList[i] : i \in DOMAIN KindList}
KindCount == Len(KindList)
Values == {0, 1}
NoCommand == [op |-> "NONE"]

VARIABLES
  midi,         \* BoundedMidiEventQueue: events in order
  source,       \* the input: "raw" or "file" while open, else why it ended
  midiOverflow, \* lifecycle_overflow_
  produced,     \* events the source has produced
  control,      \* value of each update kind on the channel
  intent,       \* per voice: what the main thread has asked for
  lifecycle,    \* lifecycle_ queue
  replaceable,  \* replaceable_[voice][kind]
  cursor,       \* replaceable_cursor_
  worker,       \* scheduler thread: "wait", "write" (worker_busy_) or "ended"
  transaction,  \* commands being written
  consecutive,  \* stats_.consecutive_transport_errors
  stopping,     \* stopping_
  abandoned,    \* stats_.abandoned_commands # 0
  main,         \* main thread
  fatal, drained,
  stop,         \* stop_requested, or the run time is over
  fpga          \* per voice: what the FPGA holds

inputVars == <<midi, source, midiOverflow, produced>>
queueVars == <<lifecycle, replaceable, cursor>>
workerVars == <<worker, transaction, consecutive, abandoned, fpga>>
mainVars == <<main, fatal, drained, stop, stopping>>
hostVars == <<inputVars, control, intent, queueVars, workerVars, mainVars>>

IdleVoice == [gen |-> 0, state |-> "off", value |-> [k \in UpdateKinds |-> 0]]

HostInit ==
  /\ midi = << >> /\ source \in {"raw", "file"} /\ midiOverflow = FALSE
  /\ produced = 0
  /\ control = [k \in UpdateKinds |-> 0]
  /\ intent = [v \in HostVoiceIds |-> IdleVoice]
  /\ lifecycle = << >>
  /\ replaceable = [v \in HostVoiceIds |-> [k \in UpdateKinds |-> NoCommand]]
  /\ cursor = 0
  /\ worker = "wait" /\ transaction = << >> /\ consecutive = 0
  /\ stopping = FALSE /\ abandoned = FALSE
  /\ main = "loop" /\ fatal = FALSE /\ drained = FALSE /\ stop = FALSE
  /\ fpga = [v \in HostVoiceIds |-> IdleVoice]

----------------------------------------------------------------------------
(* BoundedMidiEventQueue.  Note Off and All Sound Off are lifecycle        *)
(* events, allowed into the reserve; controllers are replaceable.          *)

MidiEvents ==
  {[type |-> t] : t \in {"note_on", "note_off", "sound_off"}}
    \cup [type : {"control"}, kind : UpdateKinds, val : Values]

LifecycleEvent(e) == e.type \in {"note_off", "sound_off"}
ReplaceableEvent(e) == e.type = "control"
SameReplacementKey(a, b) == a.type = "control" /\ b.type = "control" /\ a.kind = b.kind

QueueFull(e) ==
  \/ ~LifecycleEvent(e) /\ Len(midi) >= MidiCapacity - LifecycleReserve
  \/ Len(midi) = MidiCapacity

(* push(): past the limit a controller replaces the newest queued event of *)
(* its key or is dropped, a Note On is dropped, and a lifecycle event that *)
(* finds even the reserve full raises the overflow.                        *)
Push(e) ==
  LET twins == {i \in DOMAIN midi : SameReplacementKey(midi[i], e)}
      overflow == QueueFull(e) /\ LifecycleEvent(e)
  IN /\ midi' = IF ~QueueFull(e) THEN Append(midi, e)
                ELSE IF ReplaceableEvent(e) /\ twins # {}
                     THEN [midi EXCEPT ![Max(twins)] = e]
                     ELSE midi
     /\ midiOverflow' = (midiOverflow \/ overflow)
     /\ produced' = IF overflow /\ source = "file" THEN produced ELSE produced + 1

(* MidiInputWorker::run: a decoded event is pushed; the thread ends on a   *)
(* lifecycle overflow, and when the device goes away.                      *)
InputEvent(e) ==
  /\ source = "raw" /\ main \in {"loop", "pop"} /\ produced < MaxMidiEvents
  /\ Push(e)
  /\ source' = IF midiOverflow' THEN "ended" ELSE source
  /\ UNCHANGED <<control, intent, queueVars, workerVars, mainVars>>

InputDisconnects ==
  /\ source = "raw" /\ main \in {"loop", "pop"}
  /\ source' = "disconnected"
  /\ UNCHANGED <<midi, midiOverflow, produced, control, intent, queueVars, workerVars,
                 mainVars>>

(* A signal, or --run-ms has passed. *)
StopRequested ==
  /\ ~stop /\ main \in {"loop", "pop"}
  /\ stop' = TRUE
  /\ UNCHANGED <<inputVars, control, intent, queueVars, workerVars, main, fatal, drained,
                 stopping>>

----------------------------------------------------------------------------
(* AsyncCommandScheduler, producer side.  A scheduler state q is the       *)
(* record of its queues; `threw` records an overflow_error.                *)

Scheduler == [lifecycle |-> lifecycle, replaceable |-> replaceable, threw |-> FALSE]

(* A START drops the pending updates of other generations of its voice, a  *)
(* STOP all of them.                                                       *)
InvalidateUpdates(updates, c) ==
  [k \in UpdateKinds |->
     IF c.op = "STOP" \/ (c.op = "START" /\ updates[k].op # "NONE" /\ updates[k].g # c.g)
     THEN NoCommand ELSE updates[k]]

LifecycleCommand(c) == c.op \in {"START", "RELEASE", "STOP"}

(* Mutant of EnqueueOne: a pending update is kept and the newer one lost. *)
EnqueueOneKeepsFirst(q, c) ==
  LET updates == InvalidateUpdates(q.replaceable[c.v], c)
  IN IF q.threw THEN q
     ELSE IF ~LifecycleCommand(c)
          THEN [q EXCEPT !.replaceable[c.v][c.kind] = IF @ = NoCommand THEN c ELSE @]
          ELSE [q EXCEPT !.replaceable[c.v] = updates, !.lifecycle = Append(@, c)]

(* enqueue_one.  An overflow leaves the invalidation done and the command  *)
(* out; the commands of the batch after it are never offered.              *)
EnqueueOne(q, c) ==
  LET updates == InvalidateUpdates(q.replaceable[c.v], c)
  IN IF q.threw THEN q
     ELSE IF ~LifecycleCommand(c)
          THEN [q EXCEPT !.replaceable[c.v][c.kind] = c]
          ELSE IF Len(q.lifecycle) = LifecycleCapacity
               THEN [q EXCEPT !.replaceable[c.v] = updates, !.threw = TRUE]
               ELSE [q EXCEPT !.replaceable[c.v] = updates,
                              !.lifecycle = Append(@, c)]

(* write_command_words for every command of one batch, which has at most   *)
(* one for a voice and goes through the voices in order; threw is the      *)
(* exception that reaches the caller.                                      *)
Enqueued(batch) ==
  LET q[n \in 0 .. HostVoiceCount] ==
        IF n = 0 THEN Scheduler
        ELSE IF batch[n - 1].op = "NONE" THEN q[n - 1] ELSE EnqueueOne(q[n - 1], batch[n - 1])
  IN  q[HostVoiceCount]

EnqueueBatch(batch) ==
  /\ lifecycle' = Enqueued(batch).lifecycle /\ replaceable' = Enqueued(batch).replaceable
  /\ UNCHANGED cursor

Command(op, v) == [op |-> op, v |-> v, g |-> intent[v].gen]
Start(v) == [op |-> "START", v |-> v, g |-> intent[v].gen + 1, value |-> control]
Update(v, k, value) == [op |-> "UPDATE", v |-> v, g |-> intent[v].gen, kind |-> k, val |-> value]

NoCommands == [v \in HostVoiceIds |-> NoCommand]
Only(v, command) == [NoCommands EXCEPT ![v] = command]

Playing(v) == intent[v].state \in {"on", "released"}

StopCommands == [v \in HostVoiceIds |-> IF Playing(v) THEN Command("STOP", v) ELSE NoCommand]
Stopped ==
  [v \in HostVoiceIds |-> IF Playing(v) THEN [intent[v] EXCEPT !.state = "stopped"] ELSE intent[v]]

(* The batch an event leads to, and the state the main thread keeps.  Note *)
(* Off finds nothing to release when no voice is held.                     *)
Handled(batch, wanted, values) ==
  /\ EnqueueBatch(batch)
  /\ intent' = wanted /\ control' = values
  /\ fatal' = (fatal \/ Enqueued(batch).threw)
  /\ main' = IF Enqueued(batch).threw THEN "silence" ELSE main

HandleNoteOn(v) ==
  Handled(Only(v, Start(v)),
          [intent EXCEPT ![v] = [gen |-> @.gen + 1, state |-> "on", value |-> control]], control)

HandleNoteOff ==
  \/ /\ \A v \in HostVoiceIds : intent[v].state # "on"
     /\ Handled(NoCommands, intent, control)
  \/ \E v \in HostVoiceIds :
       /\ intent[v].state = "on"
       /\ Handled(Only(v, Command("RELEASE", v)), [intent EXCEPT ![v].state = "released"],
                  control)

(* refresh_voice emits an update only when the value changed.              *)
Touched(v, k, value) == Playing(v) /\ intent[v].value[k] # value

HandleControl(k, value) ==
  Handled([v \in HostVoiceIds |-> IF Touched(v, k, value) THEN Update(v, k, value) ELSE NoCommand],
          [v \in HostVoiceIds |-> IF Touched(v, k, value)
                                  THEN [intent[v] EXCEPT !.value[k] = value] ELSE intent[v]],
          [control EXCEPT ![k] = value])

HandleEvent(e) ==
  \/ e.type = "note_on" /\ \E v \in HostVoiceIds : HandleNoteOn(v)
  \/ e.type = "note_off" /\ HandleNoteOff
  \/ e.type = "control" /\ HandleControl(e.kind, e.val)
  \/ e.type = "sound_off" /\ Handled(StopCommands, Stopped, control)

----------------------------------------------------------------------------
(* Main loop *)

(* One event of the file falls due while main is at the head of its loop.  *)
FileEvent(e) ==
  /\ source = "file" /\ main = "loop" /\ ~stop /\ ~midiOverflow
  /\ produced < MaxMidiEvents
  /\ Push(e)
  /\ UNCHANGED <<source, control, intent, queueVars, workerVars, mainVars>>

InputEnded == source = "disconnected" \/ (source = "file" /\ produced = MaxMidiEvents)

(* The checks at the head of the loop, in their order. *)
LoopHead ==
  /\ main = "loop"
  /\ main' = IF stop \/ midiOverflow \/ consecutive >= ErrorLimit THEN "silence" ELSE "pop"
  /\ fatal' = (fatal \/ (~stop /\ (midiOverflow \/ consecutive >= ErrorLimit)))
  /\ UNCHANGED <<inputVars, control, intent, queueVars, workerVars, drained, stop, stopping>>

PopEvent ==
  /\ main = "pop" /\ midi # << >>
  /\ midi' = Tail(midi)
  /\ HandleEvent(Head(midi))
  /\ UNCHANGED <<source, midiOverflow, produced, workerVars, drained, stop, stopping>>

(* The queue is empty: leave when the source has ended, else sleep and go  *)
(* round.                                                                  *)
LoopEnd ==
  /\ main = "pop" /\ midi = << >>
  /\ main' = IF InputEnded THEN "silence" ELSE "loop"
  /\ UNCHANGED <<inputVars, control, intent, queueVars, workerVars, fatal, drained, stop,
                 stopping>>

(* midi_input->stop(), then All Sound Off on every channel in one batch. *)
SilenceAll ==
  /\ main = "silence"
  /\ EnqueueBatch(StopCommands)
  /\ intent' = Stopped
  /\ fatal' = (fatal \/ Enqueued(StopCommands).threw)
  /\ main' = "drain"
  /\ UNCHANGED <<inputVars, control, workerVars, drained, stop, stopping>>

Pending ==
  lifecycle # << >> \/ \E v \in HostVoiceIds, k \in UpdateKinds : replaceable[v][k].op # "NONE"

(* Mutant of Idle: worker_busy_ is not looked at. *)
IdleWhenEmpty == ~Pending

Idle == worker # "write" /\ ~Pending

(* wait_idle(2 s): the predicate, or the timeout. *)
WaitIdle ==
  /\ main = "drain"
  /\ drained' = Idle
  /\ fatal' = (fatal \/ ~drained')
  /\ main' = "shutdown"
  /\ UNCHANGED <<inputVars, control, intent, queueVars, workerVars, stop, stopping>>

Shutdown ==
  /\ main = "shutdown" /\ ~stopping
  /\ stopping' = TRUE
  /\ UNCHANGED <<inputVars, control, intent, queueVars, workerVars, main, fatal, drained, stop>>

Join ==
  /\ main = "shutdown" /\ worker = "ended"
  /\ main' = "exit"
  /\ UNCHANGED <<inputVars, control, intent, queueVars, workerVars, fatal, drained, stop,
                 stopping>>

----------------------------------------------------------------------------
(* Scheduler thread *)

(* Replaceable slots in the order take_next_locked scans them.             *)
FlatSlot(n) == [v |-> n \div KindCount, k |-> KindList[(n % KindCount) + 1]]
SlotCount == HostVoiceCount * KindCount
UpdateAt(n) == replaceable[FlatSlot(n).v][FlatSlot(n).k]
ScanOrder ==
  LET scan[i \in 0 .. SlotCount] ==
        IF i = 0 THEN << >>
        ELSE IF UpdateAt((cursor + i - 1) % SlotCount).op = "NONE" THEN scan[i - 1]
        ELSE Append(scan[i - 1], (cursor + i - 1) % SlotCount)
  IN  scan[SlotCount]

TakeOrder == lifecycle \o [i \in 1 .. Len(ScanOrder) |-> UpdateAt(ScanOrder[i])]

CommandLength(c) == IF c.op = "START" THEN StartWords ELSE 1
WordsOf(cs) ==
  LET words[n \in 0 .. Len(cs)] == IF n = 0 THEN 0 ELSE words[n - 1] + CommandLength(cs[n])
  IN  words[Len(cs)]

(* Commands that fit one transaction; the first one always does. *)
Fitting == Max({n \in 1 .. Len(TakeOrder) : WordsOf(SubSeq(TakeOrder, 1, n)) <= TransactionWords})

(* Unless the transaction is full, a command that does not fit is taken    *)
(* and returned, which leaves the round-robin cursor behind it.            *)
Gather ==
  /\ worker = "wait" /\ Pending
  /\ transaction' = SubSeq(TakeOrder, 1, Fitting)
  /\ LET updates == Fitting - Len(lifecycle)
         returned == Fitting < Len(TakeOrder) /\ WordsOf(transaction') < TransactionWords
         scanned == IF returned THEN updates + 1 ELSE updates
     IN /\ lifecycle' = SubSeq(lifecycle, Fitting + 1, Len(lifecycle))
        /\ replaceable' =
             [v \in HostVoiceIds |-> [k \in UpdateKinds |->
                IF \E i \in 1 .. updates : FlatSlot(ScanOrder[i]) = [v |-> v, k |-> k]
                THEN NoCommand ELSE replaceable[v][k]]]
        /\ cursor' = IF scanned > 0 THEN (ScanOrder[scanned] + 1) % SlotCount ELSE cursor
  /\ worker' = "write"
  /\ UNCHANGED <<inputVars, control, intent, consecutive, abandoned, fpga, mainVars>>

(* The FPGA takes a transaction whole and in order. *)
Applied(voices, c) ==
  IF c.op = "START"
  THEN [voices EXCEPT ![c.v] = [gen |-> c.g, state |-> "on", value |-> c.value]]
  ELSE IF voices[c.v].gen # c.g \/ voices[c.v].state = "stopped" THEN voices
  ELSE CASE c.op = "RELEASE" -> [voices EXCEPT ![c.v].state = "released"]
         [] c.op = "STOP" -> [voices EXCEPT ![c.v].state = "stopped"]
         [] c.op = "UPDATE" -> [voices EXCEPT ![c.v].value[c.kind] = c.val]

Delivered(voices, commands) ==
  LET f[n \in 0 .. Len(commands)] == IF n = 0 THEN voices ELSE Applied(f[n - 1], commands[n])
  IN  f[Len(commands)]

Reaches == fpga' = Delivered(fpga, transaction)

Finish == worker' = "wait" /\ transaction' = << >>

WriteSucceeds ==
  /\ worker = "write"
  /\ Reaches /\ Finish
  /\ consecutive' = 0
  /\ UNCHANGED <<inputVars, control, intent, queueVars, abandoned, mainVars>>

Abandons == stopping

(* A failed write may have reached the FPGA or not.  It is retried, and    *)
(* given up only once shutdown has begun.  Only consecutive >= ErrorLimit  *)
(* matters above the limit, so the count moves between the limit and one   *)
(* above it and every failure is a step: nothing forces a write to succeed.*)
WriteFails ==
  /\ worker = "write"
  /\ Reaches \/ UNCHANGED fpga
  /\ consecutive' = IF consecutive <= ErrorLimit THEN consecutive + 1 ELSE ErrorLimit
  /\ IF Abandons THEN abandoned' = TRUE /\ Finish
     ELSE UNCHANGED <<abandoned, worker, transaction>>
  /\ UNCHANGED <<inputVars, control, intent, queueVars, mainVars>>

(* Mutant of WorkerEnds: the wait for a command does not look at stopping_. *)
WorkerEndsAwake ==
  /\ worker = "wait" /\ stopping /\ Pending
  /\ worker' = "ended"
  /\ UNCHANGED <<inputVars, control, intent, queueVars, transaction, consecutive, abandoned,
                 fpga, mainVars>>

WorkerEnds ==
  /\ worker = "wait" /\ stopping /\ ~Pending
  /\ worker' = "ended"
  /\ UNCHANGED <<inputVars, control, intent, queueVars, transaction, consecutive, abandoned,
                 fpga, mainVars>>

----------------------------------------------------------------------------
MainStep == LoopHead \/ PopEvent \/ LoopEnd \/ SilenceAll \/ WaitIdle \/ Shutdown \/ Join
WriteStep == WriteSucceeds \/ WriteFails
WorkerStep == Gather \/ WriteStep \/ WorkerEnds

HostNext ==
  \/ \E e \in MidiEvents : InputEvent(e) \/ FileEvent(e)
  \/ InputDisconnects \/ StopRequested
  \/ MainStep \/ WorkerStep

HostSpec == HostInit /\ [][HostNext]_hostVars /\ WF_hostVars(MainStep) /\ WF_hostVars(WorkerStep)

----------------------------------------------------------------------------
(* Once the scheduler has nothing left to send and has abandoned nothing,  *)
(* the FPGA holds exactly the voices the main thread meant it to hold:     *)
(* coalescing, updates that overtake a START or outlive their note,        *)
(* transactions cut at the word limit, retries and transactions delivered  *)
(* twice have lost and reordered nothing that matters                      *)
(* (command_scheduler.cpp).                                                *)
HostAgrees ==
  Idle /\ ~abandoned /\ ~fatal =>
    \A v \in HostVoiceIds :
      /\ fpga[v].gen = intent[v].gen /\ fpga[v].state = intent[v].state
      /\ intent[v].state # "stopped" => fpga[v].value = intent[v].value

(* When the program exits reporting success, no voice sounds. *)
SilentAtExit ==
  main = "exit" /\ ~fatal => \A v \in HostVoiceIds : fpga[v].state \notin {"on", "released"}

(* Whatever the transport does, a request to stop ends the program. *)
HostExits == stop ~> main = "exit"
=============================================================================
