---------------------------- MODULE VoiceRuntime ----------------------------
(***************************************************************************)
(* The voice table of the MCU (msf2_runtime) and its services on the       *)
(* control core: Note On with layers, exclusive classes and stealing, Note *)
(* Off, pedals, channel modes, controller changes, the control job that    *)
(* advances and refreshes the voices slice by slice, and the completions   *)
(* that free them.  The FPGA is what the table believes it commands: a     *)
(* START replaces a slot, RELEASE and STOP name a generation, and a voice  *)
(* that ends is reported once.                                             *)
(*                                                                         *)
(* A handler runs to its end or to the first command the sink refuses.  It *)
(* is a chain of functions on a record: the runtime, the FPGA's slots and  *)
(* log as its commands have changed them, and the commands the sink will   *)
(* still take.  A loop over voices sends each at most one command, a       *)
(* refresh one for each control group, so its effect is stated for all of  *)
(* them at once: the sink takes the first of the commands, in the loop's   *)
(* order.                                                                  *)
(*                                                                         *)
(* A voice's gain, pitch and filter are control groups, computed from the  *)
(* channel and marked, refreshed and compared one by one.  The sources of  *)
(* a channel are of two classes: the pitch wheel and its range, and the    *)
(* controllers, pressures and generator offsets, which are one value cc.   *)
(***************************************************************************)
EXTENDS Integers, Sequences, SequencesExt, FiniteSets, FiniteSetsExt

CONSTANTS
  VoiceCount,    \* voice_capacity
  ChannelCount,  \* MSF2_CHANNEL_COUNT
  Notes,
  Layers,        \* note |-> the layers msf2_collect_layers finds for it
  BendFeeds,     \* the control groups whose sums have a term of the pitch wheel or its range
  Slice,         \* APP_CONTROL_VOICE_SLICE
  Elapsed,       \* ticks a control job may have to catch up on
  Limits,        \* commands the sink may take from one handler before it refuses
  MaxNotes,      \* bound: Note Ons
  MaxControls    \* bound: controller, pedal and mode messages

Groups == {"gain", "pitch", "filter"}

(* An exclusive class belongs to its preset: a number stands for the pair. *)
(* periodic is what voice_periodic_groups finds.                           *)
Layer == [exclusive : Nat, periodic : SUBSET Groups]

(* APP_CONTROL_UPDATE_PERIOD_MS makes every visit one of several ticks,    *)
(* which refreshes a periodic filter as it does pitch and gain; the four   *)
(* tick cadence of a visit of one tick is ModulationClock's.               *)
ASSUME RuntimeAssumption ==
  /\ VoiceCount \in Nat \ {0} /\ ChannelCount \in Nat \ {0}
  /\ Notes # {} /\ Layers \in [Notes -> Seq(Layer)]
  /\ Slice \in 1 .. VoiceCount
  /\ Elapsed \subseteq Nat \ {0, 1}
  /\ BendFeeds \subseteq Groups
  /\ Limits \subseteq Nat /\ {MaxNotes, MaxControls} \subseteq Nat

Voices == 0 .. VoiceCount - 1
Channels == 0 .. ChannelCount - 1

VARIABLES
  rt,        \* msf2_runtime: voices, active list, free stack, channels, counters
  periodic,  \* app_periodic_modulation_enabled
  job,       \* app_control_job
  fpga,      \* voice |-> what sounds in its slot
  log,       \* completions recorded and not yet consumed; their order does not matter here
  fault,     \* app_control_fault: a handler failed, the control core has stopped
  \* history
  keys,      \* keys held down, by channel and note
  drift,     \* voice |-> control ticks applied minus ticks due
  young,     \* slots of the job's snapshot restarted under the job
  resets,    \* channels reset under the job
  aba,       \* channels that ended a job, after a reset, at the revision it remembered
  notes, controls

history == <<keys, drift, young, resets, aba>>
vars == <<rt, periodic, job, fpga, log, fault, history, notes, controls>>

(* A computed value: what the channel's controllers and its bend put into  *)
(* it, and whether oscillators and envelope move it.                       *)
NoValue == [cc |-> 0, bend |-> 0, moving |-> FALSE]

FreeVoice == [stage |-> "FREE", channel |-> 0, note |-> CHOOSE n \in Notes : TRUE,
              generation |-> 0, instance |-> 0, stamp |-> 0, exclusive |-> 0,
              periodic |-> {}, position |-> 0, key_released |-> FALSE,
              sostenuto_held |-> FALSE, last |-> [g \in Groups |-> NoValue]]
ResetChannel == [sustain |-> FALSE, sostenuto |-> FALSE, cc |-> 0, bend |-> 0, dirty |-> {},
                 revision |-> 0]
Silent == [generation |-> 0, sounding |-> FALSE]
NoJob == [active |-> FALSE, cursor |-> 0, elapsed |-> 0, snapshot |-> << >>,
          revisions |-> << >>]

MarkDirty(channel, groups) == [channel EXCEPT !.dirty = @ \union groups, !.revision = @ + 1]

(* The dirty marks set by the toggle survive msf2_runtime_init. *)
RuntimeInit(enabled) ==
  [voices |-> [v \in Voices |-> FreeVoice], active |-> << >>,
   free |-> [i \in 1 .. VoiceCount |-> VoiceCount - i],
   channels |-> [c \in Channels |->
                   IF enabled THEN ResetChannel ELSE MarkDirty(ResetChannel, Groups)],
   instance |-> 0, stamp |-> 0]

Init ==
  /\ rt = RuntimeInit(TRUE) /\ periodic = TRUE
  /\ job = NoJob /\ log = {} /\ fault = FALSE
  /\ fpga = [v \in Voices |-> Silent]
  /\ keys = [c \in Channels |-> [n \in Notes |-> 0]]
  /\ drift = [v \in Voices |-> 0] /\ young = {} /\ resets = {} /\ aba = {}
  /\ notes = 0 /\ controls = 0

-----------------------------------------------------------------------------
(* Handlers. *)

Begin(limit) ==
  [voices |-> rt.voices, active |-> rt.active, free |-> rt.free, channels |-> rt.channels,
   instance |-> rt.instance, stamp |-> rt.stamp, fpga |-> fpga, log |-> log,
   left |-> limit, ok |-> TRUE]

(* A handler ran to r; a refused command latches the fault. *)
Handled(r) ==
  /\ rt' = [voices |-> r.voices, active |-> r.active, free |-> r.free,
            channels |-> r.channels, instance |-> r.instance, stamp |-> r.stamp]
  /\ fpga' = r.fpga /\ log' = r.log /\ fault' = ~r.ok

(* Of the commands a loop has, the ones the sink takes. *)
Taken(left, commands, order) ==
  {u \in commands : Cardinality({w \in commands : order[w] < order[u]}) < left}

(* The loop ends early, and the handler fails, unless it takes them all. *)
EmitEach(r, vs, order, Do(_)) ==
  LET taken == Taken(r.left, vs, order)
  IN  [r EXCEPT !.voices = [v \in Voices |-> IF v \in taken THEN Do(r.voices[v]) ELSE r.voices[v]],
                !.left = @ - Cardinality(taken), !.ok = (taken = vs)]

ListOrder(r) == [v \in Voices |-> r.voices[v].position]

-----------------------------------------------------------------------------
(* The dense list of active voices and the free stack. *)

(* Only the generation of a free slot is ever read again. *)
Emptied(voice) == [FreeVoice EXCEPT !.generation = voice.generation]

ReclaimVoice(r, v) ==
  LET moved == r.active[Len(r.active)]
      position == r.voices[v].position
      placed == [r.voices EXCEPT ![moved].position = position]
  IN  IF r.voices[v].stage = "FREE" THEN r
      ELSE [r EXCEPT !.active = Front([@ EXCEPT ![position] = moved]),
                     !.voices = [placed EXCEPT ![v] = Emptied(@)],
                     !.free = Append(@, v)]

ActivateVoice(r, v) ==
  [r EXCEPT !.active = Append(@, v), !.voices[v].position = Len(r.active) + 1]

AbandonUnpublishedVoice(r, v) ==
  [r EXCEPT !.voices[v] = Emptied(@), !.free = Append(@, v)]

(* One comparison of the scan for a victim. *)
BetterVictim(r, selected, candidate) ==
  LET s == r.voices[selected] c == r.voices[candidate]
  IN  IF \/ c.stage = "RELEASED" /\ s.stage # "RELEASED"
         \/ c.stage = s.stage /\ c.stamp < s.stamp
      THEN candidate ELSE selected

(* The scan goes over the active list. *)
Victim(r) ==
  LET n == Len(r.active) - 1
      best[i \in 0 .. n] ==
        IF i = 0 THEN r.active[1] ELSE BetterVictim(r, best[i - 1], r.active[i + 1])
  IN  best[n]

(* A voice off the free stack; at capacity the victim is reclaimed first,  *)
(* with no command: the START will replace it.                             *)
WithFreeVoice(r) == IF r.free # << >> THEN r ELSE ReclaimVoice(r, Victim(r))

-----------------------------------------------------------------------------
(* Ending voices.  The active list does not change under these loops. *)

Open(voice) == voice.stage \in {"ACTIVE", "SUSTAIN_HELD"}

Released(voice) == [voice EXCEPT !.stage = "RELEASED", !.sostenuto_held = FALSE]

ReleaseVoices(r, vs) == EmitEach(r, vs, ListOrder(r), Released)

(* A STOP ends the voice at once if it still sounds. *)
Stopped(r, vs) ==
  {v \in Taken(r.left, vs, ListOrder(r)) :
     r.fpga[v].sounding /\ r.fpga[v].generation = r.voices[v].generation}

StopVoices(r, vs) ==
  LET s == EmitEach(r, vs, ListOrder(r), Released)
  IN  [s EXCEPT !.fpga = [v \in Voices |-> IF v \in Stopped(r, vs) THEN Silent ELSE r.fpga[v]],
                !.log = @ \union {<<v, r.fpga[v].generation>> : v \in Stopped(r, vs)}]

ActiveVoices(r) == Range(r.active)

(* The voices whose keys go up but that a pedal keeps. *)
Kept(r, vs) ==
  {v \in vs : r.channels[r.voices[v].channel].sustain \/ r.voices[v].sostenuto_held}

(* The keys of vs go up: voices in kept stay, the others are released.     *)
(* The loop marks the voice whose RELEASE is refused and reaches no later. *)
KeysUp(r, vs, kept) ==
  LET refused == (vs \ kept) \ Taken(r.left, vs \ kept, ListOrder(r))
      reached == {v \in vs : \A w \in refused : r.voices[v].position <= r.voices[w].position}
      s == [r EXCEPT !.voices =
              [v \in Voices |->
                 IF v \notin reached THEN r.voices[v]
                 ELSE [r.voices[v] EXCEPT !.key_released = TRUE,
                         !.stage = IF v \in kept THEN "SUSTAIN_HELD" ELSE @,
                         !.sostenuto_held = IF v \in kept THEN @ ELSE FALSE]]]
  IN  ReleaseVoices(s, vs \ kept)

KeyDown(voice) == Open(voice) /\ ~voice.key_released

(* A Note Off ends the oldest instance of the key, with all its layers. *)
Struck(r, c, n) ==
  {v \in ActiveVoices(r) :
     KeyDown(r.voices[v]) /\ r.voices[v].channel = c /\ r.voices[v].note = n}

Oldest(r, c, n) == Min({r.voices[v].instance : v \in Struck(r, c, n)})

NoteOffRuntime(r, c, n) ==
  LET ending == {v \in ActiveVoices(r) :
                   /\ r.voices[v].stage # "RELEASED" /\ r.voices[v].channel = c
                   /\ r.voices[v].instance = Oldest(r, c, n) /\ ~r.voices[v].key_released}
  IN  IF Struck(r, c, n) = {} THEN r ELSE KeysUp(r, ending, Kept(r, ending))

Deferred(r, c) ==
  {v \in ActiveVoices(r) :
     /\ r.voices[v].channel = c /\ r.voices[v].key_released
     /\ r.voices[v].stage = "SUSTAIN_HELD"
     /\ ~r.channels[c].sustain /\ ~r.voices[v].sostenuto_held}

ReleaseDeferred(r, c) == ReleaseVoices(r, Deferred(r, c))

-----------------------------------------------------------------------------
(* Note On. *)

(* What the sums over the channel's sources, and the switch, make of each  *)
(* group of a voice.                                                       *)
Value(channel, enabled, voice, g) ==
  [cc |-> channel.cc, bend |-> IF g \in BendFeeds THEN channel.bend ELSE 0,
   moving |-> enabled /\ g \in voice.periodic]

Target(channels, enabled, voice) ==
  [g \in Groups |-> Value(channels[voice.channel], enabled, voice, g)]

(* Conflicting voices are released before the first layer starts. *)
ReleaseExclusive(r, layer) ==
  IF layer.exclusive = 0 \/ ~r.ok THEN r
  ELSE ReleaseVoices(r, {v \in ActiveVoices(r) : /\ Open(r.voices[v])
                                                 /\ r.voices[v].exclusive = layer.exclusive})

ReleaseConflicts(r, layers) ==
  LET cut[k \in 0 .. Len(layers)] ==
        IF k = 0 THEN r ELSE ReleaseExclusive(cut[k - 1], layers[k])
  IN  cut[Len(layers)]

NewVoice(r, v, c, n, layer) ==
  LET voice == [FreeVoice EXCEPT !.stage = "ACTIVE", !.channel = c, !.note = n,
                  !.generation = r.voices[v].generation + 1, !.instance = r.instance,
                  !.stamp = r.stamp + 1, !.exclusive = layer.exclusive,
                  !.periodic = layer.periodic]
  IN  [voice EXCEPT !.last = Target(r.channels, periodic, voice)]

(* A START replaces whatever sounds in the slot. *)
Started(r, v) ==
  [r EXCEPT !.left = @ - 1,
            !.fpga[v] = [generation |-> r.voices[v].generation, sounding |-> TRUE]]

StartLayer(r, c, n, layer) ==
  LET a == WithFreeVoice(r)
      v == Last(a.free)
      b == [a EXCEPT !.free = Front(@), !.stamp = @ + 1,
                     !.voices[v] = NewVoice(a, v, c, n, layer)]
  IN  IF ~r.ok THEN r
      ELSE IF b.left = 0 THEN AbandonUnpublishedVoice([b EXCEPT !.ok = FALSE], v)
      ELSE ActivateVoice(Started(b, v), v)

StartLayers(r, c, n, layers) ==
  LET started[k \in 0 .. Len(layers)] ==
        IF k = 0 THEN r ELSE StartLayer(started[k - 1], c, n, layers[k])
  IN  started[Len(layers)]

NoteOnRuntime(r, c, n) ==
  LET cut == ReleaseConflicts(r, Layers[n])
  IN  IF Layers[n] = << >> THEN r
      ELSE IF ~cut.ok THEN cut
      ELSE StartLayers([cut EXCEPT !.instance = @ + 1], c, n, Layers[n])

(* Voices a handler gave a new generation; a running job does not know them. *)
Reborn(r) == {v \in Voices : r.voices[v].generation # rt.voices[v].generation}

Reset(f, vs) == [v \in Voices |-> IF v \in vs THEN 0 ELSE f[v]]

NoteOn(c, n) ==
  /\ ~fault /\ notes < MaxNotes
  /\ \E limit \in Limits :
       LET r == NoteOnRuntime(Begin(limit), c, n)
       IN  /\ Handled(r)
           /\ drift' = Reset(drift, Reborn(r))
           /\ young' = IF job.active THEN young \union (Reborn(r) \cap DOMAIN job.snapshot)
                                     ELSE {}
  /\ notes' = notes + 1
  /\ keys' = [keys EXCEPT ![c][n] = @ + 1]
  /\ UNCHANGED <<periodic, job, resets, aba, controls>>

NoteOff(c, n) ==
  /\ ~fault
  /\ keys[c][n] > 0
  /\ \E limit \in Limits : Handled(NoteOffRuntime(Begin(limit), c, n))
  /\ keys' = [keys EXCEPT ![c][n] = @ - 1]
  /\ UNCHANGED <<periodic, job, drift, young, resets, aba, notes, controls>>

-----------------------------------------------------------------------------
(* Controller changes. *)

Dirty(r, c, groups) == [r EXCEPT !.channels[c] = MarkDirty(@, groups)]

(* Pedals up release the voices they held, and then mark the channel. *)
PedalMoved(r, c, down) ==
  LET t == IF down THEN r ELSE ReleaseDeferred(r, c)
  IN  IF t.ok THEN Dirty(t, c, Groups) ELSE t

Sustain(r, c, down) == PedalMoved([r EXCEPT !.channels[c].sustain = down], c, down)

(* Sostenuto keeps the keys that are down when it is pressed. *)
SostenutoHeld(r, c, v, down) ==
  LET on == r.channels[c].sostenuto
  IN  CASE v \in ActiveVoices(r) /\ r.voices[v].channel = c /\ down /\ ~on ->
             r.voices[v].sostenuto_held \/ KeyDown(r.voices[v])
        [] v \in ActiveVoices(r) /\ r.voices[v].channel = c /\ ~down /\ on -> FALSE
        [] OTHER -> r.voices[v].sostenuto_held

Sostenuto(r, c, down) ==
  PedalMoved([r EXCEPT !.channels[c].sostenuto = down,
                       !.voices = [v \in Voices |->
                         [r.voices[v] EXCEPT !.sostenuto_held = SostenutoHeld(r, c, v, down)]]],
             c, down)

AllSoundOff(r, c) == StopVoices(r, {v \in ActiveVoices(r) : r.voices[v].channel = c})

AllNotesOff(r, c) ==
  LET ending == {v \in ActiveVoices(r) : r.voices[v].channel = c /\ KeyDown(r.voices[v])}
  IN  KeysUp(r, ending, Kept(r, ending))

(* The whole channel, its dirty revision included, starts over. *)
ClearChannel(r, c) ==
  [r EXCEPT !.channels[c] = MarkDirty(ResetChannel, Groups),
            !.voices = [v \in Voices |->
              IF v \in ActiveVoices(r) /\ r.voices[v].channel = c
              THEN [r.voices[v] EXCEPT !.sostenuto_held = FALSE] ELSE r.voices[v]]]

(* Mutant of ResetControllers: pedals go up and their voices stay. *)
ResetControllersOnly(r, c) == ClearChannel(r, c)

ResetControllers(r, c) == ReleaseDeferred(ClearChannel(r, c), c)

ReleaseAll(r) == KeysUp(r, {v \in ActiveVoices(r) : Open(r.voices[v])}, {})

(* System Reset: every channel is silenced and reset in turn. *)
SilenceChannel(r, c) ==
  LET s == AllSoundOff(r, c)
  IN  IF ~r.ok THEN r ELSE IF ~s.ok THEN s ELSE ResetControllers(s, c)

SystemReset(r) ==
  LET reset[k \in 0 .. ChannelCount] ==
        IF k = 0 THEN r ELSE SilenceChannel(reset[k - 1], k - 1)
  IN  reset[ChannelCount]

(* A message marks every group of the channels cs, and resets those in     *)
(* cleared.                                                                *)
Message(Op(_), cs, cleared) ==
  /\ ~fault /\ controls < MaxControls
  /\ controls' = controls + 1
  /\ \E limit \in Limits : Handled(Op(Begin(limit)))
  /\ aba' = aba \ cs
  /\ resets' = IF job.active THEN resets \union cleared ELSE resets
  /\ UNCHANGED <<periodic, job, keys, drift, young, notes>>

SustainPedal(c, down) == Message(LAMBDA r : Sustain(r, c, down), {c}, {})
SostenutoPedal(c, down) == Message(LAMBDA r : Sostenuto(r, c, down), {c}, {})
Controller(c, value) ==
  Message(LAMBDA r : Dirty([r EXCEPT !.channels[c].cc = value], c, Groups), {c}, {})
(* The wheel or its range moves: only the pitch is marked, whatever it     *)
(* feeds.                                                                  *)
PitchBend(c, value) ==
  Message(LAMBDA r : Dirty([r EXCEPT !.channels[c].bend = value], c, {"pitch"}), {}, {})
SoundOff(c) == Message(LAMBDA r : AllSoundOff(r, c), {}, {})
NotesOff(c) == Message(LAMBDA r : AllNotesOff(r, c), {}, {})
OperatorReleaseAll == Message(ReleaseAll, {}, {})
ControllersReset(c) == Message(LAMBDA r : ResetControllers(r, c), {c}, {c})
SystemResetMessage == Message(SystemReset, Channels, Channels)

TogglePeriodic ==
  /\ ~fault /\ controls < MaxControls
  /\ controls' = controls + 1
  /\ periodic' = ~periodic
  /\ rt' = [rt EXCEPT !.channels = [c \in Channels |-> MarkDirty(@[c], Groups)]]
  /\ aba' = {}
  /\ UNCHANGED <<job, fpga, log, fault, keys, drift, young, resets, notes>>

-----------------------------------------------------------------------------
(* The control job. *)

(* Mutant of InSnapshot: a slot restarted under the job is visited too. *)
InSnapshotAnyGeneration(r, j, v) == v \in DOMAIN j.snapshot /\ r.voices[v].stage # "FREE"

InSnapshot(r, j, v) ==
  /\ v \in DOMAIN j.snapshot
  /\ r.voices[v].stage # "FREE"
  /\ r.voices[v].generation = j.snapshot[v]

SliceEnd(j) == IF j.cursor + Slice < VoiceCount THEN j.cursor + Slice ELSE VoiceCount

(* The voices of the slice that the job still knows. *)
Visited(r, j) == {v \in j.cursor .. SliceEnd(j) - 1 : InSnapshot(r, j, v)}

(* A visit refreshes the groups that are dirty or that modulate            *)
(* themselves, and sends those whose value is not the one last sent.       *)
RefreshGroups(r, v) ==
  r.channels[r.voices[v].channel].dirty \union (IF periodic THEN r.voices[v].periodic ELSE {})

Updates(r, vs) ==
  {u \in vs \X Groups :
     /\ u[2] \in RefreshGroups(r, u[1])
     /\ r.voices[u[1]].last[u[2]] # Target(r.channels, periodic, r.voices[u[1]])[u[2]]}

(* Voice by voice: pitch, then gain, then filter. *)
UpdateOrder ==
  [u \in Voices \X Groups |->
     3 * u[1] + (IF u[2] = "pitch" THEN 0 ELSE IF u[2] = "gain" THEN 1 ELSE 2)]

(* A value is remembered once the sink has taken it. *)
AfterUpdates(r, v, taken) ==
  [r.voices[v] EXCEPT !.last =
     [g \in Groups |-> IF <<v, g>> \in taken
                       THEN Target(r.channels, periodic, r.voices[v])[g] ELSE @[g]]]

RefreshVoices(r, vs) ==
  LET taken == Taken(r.left, Updates(r, vs), UpdateOrder)
  IN  [r EXCEPT !.voices = [v \in Voices |-> AfterUpdates(r, v, taken)],
                !.left = @ - Cardinality(taken), !.ok = (taken = Updates(r, vs))]

(* A job begins with a snapshot of generations, stages and revisions; with *)
(* no active voice there is nothing left to visit.                         *)
NewJob(elapsed) ==
  [active |-> TRUE, elapsed |-> elapsed,
   cursor |-> IF rt.active = << >> THEN VoiceCount ELSE 0,
   snapshot |-> [v \in {w \in Voices : Open(rt.voices[w])} |-> rt.voices[v].generation],
   revisions |-> [c \in Channels |-> rt.channels[c].revision]]

(* Mutant of DirtyAfter: whatever changed under the job is forgotten. *)
DirtyAfterAll(j, c) == {}

(* A channel changed under the job keeps its marks for the next one. *)
DirtyAfter(j, c) ==
  IF rt.channels[c].revision = j.revisions[c] THEN {} ELSE rt.channels[c].dirty

CompleteControl(r, j) ==
  [r EXCEPT !.channels = [c \in Channels |-> [r.channels[c] EXCEPT !.dirty = DirtyAfter(j, c)]]]

(* Ticks j has given the voice v by the end of the slice, and, by the end  *)
(* of the job, ticks due to it: it was there when j began and still is.    *)
Given(j, v) == IF v \in Visited(rt, j) THEN j.elapsed ELSE 0
Due(j, v) ==
  IF v \in DOMAIN j.snapshot \ young /\ rt.voices[v].stage # "FREE" THEN j.elapsed ELSE 0

(* One slice of j, and with the last one its end. *)
JobSlice(j) ==
  \E limit \in Limits :
    LET r == RefreshVoices(Begin(limit), Visited(rt, j))
    IN  \/ /\ ~(r.ok /\ SliceEnd(j) = VoiceCount)
           /\ Handled(r)
           /\ job' = IF r.ok THEN [j EXCEPT !.cursor = SliceEnd(j)] ELSE j
           /\ drift' = [v \in Voices |-> drift[v] + Given(j, v)]
           /\ UNCHANGED <<young, resets, aba>>
        \/ /\ r.ok /\ SliceEnd(j) = VoiceCount
           /\ Handled(CompleteControl(r, j))
           /\ job' = NoJob
           /\ drift' = [v \in Voices |-> drift[v] + Given(j, v) - Due(j, v)]
           /\ young' = {} /\ resets' = {}
           /\ aba' = aba \union {c \in resets : rt.channels[c].revision = j.revisions[c]}

(* One call of app_synth_service. *)
ControlService(elapsed) ==
  /\ ~fault
  /\ JobSlice(IF job.active THEN job ELSE NewJob(elapsed))
  /\ UNCHANGED <<periodic, keys, notes, controls>>

-----------------------------------------------------------------------------
(* Completions, and the session reset that forgets everything. *)

(* A voice runs out of samples or of release.  After a fault nobody reads  *)
(* the log, and the model stops with the control core.                     *)
VoiceEnds(v) ==
  /\ ~fault /\ fpga[v].sounding
  /\ fpga' = [fpga EXCEPT ![v] = Silent]
  /\ log' = log \union {<<v, fpga[v].generation>>}
  /\ UNCHANGED <<rt, periodic, job, fault, history, notes, controls>>

(* Mutant of Consumes: a completion frees whatever holds its slot. *)
ConsumesAnyGeneration(v, generation) == rt.voices[v].stage # "FREE"

Consumes(v, generation) ==
  rt.voices[v].stage # "FREE" /\ rt.voices[v].generation = generation

ConsumeCompletion(v, generation) ==
  LET taken == [Begin(0) EXCEPT !.log = @ \ {<<v, generation>>}]
      r == IF Consumes(v, generation) THEN ReclaimVoice(taken, v) ELSE taken
  IN  /\ ~fault /\ <<v, generation>> \in log
      /\ Handled(r)
      /\ drift' = Reset(drift, {w \in Voices : r.voices[w].stage = "FREE"})
      /\ UNCHANGED <<periodic, job, keys, young, resets, aba, notes, controls>>

SessionReset ==
  /\ ~fault
  /\ controls < MaxControls /\ controls' = controls + 1
  /\ rt' = RuntimeInit(periodic)
  /\ fpga' = [v \in Voices |-> Silent]
  /\ job' = NoJob /\ log' = {} /\ aba' = {} /\ young' = {} /\ resets' = {}
  /\ drift' = [v \in Voices |-> 0]
  /\ UNCHANGED <<periodic, fault, keys, notes>>

Pedal ==
  \E c \in Channels, down \in BOOLEAN : SustainPedal(c, down) \/ SostenutoPedal(c, down)
Change == \E c \in Channels, value \in 0 .. 1 : Controller(c, value) \/ PitchBend(c, value)
Mode ==
  \/ \E c \in Channels : SoundOff(c) \/ NotesOff(c) \/ ControllersReset(c)
  \/ OperatorReleaseAll \/ SystemResetMessage \/ TogglePeriodic

Service ==
  \/ \E elapsed \in Elapsed : ControlService(elapsed)
  \/ \E item \in log : ConsumeCompletion(item[1], item[2])

Next ==
  \/ \E c \in Channels, n \in Notes : NoteOn(c, n) \/ NoteOff(c, n)
  \/ Pedal \/ Change \/ Mode \/ Service \/ SessionReset
  \/ \E v \in Voices : VoiceEnds(v)

Spec == Init /\ [][Next]_vars

-----------------------------------------------------------------------------
ListsPartition ==
  /\ Len(rt.active) + Len(rt.free) = VoiceCount
  /\ Range(rt.active) \union Range(rt.free) = Voices
  /\ \A i \in 1 .. Len(rt.active) :
       LET v == rt.voices[rt.active[i]] IN v.stage # "FREE" /\ v.position = i
  /\ \A v \in Range(rt.free) : rt.voices[v].stage = "FREE"

FreeIsSilent ==
  \A v \in Voices : fpga[v].sounding /\ ~fault =>
    rt.voices[v].stage # "FREE" /\ rt.voices[v].generation = fpga[v].generation

(* Every slot is on the free stack or in the active list, once, and an     *)
(* active voice knows its place in the list (reclaim_voice moves the last  *)
(* entry into the gap on every completion and every steal, and a START the *)
(* sink refuses gives its slot back); and a slot the MCU takes for free is *)
(* silent in the FPGA, while a slot it owns carries its generation: a late *)
(* completion of a stolen voice frees nobody else's slot                   *)
(* (rp2040_firmware.md: "A later event for the replaced generation cannot  *)
(* free the new owner").  A refused START after a steal is the one         *)
(* exception, and the control core has then stopped.                       *)
SlotsAccounted == ListsPartition /\ FreeIsSilent

(* With its keys up and its pedals up, a channel's notes have all been     *)
(* released, whatever was stolen, layered, cut by an exclusive class or    *)
(* held by either pedal in between: no note hangs.                         *)
NoHungNote ==
  \A v \in Voices :
    LET s == rt.voices[v] c == rt.channels[s.channel]
    IN  ~fault /\ Open(s) /\ ~c.sustain /\ ~c.sostenuto
          => keys[s.channel][s.note] > 0 /\ ~s.key_released

(* A value sent for a group has what marks the group: controllers, resets  *)
(* and the switch mark all three, the wheel and its range the pitch.       *)
UpToMarks(g, sent, now) ==
  sent.cc = now.cc /\ sent.moving = now.moving /\ (g = "pitch" => sent.bend = now.bend)

Told(v, g) ==
  UpToMarks(g, rt.voices[v].last[g], Target(rt.channels, periodic, rt.voices[v])[g])

Marked(v, g) == g \in rt.channels[rt.voices[v].channel].dirty

(* A voice that is not released tells the listener what its channel says,  *)
(* as far as the marks go: with no job running and a group's mark gone,    *)
(* what the voice was last sent for the group has the current controllers  *)
(* and, if it is the pitch, the current bend, however the changes fell     *)
(* between the slices of a job and whichever update the sink refused.  The *)
(* exception is a channel reset under a job whose revision then was the    *)
(* one the job remembered.                                                 *)
ControllersReachVoices ==
  ~fault /\ ~job.active =>
    \A v \in Voices : Open(rt.voices[v]) =>
      rt.voices[v].channel \in aba \/ \A g \in Groups : Marked(v, g) \/ Told(v, g)

(* "A controller event arriving during the job remains dirty for the next  *)
(* job because its revision no longer matches the snapshot"                *)
(* (rp2040_firmware.md:190), without exception.                            *)
ChangesSurviveTheJob ==
  ~fault /\ ~job.active =>
    \A v \in Voices : Open(rt.voices[v]) => \A g \in Groups : Marked(v, g) \/ Told(v, g)

(* "Continuous controls, pitch bend, ... update channel state only;        *)
(* affected voice gain, pitch, and filter families are marked dirty and    *)
(* calculated once during the next active-voice control update"            *)
(* (rp2040_firmware.md:1030): once the job has cleared the channel's marks *)
(* each family the wheel feeds was sent with the current bend.             *)
FamiliesFollowBend ==
  ~fault /\ ~job.active =>
    \A v \in Voices :
      LET c == rt.voices[v].channel
      IN  Open(rt.voices[v]) /\ c \notin aba /\ rt.channels[c].dirty = {} =>
            \A g \in BendFeeds : rt.voices[v].last[g].bend = rt.channels[c].bend

(* Every job advances the modulation time of every voice that was sounding *)
(* when it began, and still is, by its elapsed ticks, once: slices neither *)
(* skip nor repeat a voice, and a slot restarted under the job is not aged *)
(* by time that passed before its START.  (A voice without periodic groups *)
(* has nothing to age and ignores its ticks.)                              *)
AdvancedOnce ==
  ~fault /\ ~job.active =>
    \A v \in Voices : Open(rt.voices[v]) => drift[v] = 0
=============================================================================
