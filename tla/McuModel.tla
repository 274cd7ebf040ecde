------------------------------ MODULE McuModel ------------------------------
(***************************************************************************)
(* The policy model of the host and of the render harness: McuModel        *)
(* (render_support.cpp) allocates a voice per note layer and follows keys  *)
(* and pedals; CommandVoiceControl (command_control.cpp) mirrors what it   *)
(* has sent per voice, numbers generations and suppresses commands that    *)
(* would repeat; RealtimeRegionBank (realtime_region_bank.cpp) is a        *)
(* bounded cache of prepared regions the voices point into, evicting by    *)
(* age what no voice uses.                                                 *)
(*                                                                         *)
(* In the host nobody reads completions and regions come from the bank; in *)
(* a render all regions are prepared up front, Note Offs were paired with  *)
(* their Note Ons before, and the reference synthesizer's completions are  *)
(* queued and taken once a millisecond.                                    *)
(*                                                                         *)
(* A voice's gain, pitch and filter are each computed from the channel's   *)
(* sources when their group is dirty, and not before.  Sources fall into   *)
(* classes by the groups that their change marks; what the font's          *)
(* modulators feed from each class is a parameter.  Envelope stages before *)
(* release are one state, and what envelopes and LFOs add over time is     *)
(* left out; the steal score, a product of levels, is a free choice within *)
(* the class the code compares first.  Each key is a note of its own, and  *)
(* a START is never refused for its region.                                *)
(***************************************************************************)
EXTENDS Integers, Sequences, SequencesExt, FiniteSetsExt

CONSTANTS
  ModelVoiceCount,  \* kNumVoices
  KeyList,          \* what make_key tells apart, one note of one preset, in the order a
                    \* render first meets them
  Layers,           \* per key: the exclusive class of each of its regions
  PresetOf,         \* per key: its preset, with bank and program
  Feeds,            \* per class of sources: the groups whose sums the modulators feed
  BankSlots,        \* region_capacity
  BankEntries,      \* entry_capacity
  MaxNotes,         \* bound: numbers given to notes
  MaxChanges        \* bound: changes of a source

Keys == Range(KeyList)
Groups == {"gain", "pitch", "filter"}
Sources == {"common", "volume", "bend"}

ASSUME ModelAssumption ==
  /\ ModelVoiceCount \in Nat \ {0} /\ BankSlots \in Nat \ {0} /\ BankEntries \in Nat \ {0}
  /\ KeyList \in Seq(STRING) /\ KeyList # << >>
  /\ \A k \in Keys : Layers[k] \in Seq(Nat) /\ PresetOf[k] \in Nat
  /\ Feeds \in [Sources -> SUBSET Groups]

(* kDirtyGain, kDirtyPitch, kDirtyFilter: what a change of a source marks. *)
(* CC7, CC10, CC11 and CC67 mark the gain, a bend marks the pitch, every   *)
(* other source (modulation, pressure, data entry) marks all.              *)
Marks == [s \in Sources |-> IF s = "volume" THEN {"gain"}
                            ELSE IF s = "bend" THEN {"pitch"} ELSE Groups]

ModelVoices == 0 .. ModelVoiceCount - 1
RegionOf(k, l) == [key |-> k, layer |-> l, class |-> Layers[k][l], preset |-> PresetOf[k]]
Prepared == FlattenSeq([i \in 1 .. Len(KeyList) |->
              LET k == KeyList[i]
              IN [l \in 1 .. Len(Layers[k]) |-> RegionOf(k, l)]])
RegionIds == 1 .. IF Len(Prepared) > BankSlots THEN Len(Prepared) ELSE BankSlots
NoRegion == [key |-> "none", layer |-> 0, class |-> 0, preset |-> 0]

VARIABLES
  mode,       \* "host" or "render"
  voices,     \* VoiceState of every voice
  active,     \* active_voices_
  mirror,     \* VoiceMirror of every voice
  synth,      \* VoiceConfig of the synthesizer: on, released or off, generation, values
  ended,      \* completions_: per voice, the generations reported and not yet taken
  sustain, sostenuto, channel,  \* ChannelState: the pedals and the sources
  entries,    \* RealtimeRegionBank: per key held, its region_indices and last_use
  regions,    \* regions_
  pending,    \* pending_notes: per key, the numbers of its notes with no Note Off yet
  instance,   \* next_note_instance
  program,    \* "running", "rejected" (a lookup threw) or "ended"
  changes     \* counts to MaxChanges

policyVars == <<voices, active, mirror, synth, ended>>
modelVars == <<mode, policyVars, sustain, sostenuto, channel, entries, regions, pending,
               instance, program, changes>>

(* The sum of group g as the sources stand in ch. *)
Computed(ch, g) == [s \in Sources |-> IF g \in Feeds[s] THEN ch[s] ELSE 0]
Defaults == [s \in Sources |-> 0]
AllComputed(ch) == [g \in Groups |-> Computed(ch, g)]

SilentVoice == [state |-> "silent", key |-> "none", region |-> 1, of |-> NoRegion, inst |-> 0,
                gen |-> 0, keyUp |-> FALSE, sos |-> FALSE,
                last |-> AllComputed(Defaults)]

ModelInit ==
  /\ mode \in {"host", "render"}
  /\ voices = [v \in ModelVoices |-> SilentVoice]
  /\ active = << >>
  /\ mirror = [v \in ModelVoices |-> [active |-> FALSE, released |-> FALSE, gen |-> 0,
                                     val |-> AllComputed(Defaults)]]
  /\ synth = [v \in ModelVoices |-> [state |-> "off", gen |-> 0, val |-> AllComputed(Defaults)]]
  /\ ended = [v \in ModelVoices |-> {}]
  /\ sustain = FALSE /\ sostenuto = FALSE /\ channel = Defaults
  /\ entries = [k \in {} |-> 0]
  /\ regions = [r \in RegionIds |-> IF mode = "render" /\ r <= Len(Prepared)
                                    THEN Prepared[r] ELSE NoRegion]
  /\ pending = [k \in Keys |-> << >>]
  /\ instance = 0 /\ program = "running" /\ changes = 0

----------------------------------------------------------------------------
(* CommandVoiceControl and the synthesizer.  A strip is what the policy,   *)
(* the mirror and the synthesizer hold of one voice, with the synthesizer's*)
(* reports about it; a policy state p is the strips and the active list,   *)
(* and is threaded through the calls of one event.                         *)

Policy ==
  [strips |-> [v \in ModelVoices |->
                 [voice |-> voices[v], mirror |-> mirror[v], synth |-> synth[v],
                  ended |-> ended[v]]],
   active |-> active]

SendStart(s, val) ==
  LET g == s.mirror.gen + 1
  IN [s EXCEPT !.mirror = [active |-> TRUE, released |-> FALSE, gen |-> g, val |-> val],
               !.synth = [state |-> "on", gen |-> g, val |-> val]]

(* The synthesizer takes a command only for the generation it plays. *)
Takes(s) == s.synth.state # "off" /\ s.synth.gen = s.mirror.gen

(* The synthesizer stops a voice and reports it; only a render's reference *)
(* synthesizer is ever asked for its reports.                              *)
Ends(s) == [s EXCEPT !.synth.state = "off", !.synth.val = AllComputed(Defaults),
                     !.ended = IF mode = "render" THEN @ \cup {s.synth.gen} ELSE @]

(* A release step of zero ends the voice at once, as VoiceEnds does. *)
SendRelease(s) ==
  IF ~s.mirror.active \/ s.mirror.released THEN s
  ELSE [s EXCEPT !.mirror.released = TRUE,
                 !.synth.state = IF Takes(s) THEN "released" ELSE @]

SendStop(s) ==
  IF ~s.mirror.active THEN s
  ELSE LET t == IF Takes(s) THEN Ends(s) ELSE s
       IN [t EXCEPT !.mirror.active = FALSE, !.mirror.released = FALSE]

(* Only the groups that differ from what was sent last are sent. *)
SendUpdate(s, val) ==
  IF ~s.mirror.active \/ s.mirror.val = val THEN s
  ELSE [s EXCEPT !.mirror.val = val,
                 !.synth.val = IF Takes(s)
                               THEN [g \in Groups |-> IF s.mirror.val[g] = val[g] THEN @[g]
                                                      ELSE val[g]]
                               ELSE @]

----------------------------------------------------------------------------
(* Active list: removal moves the last entry into the hole. *)

Activate(list, v) == IF v \in Range(list) THEN list ELSE Append(list, v)

Deactivate(list, v) ==
  IF v \notin Range(list) THEN list
  ELSE LET i == CHOOSE n \in DOMAIN list : list[n] = v
       IN Front([list EXCEPT ![i] = Last(list)])

(* The loops of McuModel over all voices: what each does for a voice reads *)
(* and writes that voice only.                                             *)
ForVoices(p, vs, Do(_)) ==
  [p EXCEPT !.strips = [v \in ModelVoices |-> IF v \in vs THEN Do(@[v]) ELSE @[v]]]

Sounding(s) == s.voice.state # "silent"

(* release_voice *)
Release(s) == SendRelease([s EXCEPT !.voice.state = "release"])

(* release_deferred_pedal_voices, with the pedals as they are by then. *)
ReleaseDeferred(p, pedal) ==
  ForVoices(p, {v \in ModelVoices : /\ Sounding(p.strips[v]) /\ p.strips[v].voice.keyUp
                                    /\ ~pedal /\ ~p.strips[v].voice.sos}, Release)

(* update_voice_modulation: the dirty groups are computed again and the    *)
(* voice sends what changed.                                               *)
Recomputed(s, ch, dirty) ==
  [g \in Groups |-> IF g \in dirty THEN Computed(ch, g) ELSE s.voice.last[g]]

Updated(s, ch, dirty) ==
  LET val == Recomputed(s, ch, dirty)
  IN IF ~Sounding(s) \/ val = s.voice.last THEN s
     ELSE SendUpdate([s EXCEPT !.voice.last = val], val)

(* update_channel_controls: the voices on the active list, released or not *)
UpdateControls(p, ch, dirty) ==
  ForVoices(p, Range(p.active), LAMBDA s : Updated(s, ch, dirty))

(* The rest of a silent voice, and the values its mirror holds, are not    *)
(* read before the voice starts again.                                     *)
Silenced(s) == [s EXCEPT !.voice = [SilentVoice EXCEPT !.gen = s.voice.gen],
                         !.mirror.val = AllComputed(Defaults)]

StopVoice(s) == SendStop(Silenced(s))

(* The voices of vs leave the list one by one. *)
Without(list, vs) ==
  LET left[n \in 0 .. ModelVoiceCount] ==
        IF n = 0 THEN list
        ELSE IF n - 1 \in vs THEN Deactivate(left[n - 1], n - 1) ELSE left[n - 1]
  IN left[ModelVoiceCount]

StopAll(p) ==
  LET stopped == {v \in ModelVoices : Sounding(p.strips[v])}
  IN [ForVoices(p, stopped, StopVoice) EXCEPT !.active = Without(@, stopped)]

(* Mutant of Over: a report counts whatever generation it names. *)
OverForAny(s) == Sounding(s) /\ s.ended # {}

(* consume_voice_completions: a report of an older generation, or of a     *)
(* voice the policy has stopped, is passed over.  A generation is reported *)
(* once, and the order of two voices' reports only orders active_voices_.  *)
Over(s) == Sounding(s) /\ s.voice.gen \in s.ended

TakeReports(s) == [(IF Over(s) THEN Silenced(s) ELSE s) EXCEPT !.ended = {}]

Completed(p) ==
  [ForVoices(p, ModelVoices, TakeReports)
     EXCEPT !.active = Without(@, {v \in ModelVoices : Over(p.strips[v])})]

(* The key comes up: held by a pedal, or released. *)
KeyUp(s) ==
  LET up == [s EXCEPT !.voice.keyUp = TRUE]
  IN IF up.voice.sos \/ sustain THEN up ELSE Release(up)

Became(p) ==
  /\ voices' = [v \in ModelVoices |-> p.strips[v].voice] /\ active' = p.active
  /\ mirror' = [v \in ModelVoices |-> p.strips[v].mirror]
  /\ synth' = [v \in ModelVoices |-> p.strips[v].synth]
  /\ ended' = [v \in ModelVoices |-> p.strips[v].ended]

----------------------------------------------------------------------------
(* RealtimeRegionBank *)

SlotsOf(entry) == Range(entry.slots)

(* Mutant of InUse: only voices whose key is still down count. *)
InUseKeyDown(entry) ==
  \E i \in DOMAIN active : ~voices[active[i]].keyUp /\ voices[active[i]].region \in SlotsOf(entry)

InUse(entry) == \E i \in DOMAIN active : voices[active[i]].region \in SlotsOf(entry)

(* evict_one: the entry no voice uses that was used last the longest ago.  *)
(* The note's number stands for use_counter_, which moves with it.         *)
Unused(bank) == {k \in DOMAIN bank : ~InUse(bank[k])}

Evict(bank) ==
  IF Unused(bank) = {} THEN bank
  ELSE LET victim == CHOOSE k \in Unused(bank) :
                       \A j \in Unused(bank) : bank[k].last_use <= bank[j].last_use
       IN [k \in DOMAIN bank \ {victim} |-> bank[k]]

(* The bank after n evictions, the slots it leaves free, its regions. *)
After(n) ==
  LET bank[i \in 0 .. n] == IF i = 0 THEN entries ELSE Evict(bank[i - 1])
  IN  bank[n]
FreeAfter(n) == 1 .. BankSlots \ UNION {SlotsOf(After(n)[k]) : k \in DOMAIN After(n)}
RegionsAfter(n) ==
  [r \in RegionIds |->
     IF \E k \in DOMAIN entries \ DOMAIN After(n) : r \in SlotsOf(entries[k]) THEN NoRegion
     ELSE regions[r]]

(* Evictions go on until an entry and enough slots are free. *)
Enough(n, need) ==
  Cardinality(DOMAIN After(n)) < BankEntries /\ Cardinality(FreeAfter(n)) >= need
Fits(need) == \E n \in 0 .. BankEntries : Enough(n, need)
Evictions(need) == Min({n \in 0 .. BankEntries : Enough(n, need)})

(* claim_slots: the first n of the free slots. *)
FirstSlots(free, n) ==
  LET rest[i \in 0 .. n] == IF i = 0 THEN free ELSE rest[i - 1] \ {Min(rest[i - 1])}
  IN  [i \in 1 .. n |-> Min(rest[i - 1])]

Hit(k) == k \in DOMAIN entries

(* regions_for_preset: the bank and the region indices of k afterwards. *)
Filled(bank, k, slots) ==
  [j \in DOMAIN bank \cup {k} |->
     IF j = k THEN [slots |-> slots, last_use |-> instance + 1] ELSE bank[j]]

Claimed(k) ==
  IF Hit(k)
  THEN [entries |-> Filled(entries, k, entries[k].slots), regions |-> regions,
        slots |-> entries[k].slots]
  ELSE LET n == Evictions(Len(Layers[k]))
           slots == FirstSlots(FreeAfter(n), Len(Layers[k]))
       IN [entries |-> Filled(After(n), k, slots),
           regions |-> [r \in RegionIds |->
             IF r \in Range(slots)
             THEN LET l == CHOOSE i \in DOMAIN slots : slots[i] = r
                  IN RegionOf(k, l)
             ELSE RegionsAfter(n)[r]],
           slots |-> slots]

PreparedSlots(k) ==
  [l \in 1 .. Len(Layers[k]) |-> CHOOSE r \in DOMAIN Prepared : /\ Prepared[r].key = k
                                                             /\ Prepared[r].layer = l]

----------------------------------------------------------------------------
(* Events *)

(* first_free_or_steal_slot: the first voice off the active list, else a   *)
(* released voice (or one whose key is up), else any.                      *)
Candidates(p) ==
  LET free == ModelVoices \ Range(p.active)
      done == {v \in ModelVoices : \/ p.strips[v].voice.state = "release"
                                   \/ p.strips[v].voice.keyUp}
  IN IF free # {} THEN {Min(free)} ELSE IF done # {} THEN done ELSE ModelVoices

(* note_on of one layer: voices of its exclusive class in its preset are   *)
(* released, then the slot starts anew.                                    *)
Excludes(a, b) == a.class > 0 /\ a.class = b.class /\ a.preset = b.preset

StartLayer(p, v, r, content, k, inst) ==
  LET q == ForVoices(p, {w \in ModelVoices :
                           /\ Sounding(p.strips[w])
                           /\ Excludes(content[r], content[p.strips[w].voice.region])}, Release)
      val == AllComputed(channel)
      s == [q.strips[v] EXCEPT !.voice =
              [state |-> "held", key |-> k, region |-> r, of |-> content[r], inst |-> inst,
               gen |-> @.gen + 1, keyUp |-> FALSE, sos |-> FALSE,
               last |-> val]]
  IN [strips |-> [q.strips EXCEPT ![v] = SendStart(s, val)],
      active |-> Activate(q.active, v)]

(* handle_midi_event for a Note On: look the regions up, start each layer. *)
Layered(c, k, chosen) ==
  LET after[i \in 0 .. Len(c.slots)] ==
        IF i = 0 THEN Policy
        ELSE StartLayer(after[i - 1], chosen[i], c.slots[i], c.regions, k, instance + 1)
  IN  after

NoteOn(k) ==
  LET known == mode = "render" \/ Hit(k) \/ Fits(Len(Layers[k]))
      c == IF mode = "render"
           THEN [entries |-> entries, regions |-> regions, slots |-> PreparedSlots(k)]
           ELSE Claimed(k)
  IN /\ program = "running" /\ instance < MaxNotes
     /\ instance' = instance + 1
     /\ pending' = IF mode = "host" THEN pending
                   ELSE [pending EXCEPT ![k] = Append(@, instance + 1)]
     /\ \/ /\ known
           /\ entries' = c.entries /\ regions' = c.regions
           /\ \E chosen \in [1 .. Len(c.slots) -> ModelVoices] :
                /\ \A i \in 1 .. Len(c.slots) :
                     chosen[i] \in Candidates(Layered(c, k, chosen)[i - 1])
                /\ Became(Layered(c, k, chosen)[Len(c.slots)])
           /\ UNCHANGED program
        \/ /\ ~known
           /\ entries' = After(BankEntries) /\ regions' = RegionsAfter(BankEntries)
           /\ program' = "rejected"
           /\ UNCHANGED policyVars
     /\ UNCHANGED <<mode, sustain, sostenuto, channel, changes>>

(* note_off: every layer of one note of the key, if it is still down.  In  *)
(* the host it is the oldest that is down; in a render the one the Note    *)
(* Off was paired with, and one without a Note On has a number of its own. *)
StillDown(k) == {v \in ModelVoices : /\ Sounding(Policy.strips[v]) /\ voices[v].key = k
                                     /\ ~voices[v].keyUp}

NoteOff(k) ==
  LET down == StillDown(k)
      note == IF mode = "host" THEN Min({voices[v].inst : v \in down})
              ELSE IF pending[k] = << >> THEN instance + 1 ELSE Head(pending[k])
  IN /\ program = "running"
     /\ \/ mode = "host" /\ down # {} /\ UNCHANGED <<pending, instance>>
        \/ /\ mode = "render" /\ pending[k] # << >>
           /\ pending' = [pending EXCEPT ![k] = Tail(@)] /\ UNCHANGED instance
        \/ /\ mode = "render" /\ pending[k] = << >> /\ instance < MaxNotes
           /\ instance' = instance + 1 /\ UNCHANGED pending
     /\ Became(ForVoices(Policy, {v \in down : voices[v].inst = note}, KeyUp))
     /\ UNCHANGED <<mode, sustain, sostenuto, channel, entries, regions, program, changes>>

Sustain(down) ==
  /\ program = "running" /\ sustain # down
  /\ sustain' = down
  /\ Became(IF down THEN Policy ELSE ReleaseDeferred(Policy, FALSE))
  /\ UNCHANGED <<mode, sostenuto, channel, entries, regions, pending, instance, program,
                 changes>>

Marked(s) == [s EXCEPT !.voice.sos = TRUE]
Unmarked(s) == [s EXCEPT !.voice.sos = FALSE]

KeysDown == {v \in ModelVoices : Sounding(Policy.strips[v]) /\ ~voices[v].keyUp}

Sostenuto(down) ==
  /\ program = "running" /\ sostenuto # down
  /\ sostenuto' = down
  /\ Became(IF down THEN ForVoices(Policy, KeysDown, Marked)
            ELSE ReleaseDeferred(ForVoices(Policy, ModelVoices, Unmarked), sustain))
  /\ UNCHANGED <<mode, sustain, channel, entries, regions, pending, instance, program,
                 changes>>

(* CC121 *)
ResetControllers ==
  /\ program = "running"
  /\ sustain' = FALSE /\ sostenuto' = FALSE /\ channel' = Defaults
  /\ Became(ReleaseDeferred(
       UpdateControls(ForVoices(Policy, ModelVoices, Unmarked), Defaults, Groups), FALSE))
  /\ UNCHANGED <<mode, entries, regions, pending, instance, program, changes>>

(* CC123 to CC127 *)
AllNotesOff ==
  /\ program = "running"
  /\ Became(ForVoices(Policy, KeysDown, KeyUp))
  /\ UNCHANGED <<mode, sustain, sostenuto, channel, entries, regions, pending, instance,
                 program, changes>>

(* A controller, bend or pressure the voices follow. *)
ControlChange(source, val) ==
  /\ program = "running" /\ changes < MaxChanges /\ changes' = changes + 1
  /\ channel' = [channel EXCEPT ![source] = val]
  /\ Became(UpdateControls(Policy, channel', Marks[source]))
  /\ UNCHANGED <<mode, sustain, sostenuto, entries, regions, pending, instance, program>>

(* control_tick: the groups whose turn it is, the gain and the pitch on    *)
(* every tick and the filter on some, of every voice not yet released.     *)
ControlTick(filterToo) ==
  /\ program = "running"
  /\ LET due == IF filterToo THEN Groups ELSE {"gain", "pitch"}
     IN Became(ForVoices(Policy, {v \in Range(active) : voices[v].state # "release"},
                         LAMBDA s : Updated(s, channel, due)))
  /\ UNCHANGED <<mode, sustain, sostenuto, channel, entries, regions, pending, instance,
                 program, changes>>

(* CC120, and the recovery after a rejected lookup. *)
AllSoundOff ==
  /\ program \in {"running", "rejected"}
  /\ Became(StopAll(Policy))
  /\ program' = IF program = "rejected" THEN "ended" ELSE program
  /\ UNCHANGED <<mode, sustain, sostenuto, channel, entries, regions, pending, instance,
                 changes>>

(* The sample or the release ends. *)
VoiceEnds(v) ==
  /\ program = "running" /\ synth[v].state # "off"
  /\ Became(ForVoices(Policy, {v}, Ends))
  /\ UNCHANGED <<mode, sustain, sostenuto, channel, entries, regions, pending, instance,
                 program, changes>>

(* Once a millisecond a render takes all completions there are. *)
ConsumeCompletions ==
  /\ mode = "render" /\ program = "running"
  /\ Became(Completed(Policy))
  /\ UNCHANGED <<mode, sustain, sostenuto, channel, entries, regions, pending, instance,
                 program, changes>>

ModelNext ==
  \/ \E k \in Keys : NoteOn(k) \/ NoteOff(k)
  \/ \E down \in BOOLEAN : Sustain(down) \/ Sostenuto(down)
  \/ \E source \in Sources, val \in {0, 1} : ControlChange(source, val)
  \/ \E filterToo \in BOOLEAN : ControlTick(filterToo)
  \/ ResetControllers \/ AllNotesOff \/ AllSoundOff
  \/ \E v \in ModelVoices : VoiceEnds(v)
  \/ ConsumeCompletions

ModelSpec == ModelInit /\ [][ModelNext]_modelVars

----------------------------------------------------------------------------
(* A cached region is never evicted or refilled under a voice that points  *)
(* into it: every voice not silent still finds the region it was started   *)
(* with, as release steps and modulation read it later.                    *)
RegionsStayPut ==
  \A v \in ModelVoices : voices[v].state # "silent" => regions[voices[v].region] = voices[v].of

(* The policy, the mirror and the synthesizer tell one story of every      *)
(* voice, however commands were suppressed and reports delayed: a voice    *)
(* the policy holds sounds under its generation, one it released is        *)
(* released, one it stopped or saw end is off; one that ended before the   *)
(* policy knows has its report waiting in a render, and no waiting report  *)
(* names a voice that plays.  What plays follows every source in the groups*)
(* that the source marks (the others wait for a control tick).             *)
MirrorFollows ==
  \A v \in ModelVoices :
    LET s == voices[v].state
        off == synth[v].state = "off"
    IN /\ voices[v].gen = synth[v].gen
       /\ s = "held" => off \/ synth[v].state = "on"
       /\ s = "release" => off \/ synth[v].state = "released"
       /\ s = "silent" => off
       /\ mode = "render" /\ s # "silent" /\ off => voices[v].gen \in ended[v]
       /\ synth[v].gen \in ended[v] => off
       /\ ~off => \A source \in Sources : \A g \in Marks[source] \cap Feeds[source] :
                    synth[v].val[g][source] = channel[source]
       /\ (s # "silent") = (v \in Range(active))
=============================================================================
