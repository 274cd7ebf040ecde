--------------------------- MODULE CompiledRuntime ---------------------------
(***************************************************************************)
(* McuSf2AssetRuntime (mcu_sf2_asset_runtime.cpp): the host's runtime over *)
(* a compiled MSF2 asset.  Free voices are a stack, the voices of every    *)
(* exclusive class a bitmap beside the voice array, a voice's stage says   *)
(* whether its key is down, held by the sustain pedal or released.         *)
(*                                                                         *)
(* The realtime player gets no completions, so it only ever reuses voices  *)
(* by stealing; the asset benchmark reports them.  One channel and one     *)
(* preset; a note is its layers' exclusive classes.  Gain, pitch and       *)
(* filter are one setting, sent when it changes.                           *)
(***************************************************************************)
EXTENDS Integers, Sequences, SequencesExt, FiniteSetsExt

CONSTANTS
  CompiledVoiceCount, \* voice_capacity
  CompiledNotes,      \* notes the zones of the preset match
  ZoneClasses,        \* per note: the exclusive class of each matched zone
  MaxCompiledNotes    \* bound: Note Ons

ASSUME CompiledAssumption ==
  /\ CompiledVoiceCount \in Nat \ {0}
  /\ \A n \in CompiledNotes : ZoneClasses[n] \in Seq(Nat)

VARIABLES
  slots,        \* voices_
  freeStack,    \* free_stack_[0 .. free_count_ - 1]
  exclusive,    \* exclusive_voices_: the set bits of every class
  pedal,        \* sustain of the channel
  controls,     \* the channel's modulation sources
  noteCount,    \* next_note_instance_
  stamps        \* allocation_stamp_

compiledVars == <<slots, freeStack, exclusive, pedal, controls, noteCount, stamps>>

CompiledVoices == 0 .. CompiledVoiceCount - 1
Classes == (UNION {Range(ZoneClasses[n]) : n \in CompiledNotes}) \ {0}
FreeSlot == [stage |-> "free", note |-> "none", class |-> 0, gen |-> 0, inst |-> 0, stamp |-> 0,
             sent |-> 0]

CompiledInit ==
  /\ slots = [v \in CompiledVoices |-> FreeSlot]
  /\ freeStack = [i \in 1 .. CompiledVoiceCount |-> CompiledVoiceCount - i]
  /\ exclusive = [c \in Classes |-> {}]
  /\ pedal = FALSE /\ controls = 0 /\ noteCount = 0 /\ stamps = 0

----------------------------------------------------------------------------
(* A runtime state r = [slots, free, bits, stamp] threads the calls of one *)
(* event.                                                                  *)

Runtime == [slots |-> slots, free |-> freeStack, bits |-> exclusive, stamp |-> stamps]

Assigned(r) ==
  slots' = r.slots /\ freeStack' = r.free /\ exclusive' = r.bits /\ stamps' = r.stamp

MarkExclusive(r, v, on) ==
  LET c == r.slots[v].class
  IN IF c = 0 THEN r
     ELSE [r EXCEPT !.bits[c] = IF on THEN @ \cup {v} ELSE @ \ {v}]

(* Mutant of Reclaim: the class is forgotten before its bit is cleared. *)
ReclaimForgetsClass(r, v) ==
  IF r.slots[v].stage = "free" THEN r
  ELSE [r EXCEPT !.slots[v].stage = "free", !.free = Append(@, v)]

Reclaim(r, v) ==
  IF r.slots[v].stage = "free" THEN r
  ELSE LET cleared == MarkExclusive(r, v, FALSE)
       IN [cleared EXCEPT !.slots[v].stage = "free", !.free = Append(@, v)]

(* What the loops over voices do to one slot; no other is touched. *)
StopSlot(s) == IF s.stage = "free" THEN s ELSE [s EXCEPT !.stage = "released"]

ReleaseSlot(s) ==
  IF s.stage \in {"free", "released"} THEN s ELSE [s EXCEPT !.stage = "released"]

HoldSlot(s) == [s EXCEPT !.stage = "held"]

ForSlots(vs, Do(_)) == [v \in CompiledVoices |-> IF v \in vs THEN Do(slots[v]) ELSE slots[v]]

(* The victim scan: a released voice displaces one that is not; between    *)
(* voices of equal stage the older one wins.                               *)
Displaces(r, v, victim) ==
  \/ r.slots[v].stage = "released" /\ r.slots[victim].stage # "released"
  \/ r.slots[v].stage = r.slots[victim].stage /\ r.slots[v].stamp < r.slots[victim].stamp

Victim(r) ==
  LET best[v \in 0 .. CompiledVoiceCount - 1] ==
        IF v = 0 THEN 0 ELSE IF Displaces(r, v, best[v - 1]) THEN v ELSE best[v - 1]
  IN best[CompiledVoiceCount - 1]

(* allocate_voice: the top of the stack, stealing a voice onto it if empty *)
Allocated(r) ==
  LET q == IF r.free = << >> THEN Reclaim(r, Victim(r)) ELSE r
  IN [runtime |-> [q EXCEPT !.free = Front(@)], voice |-> Last(q.free)]

(* release_exclusive, of every class among cs: the voices whose bit is set *)
(* when it begins.                                                         *)
ReleaseClasses(cs) == ForSlots(UNION {exclusive[c] : c \in cs}, ReleaseSlot)

(* One layer of note_on. *)
StartZone(s, class, note, inst) ==
  LET a == Allocated(s)
      v == a.voice
      r == [a.runtime EXCEPT !.stamp = @ + 1,
              !.slots[v] = [stage |-> "active", note |-> note, class |-> class,
                            gen |-> @.gen + 1, inst |-> inst, stamp |-> s.stamp + 1,
                            sent |-> controls]]
  IN MarkExclusive(r, v, TRUE)

(* The layers one after the other. *)
StartZones(r, classes, note, inst) ==
  LET after[k \in 0 .. Len(classes)] ==
        IF k = 0 THEN r ELSE StartZone(after[k - 1], classes[k], note, inst)
  IN after[Len(classes)]

(* note_on: every class among the layers is silenced before any starts. *)
CompiledNoteOn(n) ==
  LET hushed == [Runtime EXCEPT !.slots = ReleaseClasses(Range(ZoneClasses[n]) \ {0})]
  IN /\ noteCount < MaxCompiledNotes
     /\ noteCount' = noteCount + 1
     /\ Assigned(StartZones(hushed, ZoneClasses[n], n, noteCount + 1))
     /\ UNCHANGED <<pedal, controls>>

(* note_off: all layers of the oldest note still down. *)
CompiledNoteOff(n) ==
  LET down == {v \in CompiledVoices : slots[v].stage = "active" /\ slots[v].note = n}
      oldest == {v \in down : \A w \in down : slots[v].inst <= slots[w].inst}
  IN /\ down # {}
     /\ slots' = IF pedal THEN ForSlots(oldest, HoldSlot) ELSE ForSlots(oldest, ReleaseSlot)
     /\ UNCHANGED <<freeStack, exclusive, pedal, controls, noteCount, stamps>>

(* CC64; a pedal that comes up releases what it held. *)
CompiledSustain(down) ==
  /\ pedal # down
  /\ pedal' = down
  /\ slots' = IF down THEN slots
              ELSE ForSlots({v \in CompiledVoices : slots[v].stage = "held"}, ReleaseSlot)
  /\ UNCHANGED <<freeStack, exclusive, controls, noteCount, stamps>>

(* control_change, pitch_bend, channel_pressure, key_pressure: refresh_voice *)
(* sends what changed to every voice not free, released ones included.       *)
CompiledControl(value) ==
  /\ controls # value
  /\ controls' = value
  /\ slots' = [v \in CompiledVoices |-> IF slots[v].stage = "free" THEN slots[v]
                                        ELSE [slots[v] EXCEPT !.sent = value]]
  /\ UNCHANGED <<freeStack, exclusive, pedal, noteCount, stamps>>

(* CC120 and the player's exit: stopped voices stay allocated. *)
CompiledSoundOff ==
  /\ slots' = ForSlots(CompiledVoices, StopSlot)
  /\ UNCHANGED <<freeStack, exclusive, pedal, controls, noteCount, stamps>>

(* complete_voice, of a voice that ended or ran its sample out. *)
CompiledComplete(v) ==
  /\ slots[v].stage # "free"
  /\ Assigned(Reclaim(Runtime, v))
  /\ UNCHANGED <<pedal, controls, noteCount>>

CompiledNext ==
  \/ \E n \in CompiledNotes : CompiledNoteOn(n) \/ CompiledNoteOff(n)
  \/ \E down \in BOOLEAN : CompiledSustain(down)
  \/ \E value \in {0, 1} : CompiledControl(value)
  \/ CompiledSoundOff
  \/ \E v \in CompiledVoices : CompiledComplete(v)

CompiledSpec == CompiledInit /\ [][CompiledNext]_compiledVars

(* The bitmaps follow the voices through steals, stops and completions:    *)
(* voice and class agree both ways and the stack holds every free voice    *)
(* once, so a class releases its own voices and no others, and of an       *)
(* exclusive class only the latest note sounds on.                         *)
ExclusiveIndexExact ==
  /\ \A c \in Classes :
       /\ exclusive[c] = {v \in CompiledVoices : slots[v].stage # "free" /\ slots[v].class = c}
       /\ \A v, w \in exclusive[c] :
            {slots[v].stage, slots[w].stage} \subseteq {"active", "held"}
              => slots[v].inst = slots[w].inst
  /\ IsInjective(freeStack)
  /\ Range(freeStack) = {v \in CompiledVoices : slots[v].stage = "free"}
=============================================================================
