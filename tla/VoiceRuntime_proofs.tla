------------------------ MODULE VoiceRuntime_proofs ------------------------
(***************************************************************************)
(* Proofs about the voice table of the MCU: for every number of voices,    *)
(* channels, layers and refusals, slots are accounted for, no note hangs,  *)
(* controller changes reach the voices and every job ages them once.       *)
(***************************************************************************)
EXTENDS VoiceRuntime, FiniteSetTheorems, CommonLemmas

-----------------------------------------------------------------------------
(* Types. *)

(* A value sent for a group, a voice, a channel, a slot of the FPGA. *)
ValueRecord == [cc : Nat, bend : Nat, moving : BOOLEAN]

VoiceRecord ==
  [stage : {"FREE", "ACTIVE", "SUSTAIN_HELD", "RELEASED"}, channel : Channels, note : Notes,
   generation : Nat, instance : Nat, stamp : Nat, exclusive : Nat, periodic : SUBSET Groups,
   position : Nat, key_released : BOOLEAN, sostenuto_held : BOOLEAN,
   last : [Groups -> ValueRecord]]

ChannelRecord ==
  [sustain : BOOLEAN, sostenuto : BOOLEAN, cc : Nat, bend : Nat, dirty : SUBSET Groups,
   revision : Nat]

SlotRecord == [generation : Nat, sounding : BOOLEAN]

(* What a handler works on. *)
HandlerRecord ==
  [voices : [Voices -> VoiceRecord], active : Seq(Voices), free : Seq(Voices),
   channels : [Channels -> ChannelRecord], instance : Nat, stamp : Nat,
   fpga : [Voices -> SlotRecord], log : SUBSET (Voices \X Nat), left : Int, ok : BOOLEAN]

(* The constants as numbers. *)
LEMMA RuntimeNumbers ==
  /\ VoiceCount \in Nat /\ VoiceCount > 0 /\ Voices = 0 .. VoiceCount - 1
  /\ ChannelCount \in Nat /\ ChannelCount > 0 /\ Channels = 0 .. ChannelCount - 1
  /\ 0 \in Voices /\ 0 \in Channels /\ Voices \subseteq Nat
  /\ Slice \in Nat /\ Slice > 0
BY RuntimeAssumption DEF Voices, Channels

(* Sets of voices are finite. *)
LEMMA VoicesFinite ==
  ASSUME NEW vs, vs \subseteq Voices
  PROVE  IsFiniteSet(vs) /\ Cardinality(vs) \in Nat
<1>1. IsFiniteSet(Voices)
  BY RuntimeNumbers, FS_Interval
<1>2. IsFiniteSet(vs)
  BY <1>1, FS_Subset
<1> QED
  BY <1>2, FS_CardinalityType

(* A free slot. *)
LEMMA FreeVoiceType ==
  /\ FreeVoice \in VoiceRecord /\ FreeVoice.stage = "FREE" /\ FreeVoice.generation = 0
<1>1. (CHOOSE n \in Notes : TRUE) \in Notes
  BY RuntimeAssumption
<1>2. [g \in Groups |-> NoValue] \in [Groups -> ValueRecord]
  BY DEF NoValue, ValueRecord
<1> QED
  BY <1>1, <1>2, RuntimeNumbers DEF FreeVoice, VoiceRecord

(* A slot that is emptied keeps its generation. *)
LEMMA EmptiedFields ==
  ASSUME NEW a \in VoiceRecord
  PROVE  /\ Emptied(a) \in VoiceRecord
         /\ Emptied(a).stage = "FREE" /\ Emptied(a).generation = a.generation
  BY FreeVoiceType DEF Emptied, VoiceRecord

(* The fields no handler changes in a voice that lives on. *)
SameVoice(a, b) ==
  /\ b.channel = a.channel /\ b.note = a.note /\ b.generation = a.generation
  /\ b.instance = a.instance /\ b.stamp = a.stamp /\ b.exclusive = a.exclusive
  /\ b.periodic = a.periodic

(* One field of a voice is set, and the others stay. *)
LEMMA StageSet ==
  ASSUME NEW a \in VoiceRecord, NEW x \in {"FREE", "ACTIVE", "SUSTAIN_HELD", "RELEASED"},
         NEW b, b = [a EXCEPT !.stage = x]
  PROVE  /\ b \in VoiceRecord /\ SameVoice(a, b) /\ b.stage = x /\ b.position = a.position
         /\ b.key_released = a.key_released /\ b.sostenuto_held = a.sostenuto_held
         /\ b.last = a.last
  BY DEF VoiceRecord, SameVoice

(* The place in the list. *)
LEMMA PositionSet ==
  ASSUME NEW a \in VoiceRecord, NEW x \in Nat, NEW b, b = [a EXCEPT !.position = x]
  PROVE  /\ b \in VoiceRecord /\ SameVoice(a, b) /\ b.stage = a.stage /\ b.position = x
         /\ b.key_released = a.key_released /\ b.sostenuto_held = a.sostenuto_held
         /\ b.last = a.last
  BY DEF VoiceRecord, SameVoice

(* The hold of the sostenuto pedal. *)
LEMMA HeldSet ==
  ASSUME NEW a \in VoiceRecord, NEW x \in BOOLEAN, NEW b, b = [a EXCEPT !.sostenuto_held = x]
  PROVE  /\ b \in VoiceRecord /\ SameVoice(a, b) /\ b.stage = a.stage
         /\ b.position = a.position /\ b.key_released = a.key_released
         /\ b.sostenuto_held = x /\ b.last = a.last
  BY DEF VoiceRecord, SameVoice

(* The value last sent. *)
LEMMA LastSet ==
  ASSUME NEW a \in VoiceRecord, NEW x \in [Groups -> ValueRecord],
         NEW b, b = [a EXCEPT !.last = x]
  PROVE  /\ b \in VoiceRecord /\ SameVoice(a, b) /\ b.stage = a.stage
         /\ b.position = a.position /\ b.key_released = a.key_released
         /\ b.sostenuto_held = a.sostenuto_held /\ b.last = x
  BY DEF VoiceRecord, SameVoice

(* A voice that is released. *)
LEMMA ReleasedFields ==
  ASSUME NEW a \in VoiceRecord, NEW b, b = Released(a)
  PROVE  /\ b \in VoiceRecord /\ SameVoice(a, b) /\ b.stage = "RELEASED"
         /\ b.position = a.position /\ b.key_released = a.key_released
         /\ b.sostenuto_held = FALSE /\ b.last = a.last
<1> DEFINE p == [a EXCEPT !.stage = "RELEASED"]
<1>1. p = [a EXCEPT !.stage = "RELEASED"] /\ b = [p EXCEPT !.sostenuto_held = FALSE]
  BY DEF Released
<1> HIDE DEF p
<1>2. /\ p \in VoiceRecord /\ SameVoice(a, p) /\ p.stage = "RELEASED"
      /\ p.position = a.position /\ p.key_released = a.key_released /\ p.last = a.last
  BY <1>1 DEF VoiceRecord, SameVoice
<1>3. /\ b \in VoiceRecord /\ SameVoice(p, b) /\ b.stage = p.stage /\ b.position = p.position
      /\ b.key_released = p.key_released /\ b.sostenuto_held = FALSE /\ b.last = p.last
  BY <1>1, <1>2 DEF VoiceRecord, SameVoice
<1> QED
  BY <1>2, <1>3 DEF SameVoice

-----------------------------------------------------------------------------
(* Parts of a handler's record are set, and the others stay. *)

(* The voices. *)
LEMMA VoicesSet ==
  ASSUME NEW r \in HandlerRecord, NEW x \in [Voices -> VoiceRecord],
         NEW q, q = [r EXCEPT !.voices = x]
  PROVE  /\ q \in HandlerRecord /\ q.voices = x
         /\ q.active = r.active /\ q.free = r.free /\ q.channels = r.channels
         /\ q.instance = r.instance /\ q.stamp = r.stamp /\ q.fpga = r.fpga /\ q.log = r.log
         /\ q.left = r.left /\ q.ok = r.ok
  BY DEF HandlerRecord

-----------------------------------------------------------------------------
(* The parts of the inductive invariant that a handler can disturb. *)

(* List, stack and stages agree. *)
ListsOK(r) ==
  /\ Len(r.active) + Len(r.free) = VoiceCount
  /\ \A i \in 1 .. Len(r.active) :
       r.voices[r.active[i]].stage # "FREE" /\ r.voices[r.active[i]].position = i
  /\ \A v \in Voices : r.voices[v].stage # "FREE" =>
       r.voices[v].position \in 1 .. Len(r.active) /\ r.active[r.voices[v].position] = v
  /\ \A i, k \in 1 .. Len(r.free) : r.free[i] = r.free[k] => i = k
  /\ \A i \in 1 .. Len(r.free) : r.voices[r.free[i]].stage = "FREE"
  /\ \A v \in Voices : r.voices[v].stage = "FREE" => \E i \in 1 .. Len(r.free) : r.free[i] = v

(* What sounds is what the table owns, and no report is early. *)
SoundOK(r) ==
  /\ \A v \in Voices : r.fpga[v].sounding =>
       r.voices[v].stage # "FREE" /\ r.voices[v].generation = r.fpga[v].generation
  /\ \A v \in Voices, g \in Nat : <<v, g>> \in r.log =>
       g <= r.voices[v].generation /\ ~(r.fpga[v].sounding /\ r.fpga[v].generation = g)

(* A voice sounds on without its key only under a pedal. *)
NoteOK(voice, channel) ==
  Open(voice) =>
    /\ voice.key_released => channel.sustain \/ voice.sostenuto_held
    /\ voice.sostenuto_held => channel.sostenuto
    /\ voice.stage = "SUSTAIN_HELD" <=> voice.key_released

NotesOK(r) == \A v \in Voices : NoteOK(r.voices[v], r.channels[r.voices[v].channel])

(* From f to g voices end, at most. *)
Fades(f, g) ==
  \A v \in Voices :
    /\ SameVoice(f[v], g[v]) /\ g[v].position = f[v].position /\ g[v].last = f[v].last
    /\ g[v].stage = "FREE" <=> f[v].stage = "FREE"
    /\ Open(g[v]) => Open(f[v])
    /\ f[v].key_released => g[v].key_released

(* The lists and counters stay. *)
SameLists(r, q) ==
  q.active = r.active /\ q.free = r.free /\ q.instance = r.instance /\ q.stamp = r.stamp

SameSound(r, q) == q.fpga = r.fpga /\ q.log = r.log

(* Fading is a preorder. *)
LEMMA FadesSelf == ASSUME NEW f PROVE Fades(f, f)
  BY DEF Fades, SameVoice

(* So is one fading after another. *)
LEMMA FadesTrans ==
  ASSUME NEW f, NEW g, NEW h, Fades(f, g), Fades(g, h)
  PROVE  Fades(f, h)
  BY DEF Fades, SameVoice

(* It leaves the lists right, and the sound. *)
LEMMA FadesLists ==
  ASSUME NEW r \in HandlerRecord, NEW q \in HandlerRecord, ListsOK(r), SameLists(r, q),
         Fades(r.voices, q.voices)
  PROVE  ListsOK(q)
<1>1. \A i \in 1 .. Len(r.active) : r.active[i] \in Voices
  BY DEF HandlerRecord
<1>2. \A i \in 1 .. Len(r.free) : r.free[i] \in Voices
  BY DEF HandlerRecord
<1>3. q.active = r.active /\ q.free = r.free
  BY DEF SameLists
<1>4. \A v \in Voices : /\ q.voices[v].stage = "FREE" <=> r.voices[v].stage = "FREE"
                        /\ q.voices[v].position = r.voices[v].position
  BY DEF Fades
<1>5. \A i \in 1 .. Len(q.active) :
        q.voices[q.active[i]].stage # "FREE" /\ q.voices[q.active[i]].position = i
  BY <1>1, <1>3, <1>4 DEF ListsOK
<1>6. \A v \in Voices : q.voices[v].stage # "FREE" =>
        q.voices[v].position \in 1 .. Len(q.active) /\ q.active[q.voices[v].position] = v
  BY <1>3, <1>4 DEF ListsOK
<1>7. \A i \in 1 .. Len(q.free) : q.voices[q.free[i]].stage = "FREE"
  BY <1>2, <1>3, <1>4 DEF ListsOK
<1>8. \A v \in Voices : q.voices[v].stage = "FREE" => \E i \in 1 .. Len(q.free) : q.free[i] = v
  BY <1>3, <1>4 DEF ListsOK
<1> QED
  BY <1>3, <1>5, <1>6, <1>7, <1>8 DEF ListsOK

(* What sounds is still what the table owns. *)
LEMMA FadesSound ==
  ASSUME NEW r, NEW q, SoundOK(r), SameSound(r, q), Fades(r.voices, q.voices)
  PROVE  SoundOK(q)
  BY DEF SoundOK, SameSound, Fades, SameVoice

(* The active voices are those that are not free. *)
LEMMA ActiveIsNotFree ==
  ASSUME NEW r \in HandlerRecord, ListsOK(r)
  PROVE  ActiveVoices(r) = {v \in Voices : r.voices[v].stage # "FREE"}
<1>1. r.active \in Seq(Voices) /\ DOMAIN r.active = 1 .. Len(r.active)
  BY DEF HandlerRecord
<1>2. ActiveVoices(r) = {r.active[i] : i \in 1 .. Len(r.active)}
  BY <1>1 DEF ActiveVoices, Range
<1>3. \A i \in 1 .. Len(r.active) : r.active[i] \in Voices
  BY <1>1
<1> QED
  BY <1>2, <1>3 DEF ListsOK

(* What the sink takes is some of what it was given. *)
LEMMA TakenSome ==
  ASSUME NEW left, NEW vs, vs \subseteq Voices, NEW order
  PROVE  Taken(left, vs, order) \subseteq vs /\ Cardinality(Taken(left, vs, order)) \in Nat
<1>1. Taken(left, vs, order) \subseteq vs
  BY DEF Taken
<1> QED
  BY <1>1, VoicesFinite

(* Releasing ends voices, and all of them unless the handler fails. *)
LEMMA ReleaseResult ==
  ASSUME NEW r \in HandlerRecord, NEW vs, vs \subseteq Voices,
         \A v \in vs : r.voices[v].stage # "FREE", NEW q, q = ReleaseVoices(r, vs)
  PROVE  /\ q \in HandlerRecord /\ SameLists(r, q) /\ SameSound(r, q)
         /\ q.channels = r.channels /\ Fades(r.voices, q.voices)
         /\ \A v \in Voices \ vs : q.voices[v] = r.voices[v]
         /\ \A v \in Voices : q.voices[v] = r.voices[v] \/ q.voices[v].stage = "RELEASED"
         /\ q.ok => \A v \in vs : q.voices[v].stage = "RELEASED"
         /\ q.ok = (Taken(r.left, vs, ListOrder(r)) = vs)
<1> DEFINE taken == Taken(r.left, vs, ListOrder(r))
           x == [v \in Voices |-> IF v \in taken THEN Released(r.voices[v]) ELSE r.voices[v]]
           l == r.left - Cardinality(taken)
<1>1. q = [r EXCEPT !.voices = x, !.left = l, !.ok = (taken = vs)]
  BY DEF ReleaseVoices, EmitEach
<1>2. taken \subseteq vs /\ Cardinality(taken) \in Nat
  BY TakenSome
<1>3. r.voices \in [Voices -> VoiceRecord] /\ r.left \in Int
  BY DEF HandlerRecord
<1>4. l \in Int
  BY <1>2, <1>3
<1> HIDE DEF taken, l
<1>6. \A v \in Voices : x[v] = IF v \in taken THEN Released(r.voices[v]) ELSE r.voices[v]
  OBVIOUS
<1>7. x \in [Voices -> VoiceRecord]
  BY <1>3, ReleasedFields
<1>8. Fades(r.voices, x) /\ \A v \in taken : x[v].stage = "RELEASED"
  <2>1. ASSUME NEW v \in taken
        PROVE  /\ SameVoice(r.voices[v], x[v]) /\ x[v].position = r.voices[v].position
               /\ x[v].last = r.voices[v].last /\ x[v].stage = "RELEASED"
               /\ x[v].key_released = r.voices[v].key_released /\ r.voices[v].stage # "FREE"
    <3>1. v \in Voices /\ r.voices[v] \in VoiceRecord /\ x[v] = Released(r.voices[v])
      BY <1>2, <1>3, <1>6
    <3> QED
      BY <1>2, <3>1, ReleasedFields
  <2>2. \A v \in Voices \ taken : x[v] = r.voices[v]
    BY <1>6
  <2> HIDE DEF x
  <2> QED
    BY <1>2, <2>1, <2>2 DEF Fades, SameVoice, Open
<1> HIDE DEF x
<1>9. /\ q \in HandlerRecord /\ q.voices = x /\ q.left = l /\ q.ok = (taken = vs)
      /\ q.active = r.active /\ q.free = r.free /\ q.channels = r.channels
      /\ q.instance = r.instance /\ q.stamp = r.stamp /\ q.fpga = r.fpga /\ q.log = r.log
  BY <1>1, <1>4, <1>7 DEF HandlerRecord
<1> QED
  BY <1>2, <1>6, <1>8, <1>9 DEF SameLists, SameSound, taken

(* So does stopping, and what it ends it reports. *)
LEMMA StopResult ==
  ASSUME NEW r \in HandlerRecord, NEW vs, vs \subseteq Voices,
         \A v \in vs : r.voices[v].stage # "FREE", NEW q, q = StopVoices(r, vs)
  PROVE  /\ q \in HandlerRecord /\ SameLists(r, q) /\ q.channels = r.channels
         /\ Fades(r.voices, q.voices)
         /\ \A v \in Voices \ vs : q.voices[v] = r.voices[v]
         /\ q.ok => \A v \in vs : q.voices[v].stage = "RELEASED"
         /\ SoundOK(r) => SoundOK(q)
<1> DEFINE s == ReleaseVoices(r, vs)
           ended == Stopped(r, vs)
           x == [v \in Voices |-> IF v \in ended THEN Silent ELSE r.fpga[v]]
           l == s.log \union {<<v, r.fpga[v].generation>> : v \in ended}
<1>1. q = [s EXCEPT !.fpga = x, !.log = l]
  BY DEF StopVoices, ReleaseVoices
<1>2. /\ s \in HandlerRecord /\ SameLists(r, s) /\ SameSound(r, s)
      /\ s.channels = r.channels /\ Fades(r.voices, s.voices)
      /\ \A v \in Voices \ vs : s.voices[v] = r.voices[v]
      /\ s.ok => \A v \in vs : s.voices[v].stage = "RELEASED"
  BY ReleaseResult
<1> HIDE DEF s
<1>3. /\ ended \subseteq Voices
      /\ \A v \in ended : r.fpga[v].sounding /\ r.fpga[v].generation = r.voices[v].generation
  BY TakenSome DEF Stopped
<1> HIDE DEF ended
<1>4. r.fpga \in [Voices -> SlotRecord] /\ r.log \subseteq Voices \X Nat /\ s.log = r.log
  BY <1>2 DEF HandlerRecord, SameSound
<1>5. x \in [Voices -> SlotRecord] /\ l \in SUBSET (Voices \X Nat)
  <2>1. Silent \in SlotRecord
    BY DEF Silent, SlotRecord
  <2>2. \A v \in ended : r.fpga[v].generation \in Nat
    BY <1>3, <1>4 DEF SlotRecord
  <2> QED
    BY <1>3, <1>4, <2>1, <2>2
<1>6. \A v \in Voices : x[v] = IF v \in ended THEN Silent ELSE r.fpga[v]
  OBVIOUS
<1>7. \A v, g : <<v, g>> \in l => <<v, g>> \in r.log \/ (v \in ended /\ g = r.fpga[v].generation)
  BY <1>4
<1> HIDE DEF x, l
<1>8. /\ q \in HandlerRecord /\ q.fpga = x /\ q.log = l
      /\ q.voices = s.voices /\ q.active = s.active /\ q.free = s.free
      /\ q.channels = s.channels /\ q.instance = s.instance /\ q.stamp = s.stamp
      /\ q.left = s.left /\ q.ok = s.ok
  BY <1>1, <1>2, <1>5 DEF HandlerRecord
<1>9. SoundOK(r) => SoundOK(q)
  <2> SUFFICES ASSUME SoundOK(r) PROVE SoundOK(q)
    OBVIOUS
  <2>1. \A v \in Voices : /\ q.voices[v].stage = "FREE" <=> r.voices[v].stage = "FREE"
                          /\ q.voices[v].generation = r.voices[v].generation
    BY <1>2, <1>8 DEF Fades, SameVoice
  <2>2. \A v \in Voices : q.fpga[v].sounding =>
          v \notin ended /\ q.fpga[v] = r.fpga[v]
    BY <1>6, <1>8 DEF Silent
  <2>3. \A v \in Voices : q.fpga[v].sounding =>
          q.voices[v].stage # "FREE" /\ q.voices[v].generation = q.fpga[v].generation
    BY <2>1, <2>2 DEF SoundOK
  <2>4. ASSUME NEW v \in Voices, NEW g \in Nat, <<v, g>> \in q.log
        PROVE  g <= q.voices[v].generation /\ ~(q.fpga[v].sounding /\ q.fpga[v].generation = g)
    <3>1. CASE <<v, g>> \in r.log
      BY <2>1, <2>2, <3>1 DEF SoundOK
    <3>2. CASE v \in ended /\ g = r.fpga[v].generation
      BY <1>3, <2>1, <2>2, <3>2
    <3> QED
      BY <1>7, <1>8, <2>4, <3>1, <3>2
  <2> QED
    BY <2>3, <2>4 DEF SoundOK
<1> QED
  BY <1>2, <1>8, <1>9 DEF SameLists

(* Keys that go up: a voice a pedal keeps is held, another one ends. *)
WentUp(r, vs, kept, q) ==
  /\ q \in HandlerRecord /\ SameLists(r, q) /\ SameSound(r, q)
  /\ q.channels = r.channels /\ Fades(r.voices, q.voices)
  /\ \A v \in Voices \ vs : q.voices[v] = r.voices[v]
  /\ q.ok => /\ \A v \in kept : /\ q.voices[v].stage = "SUSTAIN_HELD" /\ q.voices[v].key_released
                                /\ q.voices[v].sostenuto_held = r.voices[v].sostenuto_held
             /\ \A v \in vs \ kept : q.voices[v].stage = "RELEASED"

(* The loop of a Note Off, and of the messages that end many notes. *)
LEMMA KeysUpResult ==
  ASSUME NEW r \in HandlerRecord, NEW vs, vs \subseteq Voices, NEW kept, kept \subseteq vs,
         \A v \in vs : Open(r.voices[v]), NEW q, q = KeysUp(r, vs, kept)
  PROVE  WentUp(r, vs, kept, q)
<1> DEFINE refused == (vs \ kept) \ Taken(r.left, vs \ kept, ListOrder(r))
           reached == {v \in vs : \A w \in refused : r.voices[v].position <= r.voices[w].position}
           x == [v \in Voices |->
                   IF v \notin reached THEN r.voices[v]
                   ELSE [r.voices[v] EXCEPT !.key_released = TRUE,
                           !.stage = IF v \in kept THEN "SUSTAIN_HELD" ELSE @,
                           !.sostenuto_held = IF v \in kept THEN @ ELSE FALSE]]
           s == [r EXCEPT !.voices = x]
<1>1. q = ReleaseVoices(s, vs \ kept)
  BY DEF KeysUp
<1>2. r.voices \in [Voices -> VoiceRecord] /\ r.left \in Int
  BY DEF HandlerRecord
<1>3. reached \subseteq vs
  OBVIOUS
<1>4. refused = {} => reached = vs
  OBVIOUS
<1>5. refused = {} <=> Taken(r.left, vs \ kept, ListOrder(r)) = vs \ kept
  <2>1. Taken(r.left, vs \ kept, ListOrder(r)) \subseteq vs \ kept
    BY TakenSome
  <2> QED
    BY <2>1
<1>6. \A v \in Voices : x[v] = IF v \notin reached THEN r.voices[v]
                               ELSE [r.voices[v] EXCEPT !.key_released = TRUE,
                                       !.stage = IF v \in kept THEN "SUSTAIN_HELD" ELSE @,
                                       !.sostenuto_held = IF v \in kept THEN @ ELSE FALSE]
  OBVIOUS
<1>7. x = [v \in Voices |-> x[v]] /\ s = [r EXCEPT !.voices = x]
  OBVIOUS
<1> HIDE DEF refused, reached, x, s
<1>8. ASSUME NEW v \in reached
      PROVE  /\ x[v] \in VoiceRecord /\ SameVoice(r.voices[v], x[v])
             /\ x[v].position = r.voices[v].position /\ x[v].last = r.voices[v].last
             /\ x[v].key_released = TRUE
             /\ v \in kept => x[v].sostenuto_held = r.voices[v].sostenuto_held
             /\ x[v].stage = IF v \in kept THEN "SUSTAIN_HELD" ELSE r.voices[v].stage
  <2> DEFINE a == r.voices[v]
             p == [a EXCEPT !.key_released = TRUE]
             g == IF v \in kept THEN "SUSTAIN_HELD" ELSE a.stage
             o == [p EXCEPT !.stage = g]
             h == IF v \in kept THEN a.sostenuto_held ELSE FALSE
  <2>1. v \in Voices /\ a \in VoiceRecord
    BY <1>2, <1>3
  <2>2. x[v] = [a EXCEPT !.key_released = TRUE, !.stage = g, !.sostenuto_held = h]
    BY <1>6, <2>1
  <2>3. g \in {"FREE", "ACTIVE", "SUSTAIN_HELD", "RELEASED"} /\ h \in BOOLEAN
    BY <2>1 DEF VoiceRecord
  <2> HIDE DEF a, g, h
  <2>4. o = [p EXCEPT !.stage = g] /\ x[v] = [o EXCEPT !.sostenuto_held = h]
    BY <2>2
  <2>5. /\ p \in VoiceRecord /\ SameVoice(a, p) /\ p.stage = a.stage
        /\ p.position = a.position /\ p.key_released = TRUE
        /\ p.sostenuto_held = a.sostenuto_held /\ p.last = a.last
    BY <2>1 DEF VoiceRecord, SameVoice
  <2> HIDE DEF p, o
  <2>6. /\ o \in VoiceRecord /\ SameVoice(p, o) /\ o.stage = g /\ o.position = p.position
        /\ o.key_released = p.key_released /\ o.last = p.last
    BY <2>3, <2>4, <2>5, StageSet
  <2>7. /\ x[v] \in VoiceRecord /\ SameVoice(o, x[v]) /\ x[v].stage = o.stage
        /\ x[v].position = o.position /\ x[v].key_released = o.key_released
        /\ x[v].sostenuto_held = h /\ x[v].last = o.last
    <3> DEFINE y == x[v]
    <3>1. y = [o EXCEPT !.sostenuto_held = h] /\ h \in BOOLEAN /\ o \in VoiceRecord
      BY <2>3, <2>4, <2>6
    <3> HIDE DEF y
    <3>2. /\ y \in VoiceRecord /\ SameVoice(o, y) /\ y.stage = o.stage
          /\ y.position = o.position /\ y.key_released = o.key_released
          /\ y.sostenuto_held = h /\ y.last = o.last
      BY <3>1, HeldSet
    <3> QED
      BY <3>2 DEF y
  <2> QED
    BY <2>5, <2>6, <2>7 DEF SameVoice, a, g, h
<1>9. x \in [Voices -> VoiceRecord]
  BY <1>2, <1>6, <1>7, <1>8
<1>10. /\ s \in HandlerRecord /\ s.voices = x
       /\ s.active = r.active /\ s.free = r.free /\ s.channels = r.channels
       /\ s.instance = r.instance /\ s.stamp = r.stamp /\ s.fpga = r.fpga /\ s.log = r.log
       /\ s.left = r.left /\ s.ok = r.ok
  BY <1>7, <1>9, VoicesSet
<1>11. Fades(r.voices, x)
  <2>1. ASSUME NEW v \in Voices \ reached PROVE x[v] = r.voices[v]
    BY <1>6
  <2>2. ASSUME NEW v \in reached
        PROVE  Open(r.voices[v]) /\ (x[v].stage = "SUSTAIN_HELD" \/ x[v].stage = r.voices[v].stage)
    BY <1>3, <1>8
  <2> QED
    BY <1>3, <1>8, <2>1, <2>2 DEF Fades, SameVoice, Open
<1>12. ListOrder(s) = ListOrder(r)
  BY <1>10, <1>11 DEF ListOrder, Fades
<1>13. \A v \in vs \ kept : s.voices[v].stage # "FREE"
  BY <1>10, <1>11 DEF Fades, Open
<1>14. /\ q \in HandlerRecord /\ SameLists(s, q) /\ SameSound(s, q)
       /\ q.channels = s.channels /\ Fades(s.voices, q.voices)
       /\ \A v \in Voices \ (vs \ kept) : q.voices[v] = s.voices[v]
       /\ q.ok => \A v \in vs \ kept : q.voices[v].stage = "RELEASED"
       /\ q.ok = (Taken(s.left, vs \ kept, ListOrder(s)) = vs \ kept)
  <2> DEFINE ws == vs \ kept
  <2>1. ws \subseteq Voices /\ q = ReleaseVoices(s, ws) /\ \A v \in ws : s.voices[v].stage # "FREE"
    BY <1>1, <1>13
  <2> HIDE DEF ws
  <2>2. /\ q \in HandlerRecord /\ SameLists(s, q) /\ SameSound(s, q)
        /\ q.channels = s.channels /\ Fades(s.voices, q.voices)
        /\ \A v \in Voices \ ws : q.voices[v] = s.voices[v]
        /\ q.ok => \A v \in ws : q.voices[v].stage = "RELEASED"
        /\ q.ok = (Taken(s.left, ws, ListOrder(s)) = ws)
    BY <1>10, <2>1, ReleaseResult
  <2> QED
    BY <2>2 DEF ws
<1>15. Fades(r.voices, q.voices)
  BY <1>10, <1>11, <1>14, FadesTrans
<1>16. ASSUME q.ok PROVE reached = vs
  BY <1>4, <1>5, <1>10, <1>12, <1>14, <1>16
<1>17. ASSUME q.ok, NEW v \in kept
       PROVE  /\ q.voices[v].stage = "SUSTAIN_HELD" /\ q.voices[v].key_released
              /\ q.voices[v].sostenuto_held = r.voices[v].sostenuto_held
  <2>1. v \in reached /\ v \in Voices \ (vs \ kept)
    BY <1>16, <1>17
  <2> QED
    BY <1>8, <1>10, <1>14, <2>1
<1>18. \A v \in Voices \ vs : q.voices[v] = r.voices[v]
  BY <1>3, <1>6, <1>10, <1>14
<1> QED
  BY <1>10, <1>14, <1>15, <1>17, <1>18 DEF SameLists, SameSound, WentUp
-----------------------------------------------------------------------------
(* The inductive invariant. *)

(* The runtime between handlers. *)
RuntimeRecord ==
  [voices : [Voices -> VoiceRecord], active : Seq(Voices), free : Seq(Voices),
   channels : [Channels -> ChannelRecord], instance : Nat, stamp : Nat]

RuntimeTypeOK ==
  /\ rt \in RuntimeRecord /\ periodic \in BOOLEAN
  /\ fpga \in [Voices -> SlotRecord] /\ log \in SUBSET (Voices \X Nat) /\ fault \in BOOLEAN
  /\ keys \in [Channels -> [Notes -> Nat]] /\ drift \in [Voices -> Int]
  /\ young \subseteq Voices /\ resets \subseteq Channels /\ aba \subseteq Channels

(* The notes that sound with their key down are at most the keys down. *)
Pressed(voices, c, n) ==
  {voices[v].instance : v \in {w \in Voices : /\ KeyDown(voices[w]) /\ voices[w].channel = c
                                              /\ voices[w].note = n}}

KeysOK(voices) ==
  \A c \in Channels, n \in Notes : Cardinality(Pressed(voices, c, n)) <= keys[c][n]

(* A job and the voices: it still knows those it has not lost since. *)
KnownTo(j, v) == v \in DOMAIN j.snapshot /\ rt.voices[v].generation = j.snapshot[v]

Snapshots == UNION {[vs -> Nat] : vs \in SUBSET Voices}

(* What a job remembers. *)
JobRecord ==
  [active : BOOLEAN, cursor : 0 .. VoiceCount, elapsed : Nat, snapshot : Snapshots,
   revisions : [Channels -> Nat]]

(* Generations only grow, and the young voices are those that grew. *)
SnapshotOK(j) ==
  \A v \in DOMAIN j.snapshot :
    /\ v \in Voices /\ j.snapshot[v] \in Nat /\ j.snapshot[v] <= rt.voices[v].generation
    /\ v \in young <=> rt.voices[v].generation # j.snapshot[v]

(* The voices before the cursor have had their ticks. *)
DriftOK(j) ==
  \A v \in Voices : rt.voices[v].stage # "FREE" =>
    drift[v] = IF KnownTo(j, v) /\ v < j.cursor THEN j.elapsed ELSE 0

(* Revisions only grow, except by a reset. *)
RevisionsOK(j) ==
  \A c \in Channels : c \in resets \/ rt.channels[c].revision >= j.revisions[c]

(* The voice was told every value. *)
Current(v) == rt.voices[v].last = Target(rt.channels, periodic, rt.voices[v])

(* Then it was told those that are marked. *)
LEMMA CurrentIsTold ==
  ASSUME NEW v, NEW g \in Groups, Current(v)
  PROVE  Told(v, g)
  BY DEF Current, Told, UpToMarks

(* The dirty mark of a group outlives the job, or the job is still to      *)
(* visit the voice.                                                        *)
StillDue(j, v, g) ==
  /\ g \in rt.channels[rt.voices[v].channel].dirty
  /\ \/ rt.voices[v].channel \in resets
     \/ rt.channels[rt.voices[v].channel].revision # j.revisions[rt.voices[v].channel]
     \/ KnownTo(j, v) /\ j.cursor <= v

ValuesOK(j) ==
  \A v \in Voices, g \in Groups : Open(rt.voices[v]) /\ rt.voices[v].channel \notin aba =>
    Told(v, g) \/ StillDue(j, v, g)

(* A job underway. *)
JobAt(j) ==
  j \in JobRecord /\ SnapshotOK(j) /\ DriftOK(j) /\ RevisionsOK(j) /\ ValuesOK(j)

(* Between jobs. *)
NoJobAt ==
  /\ resets = {} /\ young = {}
  /\ \A v \in Voices : rt.voices[v].stage # "FREE" => drift[v] = 0
  /\ \A v \in Voices, g \in Groups : Open(rt.voices[v]) /\ rt.voices[v].channel \notin aba =>
       Told(v, g) \/ g \in rt.channels[rt.voices[v].channel].dirty

(* The lists are right even after a fault. *)
RuntimeInv ==
  /\ RuntimeTypeOK /\ ListsOK(Begin(0))
  /\ ~fault => /\ SoundOK(Begin(0)) /\ NotesOK(Begin(0)) /\ KeysOK(rt.voices)
               /\ IF job.active THEN JobAt(job) ELSE NoJobAt

(* A handler begins with the state. *)
LEMMA BeginFields ==
  ASSUME RuntimeTypeOK, NEW limit \in Int
  PROVE  LET r == Begin(limit)
         IN  /\ r \in HandlerRecord /\ r.voices = rt.voices /\ r.active = rt.active
             /\ r.free = rt.free /\ r.channels = rt.channels /\ r.instance = rt.instance
             /\ r.stamp = rt.stamp /\ r.fpga = fpga /\ r.log = log /\ r.left = limit /\ r.ok
  BY DEF RuntimeTypeOK, RuntimeRecord, HandlerRecord, Begin

(* Only some fields matter. *)
LEMMA ListsSame ==
  ASSUME NEW r, NEW q, q.voices = r.voices, q.active = r.active, q.free = r.free, ListsOK(r)
  PROVE  ListsOK(q)
  BY DEF ListsOK

(* What holds of the state holds at the beginning of a handler. *)
LEMMA BeginKeeps ==
  ASSUME NEW limit
  PROVE  /\ ListsOK(Begin(0)) => ListsOK(Begin(limit))
         /\ SoundOK(Begin(0)) => SoundOK(Begin(limit))
         /\ NotesOK(Begin(0)) => NotesOK(Begin(limit))
<1>1. /\ Begin(limit).voices = Begin(0).voices /\ Begin(limit).active = Begin(0).active
      /\ Begin(limit).free = Begin(0).free /\ Begin(limit).channels = Begin(0).channels
      /\ Begin(limit).fpga = Begin(0).fpga /\ Begin(limit).log = Begin(0).log
  BY DEF Begin
<1>2. ListsOK(Begin(0)) => ListsOK(Begin(limit))
  BY <1>1, ListsSame
<1>3. SoundOK(Begin(0)) => SoundOK(Begin(limit))
  BY <1>1 DEF SoundOK
<1>4. NotesOK(Begin(0)) => NotesOK(Begin(limit))
  BY <1>1 DEF NotesOK
<1> QED
  BY <1>2, <1>3, <1>4

(* What it ends with is the next state. *)
LEMMA HandledFields ==
  ASSUME NEW q \in HandlerRecord, Handled(q)
  PROVE  /\ rt' \in RuntimeRecord /\ rt'.voices = q.voices /\ rt'.active = q.active
         /\ rt'.free = q.free /\ rt'.channels = q.channels /\ rt'.instance = q.instance
         /\ rt'.stamp = q.stamp /\ fpga' = q.fpga /\ log' = q.log /\ fault' = ~q.ok
         /\ fpga' \in [Voices -> SlotRecord] /\ log' \in SUBSET (Voices \X Nat)
         /\ fault' \in BOOLEAN
  BY DEF HandlerRecord, RuntimeRecord, Handled

(* What holds of the record it ends with holds of the next state. *)
LEMMA HandledKeeps ==
  ASSUME NEW q \in HandlerRecord, Handled(q)
  PROVE  /\ ListsOK(q) => ListsOK(Begin(0))'
         /\ SoundOK(q) => SoundOK(Begin(0))'
         /\ NotesOK(q) => NotesOK(Begin(0))'
<1>1. /\ Begin(0)'.voices = q.voices /\ Begin(0)'.active = q.active
      /\ Begin(0)'.free = q.free /\ Begin(0)'.channels = q.channels
      /\ Begin(0)'.fpga = q.fpga /\ Begin(0)'.log = q.log
  BY HandledFields DEF Begin
<1>2. ListsOK(q) => ListsOK(Begin(0))'
  <2>1. ListsOK(q) => ListsOK(Begin(0)')
    BY <1>1, ListsSame
  <2> QED
    BY <2>1 DEF ListsOK, Begin
<1>3. SoundOK(q) => SoundOK(Begin(0))'
  BY <1>1 DEF SoundOK
<1>4. NotesOK(q) => NotesOK(Begin(0))'
  BY <1>1 DEF NotesOK, NoteOK, Open
<1> QED
  BY <1>2, <1>3, <1>4
-----------------------------------------------------------------------------
(* Keys. *)

(* The pressed notes are finitely many. *)
LEMMA PressedFinite ==
  ASSUME NEW voices, NEW c, NEW n
  PROVE  IsFiniteSet(Pressed(voices, c, n)) /\ Cardinality(Pressed(voices, c, n)) \in Nat
<1> DEFINE S == {w \in Voices : KeyDown(voices[w]) /\ voices[w].channel = c /\ voices[w].note = n}
           f == [v \in S |-> voices[v].instance]
           T == Pressed(voices, c, n)
<1>1. IsFiniteSet(S)
  BY VoicesFinite
<1>2. T = {voices[v].instance : v \in S}
  BY DEF Pressed
<1> HIDE DEF S
<1>3. f \in Surjection(S, T)
  BY <1>2 DEF Surjection
<1> HIDE DEF f, T
<1>4. IsFiniteSet(T)
  BY <1>1, <1>3, FS_Surjection
<1> QED
  BY <1>4, FS_CardinalityType DEF T

(* Fewer notes are pressed after voices faded. *)
LEMMA FadesPressed ==
  ASSUME NEW f, NEW g, Fades(f, g), NEW c, NEW n
  PROVE  Pressed(g, c, n) \subseteq Pressed(f, c, n)
<1> SUFFICES ASSUME NEW i \in Pressed(g, c, n) PROVE i \in Pressed(f, c, n)
  OBVIOUS
<1>1. PICK v \in Voices : /\ KeyDown(g[v]) /\ g[v].channel = c /\ g[v].note = n
                          /\ i = g[v].instance
  BY DEF Pressed
<1>2. KeyDown(f[v]) /\ f[v].channel = c /\ f[v].note = n /\ i = f[v].instance
  BY <1>1 DEF Fades, SameVoice, KeyDown
<1> QED
  BY <1>2 DEF Pressed

(* A part of the pressed notes is no more notes. *)
LEMMA FewerPressed ==
  ASSUME NEW f, NEW g, NEW c, NEW n, Pressed(g, c, n) \subseteq Pressed(f, c, n)
  PROVE  Cardinality(Pressed(g, c, n)) <= Cardinality(Pressed(f, c, n))
  BY PressedFinite, FS_Subset

(* Voices that fade press no more notes than there are keys down. *)
LEMMA FadesKeys ==
  ASSUME RuntimeTypeOK, NEW g, Fades(rt.voices, g), KeysOK(rt.voices)
  PROVE  KeysOK(g)
<1> SUFFICES ASSUME NEW c \in Channels, NEW n \in Notes
             PROVE  Cardinality(Pressed(g, c, n)) <= keys[c][n]
  BY DEF KeysOK
<1>1. Cardinality(Pressed(g, c, n)) <= Cardinality(Pressed(rt.voices, c, n))
  BY FadesPressed, FewerPressed
<1>2. Cardinality(Pressed(rt.voices, c, n)) <= keys[c][n] /\ keys[c][n] \in Nat
  BY DEF KeysOK, RuntimeTypeOK
<1> QED
  BY <1>1, <1>2, PressedFinite

-----------------------------------------------------------------------------
(* Messages: a handler that ends voices at most, marks the channels cs and *)
(* resets those in cleared.                                                *)

SameValues(a, b) ==
  b.cc = a.cc /\ b.bend = a.bend /\ b.dirty = a.dirty /\ b.revision = a.revision
BendMoved(a, b) ==
  b.cc = a.cc /\ b.dirty = a.dirty \union {"pitch"} /\ b.revision = a.revision + 1
ChannelsMoved(q, cs, cleared) ==
  \A c \in Channels :
    /\ c \notin cs => \/ SameValues(rt.channels[c], q.channels[c])
                      \/ BendMoved(rt.channels[c], q.channels[c])
    /\ c \in cs => /\ q.channels[c].dirty = Groups
                   /\ c \in cleared \/ q.channels[c].revision = rt.channels[c].revision + 1

MessageResult(q, cs, cleared) ==
  /\ q \in HandlerRecord /\ SameLists(rt, q) /\ Fades(rt.voices, q.voices)
  /\ q.ok => SoundOK(q) /\ NotesOK(q) /\ ChannelsMoved(q, cs, cleared)

(* The job, if one runs, is as right after as before. *)
LEMMA MessageKeepsJob ==
  ASSUME RuntimeTypeOK, NEW q, NEW cs, NEW cleared, MessageResult(q, cs, cleared), q.ok,
         Handled(q), cleared \subseteq cs, cs \subseteq Channels,
         periodic' = periodic \/ cs = Channels, aba' = aba \ cs,
         resets' = IF job.active THEN resets \union cleared ELSE resets,
         UNCHANGED <<job, drift, young>>,
         IF job.active THEN JobAt(job) ELSE NoJobAt
  PROVE  (IF job.active THEN JobAt(job) ELSE NoJobAt)'
<1>1. rt'.voices = q.voices /\ rt'.channels = q.channels /\ job' = job /\ drift' = drift /\ young' = young
  BY HandledFields DEF MessageResult
<1>2. \A v \in Voices :
        /\ rt'.voices[v].generation = rt.voices[v].generation
        /\ rt'.voices[v].channel = rt.voices[v].channel
        /\ rt'.voices[v].periodic = rt.voices[v].periodic
        /\ rt'.voices[v].last = rt.voices[v].last
        /\ rt'.voices[v].stage = "FREE" <=> rt.voices[v].stage = "FREE"
        /\ Open(rt'.voices[v]) => Open(rt.voices[v])
        /\ rt.voices[v].channel \in Channels
  <2>1. rt.voices \in [Voices -> VoiceRecord]
    BY DEF RuntimeTypeOK, RuntimeRecord
  <2>2. \A v \in Voices : rt.voices[v].channel \in Channels
    BY <2>1 DEF VoiceRecord
  <2> QED
    BY <1>1, <2>2 DEF MessageResult, Fades, SameVoice
<1>3. \A c \in Channels :
        /\ c \notin cs => \/ SameValues(rt.channels[c], rt'.channels[c])
                          \/ BendMoved(rt.channels[c], rt'.channels[c])
        /\ c \in cs => rt'.channels[c].dirty = Groups
        /\ c \in cs \ cleared => rt'.channels[c].revision = rt.channels[c].revision + 1
        /\ rt.channels[c].revision \in Nat
  <2>1. rt.channels \in [Channels -> ChannelRecord]
    BY DEF RuntimeTypeOK, RuntimeRecord
  <2>2. \A c \in Channels : rt.channels[c].revision \in Nat
    BY <2>1 DEF ChannelRecord
  <2> QED
    BY <1>1, <2>2 DEF MessageResult, ChannelsMoved
<1>4. ASSUME NEW v \in Voices, NEW g \in Groups, rt.voices[v].channel \notin cs, Told(v, g)
      PROVE  \/ Told(v, g)'
             \/ g = "pitch" /\ BendMoved(rt.channels[rt.voices[v].channel],
                                         rt'.channels[rt.voices[v].channel])
  <2> DEFINE c == rt.voices[v].channel
  <2>1. c \in Channels /\ rt'.voices[v].channel = c
    BY <1>2
  <2>2. periodic' = periodic
    BY <1>4, <2>1
  <2>3. rt'.voices[v].periodic = rt.voices[v].periodic /\ rt'.voices[v].last = rt.voices[v].last
    BY <1>2
  <2>4. CASE SameValues(rt.channels[c], rt'.channels[c])
    BY <1>4, <2>1, <2>2, <2>3, <2>4 DEF SameValues, Told, UpToMarks, Target, Value
  <2>5. CASE BendMoved(rt.channels[c], rt'.channels[c]) /\ g # "pitch"
    BY <1>4, <2>1, <2>2, <2>3, <2>5 DEF BendMoved, Told, UpToMarks, Target, Value
  <2> QED
    BY <1>3, <1>4, <2>1, <2>4, <2>5
<1>5. CASE ~job.active
  <2>1. \A v \in Voices : rt'.voices[v].stage # "FREE" => drift'[v] = 0
    BY <1>1, <1>2, <1>5 DEF NoJobAt
  <2>2. ASSUME NEW v \in Voices, NEW g \in Groups,
               Open(rt'.voices[v]), rt'.voices[v].channel \notin aba'
        PROVE  Told(v, g)' \/ g \in rt'.channels[rt'.voices[v].channel].dirty
    <3>1. rt'.voices[v].channel = rt.voices[v].channel /\ Open(rt.voices[v])
          /\ rt.voices[v].channel \in Channels
      BY <1>2, <2>2
    <3>2. CASE rt.voices[v].channel \in cs
      BY <1>3, <3>1, <3>2
    <3>3. CASE rt.voices[v].channel \notin cs
      <4>1. Told(v, g) \/ g \in rt.channels[rt.voices[v].channel].dirty
        BY <1>5, <2>2, <3>1, <3>3 DEF NoJobAt
      <4> QED
        BY <1>3, <1>4, <3>1, <3>3, <4>1 DEF SameValues, BendMoved
    <3> QED
      BY <3>2, <3>3
  <2> QED
    BY <1>1, <1>5, <2>1, <2>2 DEF NoJobAt
<1>6. CASE job.active
  <2> USE <1>6
  <2>1. JobAt(job) /\ resets' = resets \union cleared
    OBVIOUS
  <2>2. job \in JobRecord /\ \A c \in Channels : job.revisions[c] \in Nat
    BY <2>1 DEF JobAt, JobRecord
  <2>3. SnapshotOK(job)'
    <3>1. DOMAIN job.snapshot \subseteq Voices
      BY <2>1 DEF JobAt, SnapshotOK
    <3> QED
      BY <1>1, <1>2, <2>1, <3>1 DEF JobAt, SnapshotOK
  <2>4. \A v \in Voices : KnownTo(job, v)' <=> KnownTo(job, v)
    BY <1>1, <1>2 DEF KnownTo
  <2>5. DriftOK(job)'
    BY <1>1, <1>2, <2>1, <2>4 DEF JobAt, DriftOK
  <2>6. RevisionsOK(job)'
    <3> SUFFICES ASSUME NEW c \in Channels
                 PROVE  c \in resets' \/ rt'.channels[c].revision >= job.revisions[c]
      BY <1>1 DEF RevisionsOK
    <3>1. \/ c \in cleared \/ rt'.channels[c].revision = rt.channels[c].revision
          \/ rt'.channels[c].revision = rt.channels[c].revision + 1
      BY <1>3 DEF SameValues, BendMoved
    <3>2. c \in resets \/ rt.channels[c].revision >= job.revisions[c]
      BY <2>1 DEF JobAt, RevisionsOK
    <3>3. rt.channels[c].revision \in Nat /\ job.revisions[c] \in Nat
      BY <1>3, <2>2
    <3> QED
      BY <2>1, <3>1, <3>2, <3>3
  <2>7. ValuesOK(job)'
    <3> SUFFICES ASSUME NEW v \in Voices, NEW g \in Groups,
                        Open(rt'.voices[v]), rt'.voices[v].channel \notin aba'
                 PROVE  \/ Told(v, g)'
                        \/ /\ g \in rt'.channels[rt'.voices[v].channel].dirty
                           /\ \/ rt'.voices[v].channel \in resets'
                              \/ rt'.channels[rt'.voices[v].channel].revision
                                   # job.revisions[rt'.voices[v].channel]
                              \/ KnownTo(job, v)' /\ job.cursor <= v
      BY <1>1 DEF ValuesOK, StillDue
    <3> DEFINE c == rt.voices[v].channel
    <3>1. c \in Channels /\ rt'.voices[v].channel = c /\ Open(rt.voices[v])
      BY <1>2
    <3>2. CASE c \in cs
      <4>1. c \in resets' \/ rt'.channels[c].revision # job.revisions[c]
        BY <1>3, <2>1, <2>2, <3>1, <3>2 DEF JobAt, RevisionsOK
      <4> QED
        BY <1>3, <3>1, <3>2, <4>1
    <3>3. CASE c \notin cs
      <4>1. Told(v, g) \/ StillDue(job, v, g)
        BY <2>1, <3>1, <3>3 DEF JobAt, ValuesOK
      <4>2. c \in resets \/ rt.channels[c].revision >= job.revisions[c]
        BY <2>1, <3>1 DEF JobAt, RevisionsOK
      <4>3. CASE BendMoved(rt.channels[c], rt'.channels[c])
        <5>1. c \in resets' \/ rt'.channels[c].revision # job.revisions[c]
          BY <1>3, <2>1, <2>2, <3>1, <4>2, <4>3 DEF BendMoved
        <5> QED
          BY <1>4, <3>1, <3>3, <4>1, <4>3, <5>1 DEF BendMoved, StillDue
      <4>4. CASE SameValues(rt.channels[c], rt'.channels[c]) /\ ~BendMoved(rt.channels[c], rt'.channels[c])
        BY <1>4, <2>1, <2>4, <3>1, <3>3, <4>1, <4>4 DEF SameValues, StillDue
      <4> QED
        BY <1>3, <3>1, <3>3, <4>3, <4>4
    <3> QED
      BY <3>2, <3>3
  <2> QED
    BY <1>1, <2>2, <2>3, <2>5, <2>6, <2>7 DEF JobAt
<1> QED
  BY <1>5, <1>6

(* As many notes are pressed as keys are down after the handler. *)
KeysCover(q) ==
  \A c \in Channels, n \in Notes : Cardinality(Pressed(q.voices, c, n)) <= keys'[c][n]

(* Messages keep the invariant. *)
LEMMA HandlerKeeps ==
  ASSUME RuntimeInv, ~fault, NEW q, NEW cs, NEW cleared, MessageResult(q, cs, cleared),
         Handled(q), cleared \subseteq cs, cs \subseteq Channels,
         periodic' \in BOOLEAN, periodic' = periodic \/ cs = Channels, aba' = aba \ cs,
         resets' = IF job.active THEN resets \union cleared ELSE resets,
         keys' \in [Channels -> [Notes -> Nat]], q.ok => KeysCover(q),
         UNCHANGED <<job, drift, young>>
  PROVE  RuntimeInv'
<1>1. /\ RuntimeTypeOK /\ ListsOK(Begin(0)) /\ KeysOK(rt.voices)
      /\ IF job.active THEN JobAt(job) ELSE NoJobAt
  BY DEF RuntimeInv
<1>2. /\ q \in HandlerRecord /\ SameLists(rt, q) /\ Fades(rt.voices, q.voices)
  BY DEF MessageResult
<1>3. RuntimeTypeOK'
  BY <1>1, <1>2, HandledFields DEF RuntimeTypeOK
<1>4. ListsOK(Begin(0))'
  <2>1. Begin(0) \in HandlerRecord /\ SameLists(Begin(0), q) /\ Fades(Begin(0).voices, q.voices)
    BY <1>1, <1>2, BeginFields DEF SameLists
  <2> QED
    BY <1>1, <1>2, <2>1, FadesLists, HandledKeeps
<1>5. CASE ~q.ok
  BY <1>2, <1>3, <1>4, <1>5, HandledFields DEF RuntimeInv
<1>6. CASE q.ok
  <2>1. SoundOK(Begin(0))' /\ NotesOK(Begin(0))'
    BY <1>2, <1>6, HandledKeeps DEF MessageResult
  <2>2. KeysOK(rt.voices)'
    <3>1. rt'.voices = q.voices /\ KeysCover(q)
      BY <1>2, <1>6, HandledFields
    <3>2. \A c, n : Pressed(rt.voices, c, n)' = Pressed(q.voices, c, n)
      BY <3>1 DEF Pressed, KeyDown, Open
    <3> QED
      BY <3>1, <3>2 DEF KeysOK, KeysCover
  <2>3. (IF job.active THEN JobAt(job) ELSE NoJobAt)'
    BY <1>1, <1>6, MessageKeepsJob
  <2> QED
    BY <1>3, <1>4, <2>1, <2>2, <2>3 DEF RuntimeInv
<1> QED
  BY <1>5, <1>6

(* Messages that move no key. *)
LEMMA MessageKeeps ==
  ASSUME RuntimeInv, ~fault, NEW q, NEW cs, NEW cleared, MessageResult(q, cs, cleared),
         Handled(q), cleared \subseteq cs, cs \subseteq Channels,
         periodic' \in BOOLEAN, periodic' = periodic \/ cs = Channels, aba' = aba \ cs,
         resets' = IF job.active THEN resets \union cleared ELSE resets,
         UNCHANGED <<job, keys, drift, young>>
  PROVE  RuntimeInv'
<1>1. RuntimeTypeOK /\ KeysOK(rt.voices) /\ Fades(rt.voices, q.voices)
  BY DEF RuntimeInv, MessageResult
<1>2. KeysOK(q.voices)
  BY <1>1, FadesKeys
<1>3. KeysCover(q) /\ keys' \in [Channels -> [Notes -> Nat]]
  BY <1>1, <1>2 DEF KeysOK, KeysCover, RuntimeTypeOK
<1> QED
  BY <1>3, HandlerKeeps
-----------------------------------------------------------------------------
(* The messages, one by one. *)

(* A marked channel. *)
LEMMA MarkDirtyFields ==
  ASSUME NEW a \in ChannelRecord, NEW groups \in SUBSET Groups, NEW b, b = MarkDirty(a, groups)
  PROVE  /\ b \in ChannelRecord /\ b.dirty = a.dirty \union groups
         /\ b.revision = a.revision + 1 /\ b.cc = a.cc /\ b.bend = a.bend
         /\ b.sustain = a.sustain /\ b.sostenuto = a.sostenuto
         /\ groups = Groups => b.dirty = Groups
<1> DEFINE d == a.dirty \union groups
           n == a.revision + 1
           p == [a EXCEPT !.dirty = d]
<1>1. d \in SUBSET Groups /\ n \in Nat /\ (groups = Groups => d = Groups)
  BY DEF ChannelRecord
<1>2. b = [a EXCEPT !.dirty = d, !.revision = n]
  BY DEF MarkDirty
<1>3. d = a.dirty \union groups /\ n = a.revision + 1
  OBVIOUS
<1> HIDE DEF d, n
<1>4. /\ b \in ChannelRecord /\ b.dirty = d /\ b.revision = n /\ b.cc = a.cc /\ b.bend = a.bend
      /\ b.sustain = a.sustain /\ b.sostenuto = a.sostenuto
  BY <1>1, <1>2 DEF ChannelRecord
<1> QED
  BY <1>1, <1>3, <1>4

(* A channel that starts over. *)
LEMMA ResetChannelType == ResetChannel \in ChannelRecord /\ ~ResetChannel.sustain /\ ~ResetChannel.sostenuto
  BY DEF ResetChannel, ChannelRecord

(* Marking one channel leaves the others. *)
LEMMA DirtyResult ==
  ASSUME NEW r \in HandlerRecord, NEW c \in Channels, NEW groups \in SUBSET Groups,
         NEW q, q = Dirty(r, c, groups)
  PROVE  /\ q \in HandlerRecord /\ SameLists(r, q) /\ SameSound(r, q) /\ q.voices = r.voices
         /\ q.ok = r.ok /\ q.channels[c] = MarkDirty(r.channels[c], groups)
         /\ \A d \in Channels \ {c} : q.channels[d] = r.channels[d]
<1> DEFINE x == MarkDirty(r.channels[c], groups)
           y == [r.channels EXCEPT ![c] = x]
<1>1. r.channels \in [Channels -> ChannelRecord]
  BY DEF HandlerRecord
<1>2. x \in ChannelRecord
  BY <1>1, MarkDirtyFields
<1>3. q = [r EXCEPT !.channels = y]
  BY <1>1 DEF Dirty
<1> HIDE DEF x
<1>4. /\ y \in [Channels -> ChannelRecord] /\ y[c] = x
      /\ \A d \in Channels \ {c} : y[d] = r.channels[d]
  BY <1>1, <1>2
<1> HIDE DEF y
<1>5. /\ q \in HandlerRecord /\ q.channels = y
      /\ q.voices = r.voices /\ q.active = r.active /\ q.free = r.free
      /\ q.instance = r.instance /\ q.stamp = r.stamp /\ q.fpga = r.fpga /\ q.log = r.log
      /\ q.ok = r.ok
  BY <1>3, <1>4 DEF HandlerRecord
<1> QED
  BY <1>4, <1>5 DEF SameLists, SameSound, x

(* NotesOK but for voices of channel c whose pedals just went up. *)
NotesBut(r, c) ==
  \A v \in Voices :
    \/ NoteOK(r.voices[v], r.channels[r.voices[v].channel])
    \/ /\ r.voices[v].channel = c
       /\ r.voices[v].sostenuto_held => r.channels[c].sostenuto
       /\ r.voices[v].stage = "SUSTAIN_HELD" <=> r.voices[v].key_released

(* Releasing the deferred voices makes up for it. *)
LEMMA DeferredResult ==
  ASSUME NEW r \in HandlerRecord, ListsOK(r), NEW c \in Channels, NotesBut(r, c),
         NEW q, q = ReleaseDeferred(r, c)
  PROVE  /\ q \in HandlerRecord /\ SameLists(r, q) /\ SameSound(r, q)
         /\ q.channels = r.channels /\ Fades(r.voices, q.voices)
         /\ q.ok => NotesOK(q)
<1> DEFINE vs == Deferred(r, c)
<1>1. /\ vs \subseteq Voices /\ q = ReleaseVoices(r, vs)
      /\ \A v \in vs : r.voices[v].stage # "FREE"
  BY ActiveIsNotFree DEF Deferred, ReleaseDeferred
<1>2. ASSUME NEW v \in Voices, r.voices[v].channel = c, r.voices[v].key_released,
             r.voices[v].stage = "SUSTAIN_HELD", v \notin vs
      PROVE  r.channels[c].sustain \/ r.voices[v].sostenuto_held
  <2>1. v \in ActiveVoices(r)
    BY <1>2, ActiveIsNotFree
  <2> QED
    BY <1>2, <2>1 DEF Deferred
<1> HIDE DEF vs
<1>3. /\ q \in HandlerRecord /\ SameLists(r, q) /\ SameSound(r, q)
      /\ q.channels = r.channels /\ Fades(r.voices, q.voices)
      /\ \A v \in Voices \ vs : q.voices[v] = r.voices[v]
      /\ q.ok => \A v \in vs : q.voices[v].stage = "RELEASED"
  BY <1>1, ReleaseResult
<1>4. ASSUME q.ok, NEW v \in Voices
      PROVE  NoteOK(q.voices[v], q.channels[q.voices[v].channel])
  <2>1. CASE v \in vs
    BY <1>3, <1>4, <2>1 DEF NoteOK, Open
  <2>2. CASE v \notin vs
    BY <1>2, <1>3, <2>2 DEF NotesBut, NoteOK
  <2> QED
    BY <2>1, <2>2
<1> QED
  BY <1>3, <1>4 DEF NotesOK

(* A handler's record on its way: voices faded at most, lists and sound    *)
(* are those of the state.                                                 *)
Underway(r) ==
  r \in HandlerRecord /\ SameLists(rt, r) /\ SoundOK(r) /\ Fades(rt.voices, r.voices)

(* A handler begins underway. *)
LEMMA UnderwayBegin ==
  ASSUME RuntimeInv, ~fault, NEW limit \in Int
  PROVE  /\ Underway(Begin(limit)) /\ ListsOK(Begin(limit)) /\ NotesOK(Begin(limit))
         /\ Begin(limit).ok /\ Begin(limit).channels = rt.channels
         /\ Begin(limit).voices = rt.voices
  BY BeginFields, BeginKeeps, FadesSelf DEF RuntimeInv, Underway, SameLists

(* Underway the lists are right. *)
LEMMA UnderwayLists ==
  ASSUME RuntimeInv, NEW r, Underway(r)
  PROVE  ListsOK(r)
<1>1. Begin(0) \in HandlerRecord /\ SameLists(Begin(0), r) /\ Fades(Begin(0).voices, r.voices)
      /\ ListsOK(Begin(0))
  BY BeginFields DEF Underway, SameLists, RuntimeInv
<1> QED
  BY <1>1, FadesLists DEF Underway

(* Another loop that only ends voices. *)
LEMMA UnderwayStep ==
  ASSUME NEW r, Underway(r), NEW q \in HandlerRecord, SameLists(r, q), SameSound(r, q),
         Fades(r.voices, q.voices)
  PROVE  Underway(q)
  BY FadesTrans, FadesSound DEF Underway, SameLists

(* A pedal has moved: s has its new position. *)
LEMMA PedalResult ==
  ASSUME RuntimeInv, NEW s, Underway(s), s.ok, NEW c \in Channels, NEW down \in BOOLEAN,
         \A d \in Channels : SameValues(rt.channels[d], s.channels[d]),
         down => NotesOK(s), ~down => NotesBut(s, c),
         NEW q, q = PedalMoved(s, c, down)
  PROVE  MessageResult(q, {c}, {})
<1> DEFINE t == IF down THEN s ELSE ReleaseDeferred(s, c)
<1>1. q = IF t.ok THEN Dirty(t, c, Groups) ELSE t
  BY DEF PedalMoved
<1>2. Underway(t) /\ t.channels = s.channels /\ (t.ok => NotesOK(t))
  <2>1. CASE down
    BY <2>1
  <2>2. CASE ~down
    <3>1. s \in HandlerRecord /\ ListsOK(s) /\ t = ReleaseDeferred(s, c)
      BY <2>2, UnderwayLists DEF Underway
    <3> HIDE DEF t
    <3>2. /\ t \in HandlerRecord /\ SameLists(s, t) /\ SameSound(s, t)
          /\ t.channels = s.channels /\ Fades(s.voices, t.voices)
          /\ t.ok => NotesOK(t)
      BY <2>2, <3>1, DeferredResult
    <3> QED
      BY <3>2, UnderwayStep
  <2> QED
    BY <2>1, <2>2
<1> HIDE DEF t
<1>3. CASE ~t.ok
  BY <1>1, <1>2, <1>3 DEF Underway, MessageResult
<1>4. CASE t.ok
  <2>1. t \in HandlerRecord /\ q = Dirty(t, c, Groups)
    BY <1>1, <1>2, <1>4 DEF Underway
  <2>2. /\ q \in HandlerRecord /\ SameLists(t, q) /\ SameSound(t, q) /\ q.voices = t.voices
        /\ q.ok = t.ok /\ q.channels[c] = MarkDirty(t.channels[c], Groups)
        /\ \A d \in Channels \ {c} : q.channels[d] = t.channels[d]
    BY <2>1, DirtyResult
  <2>3. Underway(q)
    BY <1>2, <2>2, UnderwayStep, FadesSelf
  <2>4. t.channels[c] \in ChannelRecord
    BY <2>1 DEF HandlerRecord
  <2>5. /\ q.channels[c].dirty = Groups /\ q.channels[c].revision = t.channels[c].revision + 1
        /\ q.channels[c].sustain = t.channels[c].sustain
        /\ q.channels[c].sostenuto = t.channels[c].sostenuto
    BY <2>2, <2>4, MarkDirtyFields
  <2>6. ChannelsMoved(q, {c}, {})
    BY <1>2, <2>2, <2>5 DEF ChannelsMoved, SameValues
  <2>7. NotesOK(q)
    <3>1. \A v \in Voices : t.voices[v].channel \in Channels
      BY <2>1 DEF HandlerRecord, VoiceRecord
    <3>2. \A d \in Channels : /\ q.channels[d].sustain = t.channels[d].sustain
                              /\ q.channels[d].sostenuto = t.channels[d].sostenuto
      BY <2>2, <2>5
    <3>3. NotesOK(t)
      BY <1>2, <1>4
    <3> QED
      BY <2>2, <3>1, <3>2, <3>3 DEF NotesOK, NoteOK
  <2> QED
    BY <2>3, <2>6, <2>7 DEF MessageResult, Underway
<1> QED
  BY <1>3, <1>4

(* CC 64. *)
LEMMA SustainResult ==
  ASSUME RuntimeInv, ~fault, NEW limit \in Int, NEW c \in Channels, NEW down \in BOOLEAN
  PROVE  MessageResult(Sustain(Begin(limit), c, down), {c}, {})
<1> DEFINE r == Begin(limit)
           x == [r.channels[c] EXCEPT !.sustain = down]
           y == [r.channels EXCEPT ![c] = x]
           s == [r EXCEPT !.channels = y]
<1>1. /\ Underway(r) /\ NotesOK(r) /\ r.ok /\ r.channels = rt.channels /\ r \in HandlerRecord
  BY UnderwayBegin DEF Underway
<1> HIDE DEF r
<1>2. r.channels \in [Channels -> ChannelRecord] /\ \A v \in Voices : r.voices[v].channel \in Channels
  BY <1>1 DEF HandlerRecord, VoiceRecord
<1>3. Sustain(r, c, down) = PedalMoved(s, c, down)
  BY <1>1, <1>2 DEF Sustain, HandlerRecord
<1>4. /\ x \in ChannelRecord /\ x.sustain = down /\ x.sostenuto = r.channels[c].sostenuto
      /\ SameValues(r.channels[c], x)
  BY <1>2 DEF ChannelRecord, SameValues
<1> HIDE DEF x
<1>5. /\ y \in [Channels -> ChannelRecord] /\ y[c] = x
      /\ \A d \in Channels \ {c} : y[d] = r.channels[d]
  BY <1>2, <1>4
<1> HIDE DEF y
<1>6. /\ s \in HandlerRecord /\ s.channels = y
      /\ s.voices = r.voices /\ s.active = r.active /\ s.free = r.free
      /\ s.instance = r.instance /\ s.stamp = r.stamp /\ s.fpga = r.fpga /\ s.log = r.log
      /\ s.ok = r.ok
  BY <1>1, <1>5 DEF HandlerRecord
<1> HIDE DEF s
<1>7. Underway(s)
  BY <1>1, <1>6, UnderwayStep, FadesSelf DEF SameLists, SameSound
<1>8. \A d \in Channels : SameValues(rt.channels[d], s.channels[d])
  BY <1>1, <1>4, <1>5, <1>6 DEF SameValues
<1>9. ASSUME down PROVE NotesOK(s)
  <2> SUFFICES ASSUME NEW v \in Voices
               PROVE  NoteOK(s.voices[v], s.channels[s.voices[v].channel])
    BY DEF NotesOK
  <2>1. NoteOK(r.voices[v], r.channels[r.voices[v].channel]) /\ s.voices[v] = r.voices[v]
        /\ r.voices[v].channel \in Channels
    BY <1>1, <1>2, <1>6 DEF NotesOK
  <2>2. CASE r.voices[v].channel # c
    BY <1>5, <1>6, <2>1, <2>2
  <2>3. CASE r.voices[v].channel = c
    BY <1>4, <1>5, <1>6, <1>9, <2>1, <2>3 DEF NoteOK
  <2> QED
    BY <2>2, <2>3
<1>10. ~down => NotesBut(s, c)
  <2> SUFFICES ASSUME NEW v \in Voices
               PROVE  \/ NoteOK(s.voices[v], s.channels[s.voices[v].channel])
                      \/ /\ s.voices[v].channel = c
                         /\ s.voices[v].sostenuto_held => s.channels[c].sostenuto
                         /\ s.voices[v].stage = "SUSTAIN_HELD" <=> s.voices[v].key_released
    BY DEF NotesBut
  <2>1. CASE ~Open(s.voices[v])
    BY <2>1 DEF NoteOK
  <2>2. CASE s.voices[v].channel # c
    BY <1>1, <1>2, <1>5, <1>6, <2>2 DEF NotesOK
  <2>3. CASE Open(s.voices[v]) /\ s.voices[v].channel = c
    BY <1>1, <1>4, <1>5, <1>6, <2>3 DEF NotesOK, NoteOK
  <2> QED
    BY <2>1, <2>2, <2>3
<1>11. MessageResult(PedalMoved(s, c, down), {c}, {})
  BY <1>1, <1>6, <1>7, <1>8, <1>9, <1>10, PedalResult
<1> QED
  BY <1>3, <1>11 DEF r

(* A channel's value is set and marked. *)
LEMMA ValueSet ==
  ASSUME RuntimeInv, ~fault, NEW limit \in Int, NEW c \in Channels, NEW x \in ChannelRecord,
         x.sustain = rt.channels[c].sustain, x.sostenuto = rt.channels[c].sostenuto,
         NEW groups \in SUBSET Groups, NEW y, y = [Begin(limit).channels EXCEPT ![c] = x],
         NEW q, q = Dirty([Begin(limit) EXCEPT !.channels = y], c, groups)
  PROVE  /\ Underway(q) /\ NotesOK(q) /\ q.channels[c] = MarkDirty(x, groups)
         /\ \A d \in Channels \ {c} : q.channels[d] = rt.channels[d]
<1> DEFINE r == Begin(limit)
           s == [r EXCEPT !.channels = y]
<1>1. /\ Underway(r) /\ NotesOK(r) /\ r.ok /\ r.channels = rt.channels /\ r \in HandlerRecord
  BY UnderwayBegin DEF Underway
<1>2. q = Dirty(s, c, groups) /\ y = [r.channels EXCEPT ![c] = x]
  OBVIOUS
<1> HIDE DEF r
<1>3. r.channels \in [Channels -> ChannelRecord] /\ \A v \in Voices : r.voices[v].channel \in Channels
  BY <1>1 DEF HandlerRecord, VoiceRecord
<1>4. /\ y \in [Channels -> ChannelRecord] /\ y[c] = x
      /\ \A d \in Channels \ {c} : y[d] = r.channels[d]
  BY <1>2, <1>3
<1>5. /\ s \in HandlerRecord /\ s.channels = y
      /\ s.voices = r.voices /\ s.active = r.active /\ s.free = r.free
      /\ s.instance = r.instance /\ s.stamp = r.stamp /\ s.fpga = r.fpga /\ s.log = r.log
      /\ s.ok = r.ok
  BY <1>1, <1>4 DEF HandlerRecord
<1> HIDE DEF s
<1>6. /\ q \in HandlerRecord /\ SameLists(s, q) /\ SameSound(s, q) /\ q.voices = s.voices
      /\ q.ok = s.ok /\ q.channels[c] = MarkDirty(s.channels[c], groups)
      /\ \A d \in Channels \ {c} : q.channels[d] = s.channels[d]
  <2>1. \A p : p = Dirty(s, c, groups) =>
          /\ p \in HandlerRecord /\ SameLists(s, p) /\ SameSound(s, p) /\ p.voices = s.voices
          /\ p.ok = s.ok /\ p.channels[c] = MarkDirty(s.channels[c], groups)
          /\ \A d \in Channels \ {c} : p.channels[d] = s.channels[d]
    BY <1>5, DirtyResult
  <2> QED
    BY <1>2, <2>1
<1>7. q.channels[c].sustain = x.sustain /\ q.channels[c].sostenuto = x.sostenuto
  BY <1>4, <1>5, <1>6, MarkDirtyFields
<1>8. Underway(q)
  BY <1>1, <1>5, <1>6, UnderwayStep, FadesSelf DEF SameLists, SameSound
<1>9. NotesOK(q)
  <2>1. \A d \in Channels : /\ q.channels[d].sustain = r.channels[d].sustain
                            /\ q.channels[d].sostenuto = r.channels[d].sostenuto
    BY <1>1, <1>4, <1>5, <1>6, <1>7
  <2> QED
    BY <1>1, <1>3, <1>5, <1>6, <2>1 DEF NotesOK, NoteOK
<1> QED
  BY <1>1, <1>4, <1>5, <1>6, <1>8, <1>9

(* Any other controller marks everything. *)
LEMMA ControllerResult ==
  ASSUME RuntimeInv, ~fault, NEW limit \in Int, NEW c \in Channels, NEW value \in Nat
  PROVE  MessageResult(Dirty([Begin(limit) EXCEPT !.channels[c].cc = value], c, Groups), {c}, {})
<1> DEFINE r == Begin(limit)
           x == [r.channels[c] EXCEPT !.cc = value]
           y == [r.channels EXCEPT ![c] = x]
           q == Dirty([r EXCEPT !.channels = y], c, Groups)
<1>1. /\ Underway(r) /\ r.channels = rt.channels /\ r \in HandlerRecord
  BY UnderwayBegin DEF Underway
<1>2. r.channels \in [Channels -> ChannelRecord]
  BY <1>1 DEF HandlerRecord
<1>3. /\ x \in ChannelRecord /\ x.sustain = rt.channels[c].sustain
      /\ x.sostenuto = rt.channels[c].sostenuto /\ x.revision = rt.channels[c].revision
  <2> HIDE DEF r
  <2> QED
    BY <1>1, <1>2 DEF ChannelRecord
<1>4. [r EXCEPT !.channels[c].cc = value] = [r EXCEPT !.channels = y]
  <2> HIDE DEF r
  <2> QED
    BY <1>1, <1>2 DEF HandlerRecord
<1> HIDE DEF x
<1>5. /\ Underway(q) /\ NotesOK(q) /\ q.channels[c] = MarkDirty(x, Groups)
      /\ \A d \in Channels \ {c} : q.channels[d] = rt.channels[d]
  <2>1. y = [Begin(limit).channels EXCEPT ![c] = x]
        /\ q = Dirty([Begin(limit) EXCEPT !.channels = y], c, Groups)
    OBVIOUS
  <2>2. Groups \in SUBSET Groups
    OBVIOUS
  <2> HIDE DEF y, q, r
  <2> QED
    BY <1>3, <2>1, <2>2, ValueSet
<1>6. q.channels[c].dirty = Groups /\ q.channels[c].revision = x.revision + 1
  BY <1>3, <1>5, MarkDirtyFields
<1> HIDE DEF q, y
<1>7. ChannelsMoved(q, {c}, {})
  BY <1>3, <1>5, <1>6 DEF ChannelsMoved, SameValues
<1>8. MessageResult(q, {c}, {})
  BY <1>5, <1>7 DEF MessageResult, Underway
<1> QED
  BY <1>4, <1>8 DEF q, r

(* The wheel marks the pitch. *)
LEMMA BendResult ==
  ASSUME RuntimeInv, ~fault, NEW limit \in Int, NEW c \in Channels, NEW value \in Nat
  PROVE  MessageResult(Dirty([Begin(limit) EXCEPT !.channels[c].bend = value], c, {"pitch"}), {}, {})
<1> DEFINE r == Begin(limit)
           x == [r.channels[c] EXCEPT !.bend = value]
           y == [r.channels EXCEPT ![c] = x]
           q == Dirty([r EXCEPT !.channels = y], c, {"pitch"})
<1>1. /\ Underway(r) /\ r.channels = rt.channels /\ r \in HandlerRecord
  BY UnderwayBegin DEF Underway
<1>2. r.channels \in [Channels -> ChannelRecord]
  BY <1>1 DEF HandlerRecord
<1>3. /\ x \in ChannelRecord /\ x.sustain = rt.channels[c].sustain
      /\ x.sostenuto = rt.channels[c].sostenuto /\ x.revision = rt.channels[c].revision
      /\ x.cc = rt.channels[c].cc /\ x.dirty = rt.channels[c].dirty
  <2> HIDE DEF r
  <2> QED
    BY <1>1, <1>2 DEF ChannelRecord
<1>4. [r EXCEPT !.channels[c].bend = value] = [r EXCEPT !.channels = y]
  <2> HIDE DEF r
  <2> QED
    BY <1>1, <1>2 DEF HandlerRecord
<1>5. {"pitch"} \in SUBSET Groups
  BY DEF Groups
<1> HIDE DEF x
<1>6. /\ Underway(q) /\ NotesOK(q) /\ q.channels[c] = MarkDirty(x, {"pitch"})
      /\ \A d \in Channels \ {c} : q.channels[d] = rt.channels[d]
  <2>1. y = [Begin(limit).channels EXCEPT ![c] = x]
        /\ q = Dirty([Begin(limit) EXCEPT !.channels = y], c, {"pitch"})
    OBVIOUS
  <2> HIDE DEF y, q, r
  <2> QED
    BY <1>3, <1>5, <2>1, ValueSet
<1>7. BendMoved(rt.channels[c], q.channels[c])
  BY <1>3, <1>5, <1>6, MarkDirtyFields DEF BendMoved
<1> HIDE DEF q, y
<1>8. ChannelsMoved(q, {}, {})
  BY <1>6, <1>7 DEF ChannelsMoved, SameValues
<1>9. MessageResult(q, {}, {})
  BY <1>6, <1>8 DEF MessageResult, Underway
<1> QED
  BY <1>4, <1>9 DEF q, r

(* CC 66. *)
LEMMA SostenutoResult ==
  ASSUME RuntimeInv, ~fault, NEW limit \in Int, NEW c \in Channels, NEW down \in BOOLEAN
  PROVE  MessageResult(Sostenuto(Begin(limit), c, down), {c}, {})
<1> DEFINE r == Begin(limit)
           x == [r.channels[c] EXCEPT !.sostenuto = down]
           y == [r.channels EXCEPT ![c] = x]
           held(v) == SostenutoHeld(r, c, v, down)
           z == [v \in Voices |-> [r.voices[v] EXCEPT !.sostenuto_held = held(v)]]
           s == [r EXCEPT !.channels = y, !.voices = z]
<1>1. /\ Underway(r) /\ NotesOK(r) /\ r.ok /\ r.channels = rt.channels /\ r \in HandlerRecord
      /\ ListsOK(r) /\ r.voices = rt.voices
  BY UnderwayBegin DEF Underway
<1> HIDE DEF r
<1>2. /\ r.channels \in [Channels -> ChannelRecord] /\ r.voices \in [Voices -> VoiceRecord]
      /\ \A v \in Voices : r.voices[v].channel \in Channels
  BY <1>1 DEF HandlerRecord, VoiceRecord
<1>3. Sostenuto(r, c, down) = PedalMoved(s, c, down)
  BY <1>1, <1>2 DEF Sostenuto, HandlerRecord
<1>4. /\ x \in ChannelRecord /\ x.sustain = r.channels[c].sustain /\ x.sostenuto = down
      /\ SameValues(r.channels[c], x)
  BY <1>2 DEF ChannelRecord, SameValues
<1> HIDE DEF x
<1>5. /\ y \in [Channels -> ChannelRecord] /\ y[c] = x
      /\ \A d \in Channels \ {c} : y[d] = r.channels[d]
  BY <1>2, <1>4
<1> HIDE DEF y
<1>6. ASSUME NEW v \in Voices
      PROVE  /\ held(v) \in BOOLEAN
             /\ r.voices[v].channel # c => held(v) = r.voices[v].sostenuto_held
             /\ r.voices[v].channel = c /\ Open(r.voices[v]) /\ ~down => ~held(v)
             /\ down /\ r.voices[v].sostenuto_held => held(v)
  <2>1. /\ r.voices[v].sostenuto_held \in BOOLEAN /\ r.channels[c].sostenuto \in BOOLEAN
    BY <1>2 DEF VoiceRecord, ChannelRecord
  <2>2. Open(r.voices[v]) => v \in ActiveVoices(r)
    BY <1>1, ActiveIsNotFree DEF Open
  <2>3. r.voices[v].channel = c /\ Open(r.voices[v]) /\ r.voices[v].sostenuto_held
          => r.channels[c].sostenuto
    BY <1>1 DEF NotesOK, NoteOK
  <2>4. KeyDown(r.voices[v]) \in BOOLEAN
    BY DEF KeyDown
  <2> QED
    BY <2>1, <2>2, <2>3, <2>4 DEF SostenutoHeld
<1> HIDE DEF held
<1>7. ASSUME NEW v \in Voices
      PROVE  /\ z[v] \in VoiceRecord /\ SameVoice(r.voices[v], z[v])
             /\ z[v].stage = r.voices[v].stage /\ z[v].position = r.voices[v].position
             /\ z[v].key_released = r.voices[v].key_released
             /\ z[v].sostenuto_held = held(v) /\ z[v].last = r.voices[v].last
  <2> DEFINE a == r.voices[v]
             b == [a EXCEPT !.sostenuto_held = held(v)]
  <2>1. z[v] = b /\ a \in VoiceRecord /\ held(v) \in BOOLEAN
    BY <1>2, <1>6
  <2> HIDE DEF a
  <2>2. /\ b \in VoiceRecord /\ SameVoice(a, b)
        /\ b.stage = a.stage /\ b.position = a.position
        /\ b.key_released = a.key_released
        /\ b.sostenuto_held = held(v) /\ b.last = a.last
    BY <2>1 DEF VoiceRecord, SameVoice
  <2> HIDE DEF b
  <2> QED
    BY <2>1, <2>2 DEF a
<1>8. z \in [Voices -> VoiceRecord]
  BY <1>7
<1> HIDE DEF z
<1>9. Fades(r.voices, z)
  BY <1>7 DEF Fades, Open
<1>10. /\ s \in HandlerRecord /\ s.channels = y /\ s.voices = z /\ s.active = r.active
       /\ s.free = r.free /\ s.instance = r.instance /\ s.stamp = r.stamp
       /\ s.fpga = r.fpga /\ s.log = r.log /\ s.ok = r.ok
  BY <1>1, <1>5, <1>8 DEF HandlerRecord
<1> HIDE DEF s
<1>11. Underway(s)
  BY <1>1, <1>9, <1>10, UnderwayStep DEF SameLists, SameSound
<1>12. \A d \in Channels : SameValues(rt.channels[d], s.channels[d])
  BY <1>1, <1>4, <1>5, <1>10 DEF SameValues
<1>13. ASSUME NEW v \in Voices, Open(s.voices[v])
       PROVE  /\ Open(r.voices[v]) /\ s.voices[v].channel = r.voices[v].channel
              /\ s.voices[v].stage = r.voices[v].stage
              /\ s.voices[v].key_released = r.voices[v].key_released
              /\ s.voices[v].sostenuto_held = held(v)
              /\ NoteOK(r.voices[v], r.channels[r.voices[v].channel])
  BY <1>1, <1>7, <1>10, <1>13 DEF SameVoice, Open, NotesOK
<1>14. ASSUME NEW v \in Voices, r.voices[v].channel # c
       PROVE  NoteOK(s.voices[v], s.channels[s.voices[v].channel])
  <2>1. CASE ~Open(s.voices[v])
    BY <2>1 DEF NoteOK
  <2>2. CASE Open(s.voices[v])
    BY <1>2, <1>5, <1>6, <1>10, <1>13, <1>14, <2>2 DEF NoteOK
  <2> QED
    BY <2>1, <2>2
<1>15. ASSUME down, NEW v \in Voices, r.voices[v].channel = c
       PROVE  NoteOK(s.voices[v], s.channels[s.voices[v].channel])
  <2>1. CASE ~Open(s.voices[v])
    BY <2>1 DEF NoteOK
  <2>2. CASE Open(s.voices[v])
    <3>1. s.channels[c].sostenuto /\ s.channels[c].sustain = r.channels[c].sustain
      BY <1>4, <1>5, <1>10, <1>15
    <3>2. r.voices[v].sostenuto_held => s.voices[v].sostenuto_held
      BY <1>6, <1>13, <1>15, <2>2
    <3> QED
      BY <1>13, <1>15, <2>2, <3>1, <3>2 DEF NoteOK
  <2> QED
    BY <2>1, <2>2
<1>16. ASSUME ~down, NEW v \in Voices, r.voices[v].channel = c, Open(s.voices[v])
       PROVE  /\ s.voices[v].channel = c
              /\ ~s.voices[v].sostenuto_held
              /\ s.voices[v].stage = "SUSTAIN_HELD" <=> s.voices[v].key_released
  BY <1>6, <1>13, <1>16 DEF NoteOK
<1>17. down => NotesOK(s)
  BY <1>14, <1>15 DEF NotesOK
<1>18. ~down => NotesBut(s, c)
  BY <1>14, <1>16 DEF NotesBut, NoteOK
<1>19. MessageResult(PedalMoved(s, c, down), {c}, {})
  BY <1>1, <1>10, <1>11, <1>12, <1>17, <1>18, PedalResult
<1> QED
  BY <1>3, <1>19 DEF r

(* All Sound Off. *)
LEMMA SoundOffResult ==
  ASSUME RuntimeInv, NEW r, Underway(r), NotesOK(r), NEW c \in Channels,
         NEW q, q = AllSoundOff(r, c)
  PROVE  /\ q \in HandlerRecord /\ SameLists(r, q) /\ Fades(r.voices, q.voices)
         /\ q.channels = r.channels /\ SoundOK(q) /\ (q.ok => NotesOK(q)) /\ Underway(q)
<1> DEFINE vs == {v \in ActiveVoices(r) : r.voices[v].channel = c}
<1>1. r \in HandlerRecord /\ SoundOK(r) /\ ListsOK(r)
  BY UnderwayLists DEF Underway
<1>2. /\ vs \subseteq Voices /\ \A v \in vs : r.voices[v].stage # "FREE"
      /\ q = StopVoices(r, vs)
  BY <1>1, ActiveIsNotFree DEF AllSoundOff
<1> HIDE DEF vs
<1>3. /\ q \in HandlerRecord /\ SameLists(r, q) /\ q.channels = r.channels
      /\ Fades(r.voices, q.voices)
      /\ \A v \in Voices \ vs : q.voices[v] = r.voices[v]
      /\ q.ok => \A v \in vs : q.voices[v].stage = "RELEASED"
      /\ SoundOK(r) => SoundOK(q)
  BY <1>1, <1>2, StopResult
<1>4. ASSUME q.ok, NEW v \in Voices
      PROVE  NoteOK(q.voices[v], q.channels[q.voices[v].channel])
  <2>1. CASE v \in vs
    BY <1>3, <1>4, <2>1 DEF NoteOK, Open
  <2>2. CASE v \notin vs
    BY <1>3, <2>2 DEF NotesOK
  <2> QED
    BY <2>1, <2>2
<1>5. Underway(q)
  BY <1>1, <1>3, FadesTrans DEF Underway, SameLists
<1> QED
  BY <1>1, <1>3, <1>4, <1>5 DEF NotesOK

(* Keys that go up, the pedals keeping what they keep. *)
LEMMA KeysUpKeeps ==
  ASSUME NEW r, Underway(r), NotesOK(r), NEW vs, vs \subseteq Voices,
         \A v \in vs : Open(r.voices[v]), NEW kept, kept = Kept(r, vs) \/ kept = {},
         NEW q, q = KeysUp(r, vs, kept)
  PROVE  /\ Underway(q) /\ q.channels = r.channels /\ Fades(r.voices, q.voices)
         /\ \A v \in Voices \ vs : q.voices[v] = r.voices[v]
         /\ q.ok => NotesOK(q) /\ \A v \in vs : ~KeyDown(q.voices[v])
<1>0. kept \subseteq vs
  BY DEF Kept
<1>1. kept \subseteq vs
      /\ \A v \in kept : r.channels[r.voices[v].channel].sustain \/ r.voices[v].sostenuto_held
  BY DEF Kept
<1>2. r \in HandlerRecord
  BY DEF Underway
<1>3. /\ q \in HandlerRecord /\ SameLists(r, q) /\ SameSound(r, q)
      /\ q.channels = r.channels /\ Fades(r.voices, q.voices)
      /\ \A v \in Voices \ vs : q.voices[v] = r.voices[v]
      /\ q.ok => /\ \A v \in kept : /\ q.voices[v].stage = "SUSTAIN_HELD" /\ q.voices[v].key_released
                                    /\ q.voices[v].sostenuto_held = r.voices[v].sostenuto_held
                 /\ \A v \in vs \ kept : q.voices[v].stage = "RELEASED"
  <2>1. WentUp(r, vs, kept, q)
    BY <1>0, <1>2, KeysUpResult
  <2> QED
    BY <2>1 DEF WentUp
<1>4. Underway(q)
  BY <1>3, UnderwayStep
<1>5. ASSUME q.ok, NEW v \in Voices
      PROVE  NoteOK(q.voices[v], q.channels[q.voices[v].channel]) /\ (v \in vs => ~KeyDown(q.voices[v]))
  <2>1. CASE v \in vs \ kept
    BY <1>3, <1>5, <2>1 DEF NoteOK, Open, KeyDown
  <2>2. CASE v \in kept
    <3>1. /\ q.voices[v].stage = "SUSTAIN_HELD" /\ q.voices[v].key_released
          /\ q.voices[v].sostenuto_held = r.voices[v].sostenuto_held
          /\ q.voices[v].channel = r.voices[v].channel
      BY <1>3, <1>5, <2>2 DEF Fades, SameVoice
    <3>2. NoteOK(r.voices[v], r.channels[r.voices[v].channel]) /\ Open(r.voices[v])
      BY <1>1, <2>2 DEF NotesOK
    <3> QED
      BY <1>1, <1>3, <2>2, <3>1, <3>2 DEF NoteOK, KeyDown
  <2>3. CASE v \notin vs
    BY <1>3, <2>3 DEF NotesOK
  <2> QED
    BY <1>1, <2>1, <2>2, <2>3
<1> QED
  BY <1>3, <1>4, <1>5 DEF NotesOK

(* All Notes Off, and the operator's release of everything. *)
LEMMA NotesOffResult ==
  ASSUME RuntimeInv, ~fault, NEW limit \in Int, NEW c \in Channels
  PROVE  MessageResult(AllNotesOff(Begin(limit), c), {}, {})
<1> DEFINE r == Begin(limit)
           vs == {v \in ActiveVoices(r) : r.voices[v].channel = c /\ KeyDown(r.voices[v])}
           kept == Kept(r, vs)
           q == KeysUp(r, vs, kept)
<1>1. /\ Underway(r) /\ ListsOK(r) /\ NotesOK(r) /\ r.channels = rt.channels /\ r \in HandlerRecord
  BY UnderwayBegin DEF Underway
<1>2. AllNotesOff(r, c) = q
  BY DEF AllNotesOff
<1> HIDE DEF r
<1>3. vs \subseteq Voices /\ \A v \in vs : Open(r.voices[v])
  BY <1>1, ActiveIsNotFree DEF KeyDown
<1>4. kept = Kept(r, vs) /\ q = KeysUp(r, vs, kept)
  OBVIOUS
<1> HIDE DEF vs, kept, q
<1>5. /\ Underway(q) /\ q.channels = r.channels /\ (q.ok => NotesOK(q))
  BY <1>1, <1>3, <1>4, KeysUpKeeps
<1>6. MessageResult(q, {}, {})
  BY <1>1, <1>5 DEF MessageResult, Underway, ChannelsMoved, SameValues
<1> QED
  BY <1>2, <1>6 DEF r

(* The operator's release of everything. *)
LEMMA ReleaseAllResult ==
  ASSUME RuntimeInv, ~fault, NEW limit \in Int
  PROVE  MessageResult(ReleaseAll(Begin(limit)), {}, {})
<1> DEFINE r == Begin(limit)
           vs == {v \in ActiveVoices(r) : Open(r.voices[v])}
           q == KeysUp(r, vs, {})
<1>1. /\ Underway(r) /\ ListsOK(r) /\ NotesOK(r) /\ r.channels = rt.channels /\ r \in HandlerRecord
  BY UnderwayBegin DEF Underway
<1>2. ReleaseAll(r) = q
  BY DEF ReleaseAll
<1> HIDE DEF r
<1>3. vs \subseteq Voices /\ \A v \in vs : Open(r.voices[v])
  BY <1>1, ActiveIsNotFree
<1>4. q = KeysUp(r, vs, {})
  OBVIOUS
<1> HIDE DEF vs, q
<1>5. /\ Underway(q) /\ q.channels = r.channels /\ (q.ok => NotesOK(q))
  BY <1>1, <1>3, <1>4, KeysUpKeeps
<1>6. MessageResult(q, {}, {})
  BY <1>1, <1>5 DEF MessageResult, Underway, ChannelsMoved, SameValues
<1> QED
  BY <1>2, <1>6 DEF r

(* Reset All Controllers. *)
LEMMA ResetResult ==
  ASSUME RuntimeInv, NEW r, Underway(r), NotesOK(r), NEW c \in Channels,
         NEW q, q = ResetControllers(r, c)
  PROVE  /\ Underway(q) /\ (q.ok => NotesOK(q)) /\ q.channels[c].dirty = Groups
         /\ \A d \in Channels \ {c} : q.channels[d] = r.channels[d]
<1> DEFINE x == MarkDirty(ResetChannel, Groups)
           y == [r.channels EXCEPT ![c] = x]
           z == [v \in Voices |-> IF v \in ActiveVoices(r) /\ r.voices[v].channel = c
                                  THEN [r.voices[v] EXCEPT !.sostenuto_held = FALSE] ELSE r.voices[v]]
           s == [r EXCEPT !.channels = y, !.voices = z]
<1>1. q = ReleaseDeferred(s, c)
  BY DEF ResetControllers, ClearChannel
<1>2. /\ r \in HandlerRecord /\ ListsOK(r) /\ r.voices \in [Voices -> VoiceRecord]
      /\ r.channels \in [Channels -> ChannelRecord]
      /\ \A v \in Voices : r.voices[v].channel \in Channels
  BY UnderwayLists DEF Underway, HandlerRecord, VoiceRecord
<1>3. x \in ChannelRecord /\ x.dirty = Groups /\ ~x.sustain /\ ~x.sostenuto
  BY ResetChannelType, MarkDirtyFields
<1> HIDE DEF x
<1>4. /\ y \in [Channels -> ChannelRecord] /\ y[c] = x
      /\ \A d \in Channels \ {c} : y[d] = r.channels[d]
  BY <1>2, <1>3
<1> HIDE DEF y
<1>5. ASSUME NEW v \in Voices
      PROVE  /\ z[v] \in VoiceRecord /\ SameVoice(r.voices[v], z[v])
             /\ z[v].stage = r.voices[v].stage /\ z[v].position = r.voices[v].position
             /\ z[v].key_released = r.voices[v].key_released /\ z[v].last = r.voices[v].last
             /\ r.voices[v].channel # c => z[v] = r.voices[v]
             /\ Open(r.voices[v]) /\ r.voices[v].channel = c => ~z[v].sostenuto_held
  <2> DEFINE a == r.voices[v]
             b == [a EXCEPT !.sostenuto_held = FALSE]
  <2>1. a \in VoiceRecord /\ (Open(a) => v \in ActiveVoices(r))
    BY <1>2, ActiveIsNotFree DEF Open
  <2>2. z[v] = IF v \in ActiveVoices(r) /\ a.channel = c THEN b ELSE a
    OBVIOUS
  <2> HIDE DEF a, z
  <2>3. /\ b \in VoiceRecord /\ SameVoice(a, b) /\ b.stage = a.stage /\ b.position = a.position
        /\ b.key_released = a.key_released /\ ~b.sostenuto_held /\ b.last = a.last
    BY <2>1 DEF VoiceRecord, SameVoice
  <2> HIDE DEF b
  <2>4. SameVoice(a, a)
    BY DEF SameVoice
  <2> QED
    BY <2>1, <2>2, <2>3, <2>4 DEF a
<1>6. z \in [Voices -> VoiceRecord]
  <2>1. z = [v \in Voices |-> z[v]]
    OBVIOUS
  <2> HIDE DEF z
  <2> QED
    BY <1>5, <2>1
<1> HIDE DEF z
<1>7. Fades(r.voices, z)
  BY <1>5 DEF Fades, Open
<1>8. /\ s \in HandlerRecord /\ s.channels = y /\ s.voices = z /\ s.active = r.active
      /\ s.free = r.free /\ s.instance = r.instance /\ s.stamp = r.stamp
      /\ s.fpga = r.fpga /\ s.log = r.log /\ s.ok = r.ok
  BY <1>2, <1>4, <1>6 DEF HandlerRecord
<1> HIDE DEF s
<1>9. Underway(s)
  BY <1>7, <1>8, UnderwayStep DEF SameLists, SameSound
<1>10. NotesBut(s, c)
  <2> SUFFICES ASSUME NEW v \in Voices
               PROVE  \/ NoteOK(s.voices[v], s.channels[s.voices[v].channel])
                      \/ /\ s.voices[v].channel = c
                         /\ s.voices[v].sostenuto_held => s.channels[c].sostenuto
                         /\ s.voices[v].stage = "SUSTAIN_HELD" <=> s.voices[v].key_released
    BY DEF NotesBut
  <2>1. CASE ~Open(s.voices[v])
    BY <2>1 DEF NoteOK
  <2>2. CASE r.voices[v].channel # c
    BY <1>2, <1>4, <1>5, <1>8, <2>2 DEF NotesOK
  <2>3. CASE Open(s.voices[v]) /\ r.voices[v].channel = c
    <3>1. Open(r.voices[v]) /\ NoteOK(r.voices[v], r.channels[r.voices[v].channel])
      BY <1>5, <1>8, <2>3 DEF Open, NotesOK
    <3> QED
      BY <1>5, <1>8, <2>3, <3>1 DEF SameVoice, NoteOK
  <2> QED
    BY <2>1, <2>2, <2>3
<1>11. /\ q \in HandlerRecord /\ SameLists(s, q) /\ SameSound(s, q)
       /\ q.channels = s.channels /\ Fades(s.voices, q.voices)
       /\ q.ok => NotesOK(q)
  BY <1>1, <1>8, <1>9, <1>10, UnderwayLists, DeferredResult
<1>12. Underway(q)
  BY <1>9, <1>11, UnderwayStep
<1> QED
  BY <1>3, <1>4, <1>8, <1>11, <1>12

(* System Reset: after k channels those are marked. *)
ResetUpTo(k, r) ==
  Underway(r) /\ (r.ok => NotesOK(r) /\ \A d \in 0 .. k - 1 : r.channels[d].dirty = Groups)

(* One channel of a System Reset. *)
LEMMA SilenceStep ==
  ASSUME RuntimeInv, NEW k \in 1 .. ChannelCount, NEW r, ResetUpTo(k - 1, r),
         NEW q, q = SilenceChannel(r, k - 1)
  PROVE  ResetUpTo(k, q)
<1> DEFINE c == k - 1
           s == AllSoundOff(r, c)
<1>1. /\ c \in Channels /\ 0 .. k - 1 - 1 = 0 .. c - 1 /\ 0 .. k - 1 = 0 .. c
      /\ \A d \in 0 .. c : d \in Channels /\ (d = c \/ d \in 0 .. c - 1)
  BY RuntimeNumbers
<1>2. /\ Underway(r) /\ (r.ok => NotesOK(r) /\ \A d \in 0 .. c - 1 : r.channels[d].dirty = Groups)
      /\ q = IF ~r.ok THEN r ELSE IF ~s.ok THEN s ELSE ResetControllers(s, c)
  BY <1>1 DEF ResetUpTo, SilenceChannel
<1> HIDE DEF c
<1>3. CASE ~r.ok
  BY <1>2, <1>3 DEF ResetUpTo
<1>4. CASE r.ok
  <2>1. /\ Underway(s) /\ (s.ok => NotesOK(s)) /\ s.channels = r.channels
    BY <1>1, <1>2, <1>4, SoundOffResult
  <2> HIDE DEF s
  <2>2. CASE ~s.ok
    BY <1>2, <1>4, <2>1, <2>2 DEF ResetUpTo
  <2>3. CASE s.ok
    <3>1. q = ResetControllers(s, c)
      BY <1>2, <1>4, <2>3
    <3>2. /\ Underway(q) /\ (q.ok => NotesOK(q)) /\ q.channels[c].dirty = Groups
          /\ \A d \in Channels \ {c} : q.channels[d] = s.channels[d]
      BY <1>1, <2>1, <2>3, <3>1, ResetResult
    <3>3. \A d \in 0 .. c : q.channels[d].dirty = Groups
      BY <1>1, <1>2, <1>4, <2>1, <3>2
    <3> QED
      BY <1>1, <3>2, <3>3 DEF ResetUpTo
  <2> QED
    BY <2>2, <2>3
<1> QED
  BY <1>3, <1>4

(* All of them, in turn. *)
LEMMA SystemResetResult ==
  ASSUME RuntimeInv, ~fault, NEW limit \in Int
  PROVE  MessageResult(SystemReset(Begin(limit)), Channels, Channels)
<1> DEFINE r == Begin(limit)
           n == ChannelCount
           V == [k \in 0 .. n |-> {x \in HandlerRecord : ResetUpTo(k, x)}]
           G == [k \in 1 .. n |-> [x \in HandlerRecord |-> SilenceChannel(x, k - 1)]]
           Silences(f) == f = [k \in 0 .. n |-> IF k = 0 THEN r ELSE SilenceChannel(f[k - 1], k - 1)]
<1>1. n \in Nat /\ Channels = 0 .. n - 1
  BY RuntimeNumbers
<1>2. r \in V[0]
  BY <1>1, UnderwayBegin DEF ResetUpTo, Underway
<1> HIDE DEF r
<1>3. ASSUME NEW k \in 1 .. n, NEW x \in V[k - 1]
      PROVE  SilenceChannel(x, k - 1) \in V[k] /\ G[k][x] = SilenceChannel(x, k - 1)
  <2>1. k - 1 \in 0 .. n /\ k \in 0 .. n
    BY <1>1
  <2>2. x \in HandlerRecord /\ ResetUpTo(k - 1, x)
    BY <1>3, <2>1
  <2>3. ResetUpTo(k, SilenceChannel(x, k - 1))
    BY <2>2, SilenceStep
  <2> QED
    BY <2>1, <2>2, <2>3 DEF ResetUpTo, Underway
<1>4. PICK f : Runs(f, r, G, n) /\ \A k \in 0 .. n : f[k] \in V[k]
  <2>1. \A k \in 1 .. n : \A x \in V[k - 1] : G[k][x] \in V[k]
    BY <1>3
  <2> HIDE DEF V, G
  <2> QED
    BY <1>1, <1>2, <2>1, RunInExists
<1>5. Silences(f)
  <2>1. ASSUME NEW k \in 0 .. n
        PROVE  (IF k = 0 THEN r ELSE G[k][f[k - 1]]) = IF k = 0 THEN r ELSE SilenceChannel(f[k - 1], k - 1)
    <3>1. k # 0 => k \in 1 .. n /\ k - 1 \in 0 .. n
      BY <1>1
    <3> HIDE DEF V, G
    <3> QED
      BY <1>3, <1>4, <3>1
  <2> HIDE DEF G
  <2> QED
    BY <1>4, <2>1 DEF Runs
<1> DEFINE reset == CHOOSE h : Silences(h)
<1>6. Silences(reset)
  BY <1>5
<1>7. SystemReset(r) = reset[n]
  BY DEF SystemReset
<1> HIDE DEF reset
<1>8. \A k \in 0 .. n : reset[k] \in V[k]
  <2>1. reset[0] = r
    BY <1>1, <1>6
  <2>2. ASSUME NEW k \in 1 .. n, reset[k - 1] \in V[k - 1] PROVE reset[k] \in V[k]
    <3>1. k \in 0 .. n /\ k - 1 \in 0 .. n /\ k # 0
      BY <1>1
    <3>2. reset[k] = SilenceChannel(reset[k - 1], k - 1)
      BY <1>6, <3>1
    <3> HIDE DEF V, G, Silences
    <3> QED
      BY <1>3, <2>2, <3>2
  <2> HIDE DEF V, Silences
  <2> QED
    BY <1>1, <1>2, <2>1, <2>2, RunStaysIn
<1> DEFINE q == SystemReset(r)
<1>9. ResetUpTo(n, q)
  <2>1. reset[n] \in V[n] /\ n \in 0 .. n
    BY <1>1, <1>8
  <2> QED
    BY <1>7, <2>1
<1> HIDE DEF q, V, G, Silences
<1>10. MessageResult(q, Channels, Channels)
  <2>1. Underway(q) /\ (q.ok => NotesOK(q) /\ \A d \in Channels : q.channels[d].dirty = Groups)
    BY <1>1, <1>9 DEF ResetUpTo
  <2> QED
    BY <2>1 DEF MessageResult, Underway, ChannelsMoved, SameValues
<1> QED
  BY <1>10 DEF q, r
-----------------------------------------------------------------------------
(* Each message keeps the invariant. *)

Sent(q, cs, cleared) ==
  /\ ~fault /\ Handled(q) /\ aba' = aba \ cs
  /\ resets' = (IF job.active THEN resets \union cleared ELSE resets)
  /\ UNCHANGED <<periodic, job, keys, drift, young>>

(* A message that was sent keeps the invariant. *)
LEMMA SentKeeps ==
  ASSUME RuntimeInv, NEW q, NEW cs, NEW cleared, Sent(q, cs, cleared),
         MessageResult(q, cs, cleared), cleared \subseteq cs, cs \subseteq Channels
  PROVE  RuntimeInv'
<1>1. periodic' \in BOOLEAN /\ periodic' = periodic
  BY DEF RuntimeInv, RuntimeTypeOK, Sent
<1> QED
  BY <1>1, MessageKeeps DEF Sent

(* All Sound Off and Reset All Controllers as messages of their own. *)
LEMMA SoundOffMessage ==
  ASSUME RuntimeInv, ~fault, NEW limit \in Int, NEW c \in Channels
  PROVE  MessageResult(AllSoundOff(Begin(limit), c), {}, {})
<1> DEFINE r == Begin(limit)
           q == AllSoundOff(r, c)
<1>1. Underway(r) /\ NotesOK(r) /\ r.channels = rt.channels
  BY UnderwayBegin
<1>2. /\ q \in HandlerRecord /\ q.channels = r.channels /\ SoundOK(q) /\ (q.ok => NotesOK(q))
      /\ Underway(q)
  <2> HIDE DEF r
  <2> QED
    BY <1>1, SoundOffResult
<1> HIDE DEF q
<1>3. MessageResult(q, {}, {})
  BY <1>1, <1>2 DEF MessageResult, Underway, ChannelsMoved, SameValues
<1> QED
  BY <1>3 DEF q

(* Reset All Controllers as a message. *)
LEMMA ResetMessage ==
  ASSUME RuntimeInv, ~fault, NEW limit \in Int, NEW c \in Channels
  PROVE  MessageResult(ResetControllers(Begin(limit), c), {c}, {c})
<1> DEFINE r == Begin(limit)
           q == ResetControllers(r, c)
<1>1. Underway(r) /\ NotesOK(r) /\ r.channels = rt.channels
  BY UnderwayBegin
<1>2. /\ Underway(q) /\ (q.ok => NotesOK(q)) /\ q.channels[c].dirty = Groups
      /\ \A d \in Channels \ {c} : q.channels[d] = r.channels[d]
  <2> HIDE DEF r
  <2> QED
    BY <1>1, ResetResult
<1> HIDE DEF q
<1>3. MessageResult(q, {c}, {c})
  BY <1>1, <1>2 DEF MessageResult, Underway, ChannelsMoved, SameValues
<1> QED
  BY <1>3 DEF q

(* CC 64 keeps the invariant. *)
LEMMA SustainKeeps ==
  ASSUME RuntimeInv, NEW c \in Channels, NEW down \in BOOLEAN, SustainPedal(c, down)
  PROVE  RuntimeInv'
<1>1. PICK limit \in Limits : Handled(Sustain(Begin(limit), c, down))
  BY DEF SustainPedal, Message
<1> DEFINE q == Sustain(Begin(limit), c, down)
<1>2. Sent(q, {c}, {})
  BY <1>1 DEF SustainPedal, Message, Sent
<1>3. MessageResult(q, {c}, {})
  <2>1. limit \in Int /\ ~fault
    BY RuntimeAssumption DEF SustainPedal, Message
  <2> QED
    BY <2>1, SustainResult
<1> HIDE DEF q
<1>4. {} \subseteq {c} /\ {c} \subseteq Channels
  OBVIOUS
<1> QED
  BY <1>2, <1>3, <1>4, SentKeeps

(* CC 66 keeps it. *)
LEMMA SostenutoKeeps ==
  ASSUME RuntimeInv, NEW c \in Channels, NEW down \in BOOLEAN, SostenutoPedal(c, down)
  PROVE  RuntimeInv'
<1>1. PICK limit \in Limits : Handled(Sostenuto(Begin(limit), c, down))
  BY DEF SostenutoPedal, Message
<1> DEFINE q == Sostenuto(Begin(limit), c, down)
<1>2. Sent(q, {c}, {})
  BY <1>1 DEF SostenutoPedal, Message, Sent
<1>3. MessageResult(q, {c}, {})
  <2>1. limit \in Int /\ ~fault
    BY RuntimeAssumption DEF SostenutoPedal, Message
  <2> QED
    BY <2>1, SostenutoResult
<1> HIDE DEF q
<1>4. {} \subseteq {c} /\ {c} \subseteq Channels
  OBVIOUS
<1> QED
  BY <1>2, <1>3, <1>4, SentKeeps

(* A controller change keeps it. *)
LEMMA ControllerKeeps ==
  ASSUME RuntimeInv, NEW c \in Channels, NEW value \in Nat, Controller(c, value)
  PROVE  RuntimeInv'
<1>1. PICK limit \in Limits : Handled(Dirty([Begin(limit) EXCEPT !.channels[c].cc = value], c, Groups))
  BY DEF Controller, Message
<1> DEFINE q == Dirty([Begin(limit) EXCEPT !.channels[c].cc = value], c, Groups)
<1>2. Sent(q, {c}, {})
  BY <1>1 DEF Controller, Message, Sent
<1>3. MessageResult(q, {c}, {})
  <2>1. limit \in Int /\ ~fault
    BY RuntimeAssumption DEF Controller, Message
  <2> QED
    BY <2>1, ControllerResult
<1> HIDE DEF q
<1>4. {} \subseteq {c} /\ {c} \subseteq Channels
  OBVIOUS
<1> QED
  BY <1>2, <1>3, <1>4, SentKeeps

(* The wheel keeps it. *)
LEMMA BendKeeps ==
  ASSUME RuntimeInv, NEW c \in Channels, NEW value \in Nat, PitchBend(c, value)
  PROVE  RuntimeInv'
<1>1. PICK limit \in Limits : Handled(Dirty([Begin(limit) EXCEPT !.channels[c].bend = value], c, {"pitch"}))
  BY DEF PitchBend, Message
<1> DEFINE q == Dirty([Begin(limit) EXCEPT !.channels[c].bend = value], c, {"pitch"})
<1>2. Sent(q, {}, {})
  BY <1>1 DEF PitchBend, Message, Sent
<1>3. MessageResult(q, {}, {})
  <2>1. limit \in Int /\ ~fault
    BY RuntimeAssumption DEF PitchBend, Message
  <2> QED
    BY <2>1, BendResult
<1> HIDE DEF q
<1>4. {} \subseteq {} /\ {} \subseteq Channels
  OBVIOUS
<1> QED
  BY <1>2, <1>3, <1>4, SentKeeps

(* All Sound Off keeps it. *)
LEMMA SoundOffKeeps ==
  ASSUME RuntimeInv, NEW c \in Channels, SoundOff(c)
  PROVE  RuntimeInv'
<1>1. PICK limit \in Limits : Handled(AllSoundOff(Begin(limit), c))
  BY DEF SoundOff, Message
<1> DEFINE q == AllSoundOff(Begin(limit), c)
<1>2. Sent(q, {}, {})
  BY <1>1 DEF SoundOff, Message, Sent
<1>3. MessageResult(q, {}, {})
  <2>1. limit \in Int /\ ~fault
    BY RuntimeAssumption DEF SoundOff, Message
  <2> QED
    BY <2>1, SoundOffMessage
<1> HIDE DEF q
<1>4. {} \subseteq {} /\ {} \subseteq Channels
  OBVIOUS
<1> QED
  BY <1>2, <1>3, <1>4, SentKeeps

(* All Notes Off keeps it. *)
LEMMA NotesOffKeeps ==
  ASSUME RuntimeInv, NEW c \in Channels, NotesOff(c)
  PROVE  RuntimeInv'
<1>1. PICK limit \in Limits : Handled(AllNotesOff(Begin(limit), c))
  BY DEF NotesOff, Message
<1> DEFINE q == AllNotesOff(Begin(limit), c)
<1>2. Sent(q, {}, {})
  BY <1>1 DEF NotesOff, Message, Sent
<1>3. MessageResult(q, {}, {})
  <2>1. limit \in Int /\ ~fault
    BY RuntimeAssumption DEF NotesOff, Message
  <2> QED
    BY <2>1, NotesOffResult
<1> HIDE DEF q
<1>4. {} \subseteq {} /\ {} \subseteq Channels
  OBVIOUS
<1> QED
  BY <1>2, <1>3, <1>4, SentKeeps

(* The operator's release keeps it. *)
LEMMA ReleaseAllKeeps ==
  ASSUME RuntimeInv, OperatorReleaseAll
  PROVE  RuntimeInv'
<1>1. PICK limit \in Limits : Handled(ReleaseAll(Begin(limit)))
  BY DEF OperatorReleaseAll, Message
<1> DEFINE q == ReleaseAll(Begin(limit))
<1>2. Sent(q, {}, {})
  BY <1>1 DEF OperatorReleaseAll, Message, Sent
<1>3. MessageResult(q, {}, {})
  <2>1. limit \in Int /\ ~fault
    BY RuntimeAssumption DEF OperatorReleaseAll, Message
  <2> QED
    BY <2>1, ReleaseAllResult
<1> HIDE DEF q
<1>4. {} \subseteq {} /\ {} \subseteq Channels
  OBVIOUS
<1> QED
  BY <1>2, <1>3, <1>4, SentKeeps

(* Reset All Controllers keeps it. *)
LEMMA ControllersResetKeeps ==
  ASSUME RuntimeInv, NEW c \in Channels, ControllersReset(c)
  PROVE  RuntimeInv'
<1>1. PICK limit \in Limits : Handled(ResetControllers(Begin(limit), c))
  BY DEF ControllersReset, Message
<1> DEFINE q == ResetControllers(Begin(limit), c)
<1>2. Sent(q, {c}, {c})
  BY <1>1 DEF ControllersReset, Message, Sent
<1>3. MessageResult(q, {c}, {c})
  <2>1. limit \in Int /\ ~fault
    BY RuntimeAssumption DEF ControllersReset, Message
  <2> QED
    BY <2>1, ResetMessage
<1> HIDE DEF q
<1>4. {c} \subseteq {c} /\ {c} \subseteq Channels
  OBVIOUS
<1> QED
  BY <1>2, <1>3, <1>4, SentKeeps

(* A System Reset keeps it. *)
LEMMA SystemResetKeeps ==
  ASSUME RuntimeInv, SystemResetMessage
  PROVE  RuntimeInv'
<1>1. PICK limit \in Limits : Handled(SystemReset(Begin(limit)))
  BY DEF SystemResetMessage, Message
<1> DEFINE q == SystemReset(Begin(limit))
<1>2. Sent(q, Channels, Channels)
  BY <1>1 DEF SystemResetMessage, Message, Sent
<1>3. MessageResult(q, Channels, Channels)
  <2>1. limit \in Int /\ ~fault
    BY RuntimeAssumption DEF SystemResetMessage, Message
  <2> QED
    BY <2>1, SystemResetResult
<1> HIDE DEF q
<1>4. Channels \subseteq Channels /\ Channels \subseteq Channels
  OBVIOUS
<1> QED
  BY <1>2, <1>3, <1>4, SentKeeps

(* The switch marks every channel. *)
LEMMA ToggleKeeps ==
  ASSUME RuntimeInv, TogglePeriodic
  PROVE  RuntimeInv'
<1> DEFINE r == Begin(0)
           x == [c \in Channels |-> MarkDirty(rt.channels[c], Groups)]
           q == [r EXCEPT !.channels = x]
<1>1. RuntimeTypeOK /\ ~fault /\ fault = FALSE
  BY DEF RuntimeInv, TogglePeriodic, RuntimeTypeOK
<1>2. Underway(r) /\ NotesOK(r) /\ r.ok
  BY <1>1, UnderwayBegin
<1>3. /\ r \in HandlerRecord /\ r.voices = rt.voices /\ r.active = rt.active
      /\ r.free = rt.free /\ r.channels = rt.channels /\ r.instance = rt.instance
      /\ r.stamp = rt.stamp /\ r.fpga = fpga /\ r.log = log /\ r.ok
  BY <1>1, BeginFields
<1> HIDE DEF r
<1>4. rt.channels \in [Channels -> ChannelRecord] /\ rt \in RuntimeRecord
  BY <1>1 DEF RuntimeTypeOK, RuntimeRecord
<1>5. ASSUME NEW c \in Channels
      PROVE  /\ x[c] \in ChannelRecord /\ x[c].dirty = Groups /\ x[c].revision = rt.channels[c].revision + 1
             /\ x[c].sustain = rt.channels[c].sustain
             /\ x[c].sostenuto = rt.channels[c].sostenuto
  <2>1. rt.channels[c] \in ChannelRecord /\ x[c] = MarkDirty(rt.channels[c], Groups)
    BY <1>4
  <2> QED
    BY <2>1, MarkDirtyFields
<1>6. x \in [Channels -> ChannelRecord]
  BY <1>5
<1>7. rt' = [rt EXCEPT !.channels = x]
  BY <1>4 DEF TogglePeriodic, RuntimeRecord
<1> HIDE DEF x
<1>8. /\ q \in HandlerRecord /\ q.channels = x /\ q.voices = r.voices /\ q.active = r.active
      /\ q.free = r.free /\ q.instance = r.instance /\ q.stamp = r.stamp
      /\ q.fpga = r.fpga /\ q.log = r.log /\ q.ok = r.ok
  BY <1>3, <1>6 DEF HandlerRecord
<1>9. /\ rt'.voices = rt.voices /\ rt'.active = rt.active /\ rt'.free = rt.free
      /\ rt'.channels = x /\ rt'.instance = rt.instance /\ rt'.stamp = rt.stamp
      /\ rt' = [voices |-> rt'.voices, active |-> rt'.active, free |-> rt'.free,
                channels |-> rt'.channels, instance |-> rt'.instance, stamp |-> rt'.stamp]
  BY <1>4, <1>6, <1>7 DEF RuntimeRecord
<1> HIDE DEF q
<1>10. Handled(q)
  <2>1. fpga' = q.fpga /\ log' = q.log /\ fault' = ~q.ok
    BY <1>1, <1>3, <1>8 DEF TogglePeriodic
  <2> QED
    BY <1>3, <1>8, <1>9, <2>1 DEF Handled
<1>11. Fades(r.voices, q.voices) /\ SameLists(r, q) /\ SameSound(r, q)
  BY <1>8, FadesSelf DEF SameLists, SameSound
<1>12. Underway(q)
  BY <1>2, <1>8, <1>11, UnderwayStep
<1>13. NotesOK(q)
  <2>1. \A v \in Voices : r.voices[v].channel \in Channels
    BY <1>3 DEF HandlerRecord, VoiceRecord
  <2> QED
    BY <1>2, <1>3, <1>5, <1>8, <2>1 DEF NotesOK, NoteOK
<1>14. MessageResult(q, Channels, {})
  BY <1>5, <1>8, <1>12, <1>13 DEF MessageResult, Underway, ChannelsMoved, SameValues
<1>15. /\ periodic' \in BOOLEAN /\ aba' = aba \ Channels /\ UNCHANGED <<job, keys, drift, young>>
       /\ resets' = (IF job.active THEN resets \union {} ELSE resets)
  BY <1>1 DEF TogglePeriodic, RuntimeTypeOK
<1>16. {} \subseteq Channels /\ Channels \subseteq Channels
  OBVIOUS
<1> QED
  BY <1>1, <1>10, <1>14, <1>15, <1>16, MessageKeeps
-----------------------------------------------------------------------------
(* Note Off. *)

(* The oldest of the key's notes is one of them. *)
LEMMA OldestIsPressed ==
  ASSUME NEW r \in HandlerRecord, ListsOK(r), NEW c, NEW n, Struck(r, c, n) # {}
  PROVE  Oldest(r, c, n) \in Pressed(r.voices, c, n)
<1> DEFINE T == {r.voices[v].instance : v \in Struck(r, c, n)}
<1>1. Struck(r, c, n) = {v \in Voices : /\ KeyDown(r.voices[v]) /\ r.voices[v].channel = c
                                        /\ r.voices[v].note = n}
  BY ActiveIsNotFree DEF Struck, KeyDown, Open
<1>2. T = Pressed(r.voices, c, n)
  BY <1>1 DEF Pressed
<1>3. T \subseteq Nat /\ T # {}
  <2>1. r.voices \in [Voices -> VoiceRecord]
    BY DEF HandlerRecord
  <2>2. \A v \in Voices : r.voices[v].instance \in Nat
    BY <2>1 DEF VoiceRecord
  <2> QED
    BY <1>1, <2>2
<1>4. Oldest(r, c, n) = CHOOSE x \in T : \A y \in T : x <= y
  BY DEF Oldest, Min
<1> HIDE DEF T
<1>5. PICK x \in T : \A y \in T : ~(y < x)
  BY <1>3, LeastNatural
<1>6. \A y \in T : x <= y
  BY <1>3, <1>5
<1>7. (CHOOSE z \in T : \A y \in T : z <= y) \in T
  BY <1>5, <1>6
<1> QED
  BY <1>2, <1>4, <1>7

(* A Note Off ends one note for one key. *)
LEMMA NoteOffKeeps ==
  ASSUME RuntimeInv, NEW c \in Channels, NEW n \in Notes, NoteOff(c, n)
  PROVE  RuntimeInv'
<1>1. PICK limit \in Limits : Handled(NoteOffRuntime(Begin(limit), c, n))
  BY DEF NoteOff
<1> DEFINE r == Begin(limit)
           oldest == Oldest(r, c, n)
           ending == {v \in ActiveVoices(r) :
                        /\ r.voices[v].stage # "RELEASED" /\ r.voices[v].channel = c
                        /\ r.voices[v].instance = oldest /\ ~r.voices[v].key_released}
           kept == Kept(r, ending)
           q == NoteOffRuntime(r, c, n)
<1>2. /\ ~fault /\ keys[c][n] > 0 /\ keys' = [keys EXCEPT ![c][n] = @ - 1]
      /\ UNCHANGED <<periodic, job, drift, young, resets, aba>>
  BY DEF NoteOff
<1>3. RuntimeTypeOK /\ KeysOK(rt.voices) /\ limit \in Int
  BY <1>2, RuntimeAssumption DEF RuntimeInv
<1>4. /\ Underway(r) /\ ListsOK(r) /\ NotesOK(r) /\ r.channels = rt.channels
      /\ r.voices = rt.voices /\ r \in HandlerRecord
  BY <1>2, <1>3, UnderwayBegin DEF Underway
<1>5. q = IF Struck(r, c, n) = {} THEN r ELSE KeysUp(r, ending, kept)
  BY DEF NoteOffRuntime
<1>6. Handled(q)
  BY <1>1
<1> HIDE DEF r
<1>7. /\ ending \subseteq Voices /\ \A v \in ending : Open(r.voices[v])
      /\ \A v \in Voices : KeyDown(r.voices[v]) /\ r.voices[v].channel = c
                             /\ r.voices[v].instance = oldest => v \in ending
  <2>1. r.voices \in [Voices -> VoiceRecord]
    BY <1>4 DEF HandlerRecord
  <2>2. \A v \in Voices : r.voices[v].stage \in {"FREE", "ACTIVE", "SUSTAIN_HELD", "RELEASED"}
    BY <2>1 DEF VoiceRecord
  <2> QED
    BY <1>4, <2>2, ActiveIsNotFree DEF Open, KeyDown
<1>8. kept = Kept(r, ending)
  OBVIOUS
<1> HIDE DEF ending, kept, q, oldest
<1>9. /\ keys' \in [Channels -> [Notes -> Nat]] /\ keys[c][n] \in Nat
      /\ keys'[c][n] = keys[c][n] - 1
      /\ \A d \in Channels, m \in Notes : d # c \/ m # n => keys'[d][m] = keys[d][m]
  <2>1. keys \in [Channels -> [Notes -> Nat]] /\ keys[c][n] \in Nat /\ keys[c][n] - 1 \in Nat
    BY <1>2, <1>3 DEF RuntimeTypeOK
  <2> QED
    BY <1>2, <2>1
<1>10. /\ Underway(q) /\ q.channels = r.channels /\ (q.ok => NotesOK(q))
       /\ Fades(r.voices, q.voices)
       /\ Struck(r, c, n) # {} /\ q.ok => \A v \in ending : ~KeyDown(q.voices[v])
  <2>1. CASE Struck(r, c, n) = {}
    BY <1>4, <1>5, <2>1, FadesSelf
  <2>2. CASE Struck(r, c, n) # {}
    <3>1. q = KeysUp(r, ending, kept)
      BY <1>5, <2>2
    <3> QED
      BY <1>4, <1>7, <1>8, <3>1, KeysUpKeeps
  <2> QED
    BY <2>1, <2>2
<1>11. MessageResult(q, {}, {})
  BY <1>4, <1>10 DEF MessageResult, Underway, ChannelsMoved, SameValues
<1>12. \A d \in Channels, m \in Notes :
         /\ Cardinality(Pressed(q.voices, d, m)) <= keys[d][m]
         /\ Cardinality(Pressed(q.voices, d, m)) \in Nat
  <2>1. KeysOK(q.voices)
    BY <1>3, <1>4, <1>10, FadesKeys
  <2> QED
    BY <2>1, PressedFinite DEF KeysOK
<1>13. ASSUME q.ok PROVE Cardinality(Pressed(q.voices, c, n)) <= keys[c][n] - 1
  <2> DEFINE P == Pressed(r.voices, c, n)
             Q == Pressed(q.voices, c, n)
  <2>1. Q \subseteq P /\ IsFiniteSet(P) /\ IsFiniteSet(Q) /\ Cardinality(P) \in Nat
        /\ Cardinality(Q) \in Nat
    BY <1>10, FadesPressed, PressedFinite
  <2>2. CASE Struck(r, c, n) = {}
    <3>1. P = {}
      BY <1>4, <2>2, ActiveIsNotFree DEF Pressed, Struck, KeyDown, Open
    <3>2. Cardinality(Q) = 0
      BY <2>1, <3>1, FS_EmptySet
    <3> QED
      BY <1>2, <1>9, <3>2
  <2>3. CASE Struck(r, c, n) # {}
    <3>1. oldest \in P
      BY <1>4, <2>3, OldestIsPressed DEF oldest
    <3>2. oldest \notin Q
      <4> SUFFICES ASSUME oldest \in Q PROVE FALSE
        OBVIOUS
      <4>1. PICK v \in Voices : KeyDown(q.voices[v]) /\ q.voices[v].channel = c
                                /\ oldest = q.voices[v].instance
        BY DEF Pressed
      <4>2. KeyDown(r.voices[v]) /\ r.voices[v].channel = c /\ r.voices[v].instance = oldest
        BY <1>10, <4>1 DEF Fades, SameVoice, KeyDown
      <4> QED
        BY <1>7, <1>10, <1>13, <2>3, <4>1, <4>2
    <3>3. Cardinality(P \ {oldest}) = Cardinality(P) - 1 /\ IsFiniteSet(P \ {oldest})
      BY <2>1, <3>1, FS_RemoveElement
    <3>4. Cardinality(Q) <= Cardinality(P \ {oldest})
      BY <2>1, <3>2, <3>3, FS_Subset
    <3>5. Cardinality(P) <= keys[c][n]
      BY <1>3, <1>4 DEF KeysOK
    <3> HIDE DEF P, Q
    <3> QED
      BY <1>9, <2>1, <3>3, <3>4, <3>5 DEF Q
  <2> QED
    BY <2>2, <2>3
<1>14. q.ok => KeysCover(q)
  <2> SUFFICES ASSUME q.ok, NEW d \in Channels, NEW m \in Notes
               PROVE  Cardinality(Pressed(q.voices, d, m)) <= keys'[d][m]
    BY DEF KeysCover
  <2>1. CASE d = c /\ m = n
    BY <1>9, <1>13, <2>1
  <2>2. CASE ~(d = c /\ m = n)
    BY <1>9, <1>12, <2>2
  <2> QED
    BY <2>1, <2>2
<1>15. /\ periodic' \in BOOLEAN /\ periodic' = periodic /\ aba' = aba \ {}
       /\ resets' = (IF job.active THEN resets \union {} ELSE resets)
       /\ UNCHANGED <<job, drift, young>>
  BY <1>2, <1>3 DEF RuntimeTypeOK
<1>16. {} \subseteq Channels /\ {} \subseteq {}
  OBVIOUS
<1> QED
  BY <1>2, <1>6, <1>9, <1>11, <1>14, <1>15, <1>16, HandlerKeeps
-----------------------------------------------------------------------------
(* The list and the stack. *)

(* A voice whose place in the list may have changed, and nothing else. *)
Moved(a, b) ==
  /\ SameVoice(a, b) /\ b.stage = a.stage /\ b.key_released = a.key_released
  /\ b.sostenuto_held = a.sostenuto_held /\ b.last = a.last

(* A voice may also have stayed where it was. *)
LEMMA MovedSelf == ASSUME NEW a PROVE Moved(a, a)
  BY DEF Moved, SameVoice

(* Of a handler's record only list, stack and table differ. *)
SameRest(r, q) ==
  /\ q.channels = r.channels /\ q.instance = r.instance /\ q.stamp = r.stamp
  /\ q.fpga = r.fpga /\ q.log = r.log /\ q.left = r.left /\ q.ok = r.ok

(* The last entry of the list goes where v was. *)
Filled(r, v, a) ==
  /\ Len(r.active) \in Nat \ {0} /\ a \in Seq(Voices) /\ Len(a) = Len(r.active) - 1
  /\ \A i \in 1 .. Len(r.active) - 1 :
       a[i] = IF i = r.voices[v].position THEN r.active[Len(r.active)] ELSE r.active[i]

(* The list after reclaim_voice. *)
LEMMA ReclaimLists ==
  ASSUME NEW r \in HandlerRecord, ListsOK(r), NEW v \in Voices, r.voices[v].stage # "FREE",
         NEW a, a = Front([r.active EXCEPT ![r.voices[v].position] = r.active[Len(r.active)]])
  PROVE  Filled(r, v, a)
<1> DEFINE L == Len(r.active)
           p == r.voices[v].position
           m == r.active[L]
           s == [r.active EXCEPT ![p] = m]
<1>1. r.active \in Seq(Voices) /\ L \in Nat /\ p \in 1 .. L
  BY DEF HandlerRecord, ListsOK
<1>2. L # 0 /\ m \in Voices
  BY <1>1
<1> HIDE DEF L, p, m
<1>3. s \in Seq(Voices) /\ Len(s) = L /\ \A i \in 1 .. L : s[i] = IF i = p THEN m ELSE r.active[i]
  BY <1>1, <1>2 DEF L
<1>4. a = Front(s)
  BY DEF s, p, m, L
<1> HIDE DEF s
<1>5. s # << >>
  BY <1>2, <1>3
<1>6. /\ Front(s) \in Seq(Voices) /\ Len(Front(s)) = Len(s) - 1
      /\ \A i \in 1 .. (Len(s) - 1) : Front(s)[i] = s[i]
  BY <1>3, <1>5, FrontLast
<1>7. \A i \in 1 .. L - 1 : i \in 1 .. L
  BY <1>1
<1>8. /\ L \in Nat \ {0} /\ a \in Seq(Voices) /\ Len(a) = L - 1
      /\ \A i \in 1 .. L - 1 : a[i] = IF i = p THEN m ELSE r.active[i]
  BY <1>1, <1>2, <1>3, <1>4, <1>6, <1>7
<1> QED
  BY <1>8 DEF Filled, L, p, m

(* The table after it: v is free, and the others at most moved. *)
LEMMA ReclaimResult ==
  ASSUME NEW r \in HandlerRecord, ListsOK(r), NEW v \in Voices, r.voices[v].stage # "FREE",
         NEW q, q = ReclaimVoice(r, v)
  PROVE  /\ q \in HandlerRecord /\ ListsOK(q) /\ SameRest(r, q) /\ q.free = Append(r.free, v)
         /\ q.voices[v].stage = "FREE" /\ q.voices[v].generation = r.voices[v].generation
         /\ \A w \in Voices \ {v} : Moved(r.voices[w], q.voices[w])
<1> DEFINE L == Len(r.active)
           p == r.voices[v].position
           m == r.active[L]
           a == Front([r.active EXCEPT ![p] = m])
           x == [r.voices EXCEPT ![m].position = p]
           y == [x EXCEPT ![v] = Emptied(@)]
           f == Append(r.free, v)
<1>1. q = [r EXCEPT !.active = a, !.voices = y, !.free = f]
  <2>1. q = IF r.voices[v].stage = "FREE" THEN r
            ELSE [r EXCEPT !.active = a, !.voices = y, !.free = f]
    BY Zenon DEF ReclaimVoice
  <2> HIDE DEF a, y, f
  <2> QED
    BY <2>1
<1>2. /\ L \in Nat \ {0} /\ a \in Seq(Voices) /\ Len(a) = L - 1
      /\ \A i \in 1 .. L - 1 : a[i] = IF i = p THEN m ELSE r.active[i]
  <2>1. a = Front([r.active EXCEPT ![r.voices[v].position] = r.active[Len(r.active)]])
    OBVIOUS
  <2> HIDE DEF a
  <2>2. Filled(r, v, a)
    BY <2>1, ReclaimLists
  <2> QED
    BY <2>2 DEF Filled
<1>3. /\ r.active \in Seq(Voices) /\ r.voices \in [Voices -> VoiceRecord] /\ r.free \in Seq(Voices)
      /\ p \in 1 .. L /\ r.active[p] = v /\ \A i \in 1 .. L : r.active[i] \in Voices
  BY DEF HandlerRecord, ListsOK
<1>4. /\ m \in Voices /\ r.voices[m].position = L /\ r.voices[m].stage # "FREE"
      /\ L \in 1 .. L
  BY <1>2, <1>3 DEF ListsOK
<1>5. p \in Nat
  BY <1>2, <1>3
<1>6. m = v <=> p = L
  BY <1>3, <1>4
<1> HIDE DEF L, a, p, m
<1>7. /\ x \in [Voices -> VoiceRecord]
      /\ \A w \in Voices : /\ Moved(r.voices[w], x[w])
                           /\ x[w].position = IF w = m THEN p ELSE r.voices[w].position
  <2> DEFINE e == [r.voices[m] EXCEPT !.position = p]
  <2>1. x = [r.voices EXCEPT ![m] = e]
    OBVIOUS
  <2>2. r.voices[m] \in VoiceRecord
    BY <1>3, <1>4
  <2>3. e \in VoiceRecord /\ Moved(r.voices[m], e) /\ e.position = p
    BY <1>5, <2>2, PositionSet DEF Moved
  <2> HIDE DEF e
  <2> QED
    BY <1>3, <1>4, <2>1, <2>3, MovedSelf
<1> HIDE DEF x
<1>8. /\ y \in [Voices -> VoiceRecord]
      /\ y[v].stage = "FREE" /\ y[v].generation = r.voices[v].generation
      /\ \A w \in Voices \ {v} : y[w] = x[w]
  <2> DEFINE e == Emptied(x[v])
  <2>1. y = [x EXCEPT ![v] = e]
    OBVIOUS
  <2>2. x[v] \in VoiceRecord /\ x[v].generation = r.voices[v].generation
    BY <1>7 DEF Moved, SameVoice
  <2>3. e \in VoiceRecord /\ e.stage = "FREE" /\ e.generation = x[v].generation
    BY <2>2, EmptiedFields
  <2> HIDE DEF e
  <2> QED
    BY <1>7, <2>1, <2>2, <2>3
<1> HIDE DEF y
<1> DEFINE F == Len(r.free)
<1>9. /\ f \in Seq(Voices) /\ Len(f) = F + 1 /\ F \in Nat
      /\ (\A i \in 1 .. F : f[i] = r.free[i] /\ f[i] \in Voices) /\ f[F + 1] = v
  BY <1>3, AppendTop
<1>10. f = Append(r.free, v)
  OBVIOUS
<1> HIDE DEF f, F
<1>11. /\ q \in HandlerRecord /\ q.active = a /\ q.voices = y /\ q.free = f /\ SameRest(r, q)
  BY <1>1, <1>2, <1>8, <1>9 DEF HandlerRecord, SameRest
<1>12. /\ L + F = VoiceCount
       /\ \A i \in 1 .. L : r.voices[r.active[i]].stage # "FREE" /\ r.voices[r.active[i]].position = i
       /\ \A w \in Voices : r.voices[w].stage # "FREE" =>
            r.voices[w].position \in 1 .. L /\ r.active[r.voices[w].position] = w
       /\ \A i, k \in 1 .. F : r.free[i] = r.free[k] => i = k
       /\ \A i \in 1 .. F : r.voices[r.free[i]].stage = "FREE"
       /\ \A w \in Voices : r.voices[w].stage = "FREE" => \E i \in 1 .. F : r.free[i] = w
  BY DEF ListsOK, L, F
<1>13. \A w \in Voices \ {v} :
         /\ y[w].stage = r.voices[w].stage
         /\ y[w].position = IF w = m THEN p ELSE r.voices[w].position
  BY <1>7, <1>8 DEF Moved
<1>14. ListsOK(q)
  <2>1. Len(a) + Len(f) = VoiceCount
    BY <1>2, <1>9, <1>12
  <2>2. ASSUME NEW i \in 1 .. L - 1 PROVE y[a[i]].stage # "FREE" /\ y[a[i]].position = i
    <3>1. i \in 1 .. L /\ i # L
      BY <1>2
    <3>2. CASE i = p
      BY <1>2, <1>4, <1>6, <1>13, <3>1, <3>2
    <3>3. CASE i # p
      <4>1. a[i] = r.active[i] /\ a[i] \in Voices /\ r.voices[a[i]].position = i
            /\ r.voices[a[i]].stage # "FREE"
        BY <1>2, <1>3, <1>12, <3>1, <3>3
      <4>2. a[i] # v /\ a[i] # m
        BY <1>4, <3>1, <3>3, <4>1 DEF p
      <4> QED
        BY <1>13, <4>1, <4>2
    <3> QED
      BY <3>2, <3>3
  <2>3. ASSUME NEW w \in Voices, y[w].stage # "FREE"
        PROVE  y[w].position \in 1 .. L - 1 /\ a[y[w].position] = w
    <3>1. w # v /\ r.voices[w].stage # "FREE"
      BY <1>8, <1>13, <2>3
    <3>2. CASE w = m
      BY <1>2, <1>3, <1>6, <1>13, <3>1, <3>2
    <3>3. CASE w # m
      <4> DEFINE k == r.voices[w].position
      <4>1. k \in 1 .. L /\ r.active[k] = w /\ y[w].position = k
        BY <1>12, <1>13, <3>1, <3>3
      <4>2. k # L /\ k # p
        BY <1>3, <3>1, <3>3, <4>1 DEF m
      <4> HIDE DEF k
      <4> QED
        BY <1>2, <4>1, <4>2
    <3> QED
      BY <3>2, <3>3
  <2>4. \A i \in 1 .. F : f[i] # v
    BY <1>9, <1>12
  <2>5. \A i, k \in 1 .. F + 1 : f[i] = f[k] => i = k
    BY <1>9, <1>12, <2>4
  <2>6. \A i \in 1 .. F + 1 : y[f[i]].stage = "FREE"
    <3> SUFFICES ASSUME NEW i \in 1 .. F + 1 PROVE y[f[i]].stage = "FREE"
      OBVIOUS
    <3>1. CASE i = F + 1
      BY <1>8, <1>9, <3>1
    <3>2. CASE i # F + 1
      <4>1. i \in 1 .. F
        BY <1>9, <3>2
      <4> QED
        BY <1>9, <1>12, <1>13, <2>4, <4>1
    <3> QED
      BY <3>1, <3>2
  <2>7. ASSUME NEW w \in Voices, y[w].stage = "FREE" PROVE \E i \in 1 .. F + 1 : f[i] = w
    <3>1. CASE w = v
      BY <1>9, <3>1
    <3>2. CASE w # v
      <4>1. PICK i \in 1 .. F : r.free[i] = w
        BY <1>12, <1>13, <2>7, <3>2
      <4>2. i \in 1 .. F + 1 /\ f[i] = w
        BY <1>9, <4>1
      <4> QED
        BY <4>2
    <3> QED
      BY <3>1, <3>2
  <2> QED
    <3>1. Len(q.active) = L - 1 /\ Len(q.free) = F + 1
      BY <1>2, <1>9, <1>11
    <3>2. Len(q.active) + Len(q.free) = VoiceCount
      BY <1>11, <2>1
    <3>3. \A i \in 1 .. Len(q.active) :
            q.voices[q.active[i]].stage # "FREE" /\ q.voices[q.active[i]].position = i
      BY <1>11, <2>2, <3>1
    <3>4. \A w \in Voices : q.voices[w].stage # "FREE" =>
            q.voices[w].position \in 1 .. Len(q.active) /\ q.active[q.voices[w].position] = w
      BY <1>11, <2>3, <3>1
    <3>5. \A i, k \in 1 .. Len(q.free) : q.free[i] = q.free[k] => i = k
      BY <1>11, <2>5, <3>1
    <3>6. \A i \in 1 .. Len(q.free) : q.voices[q.free[i]].stage = "FREE"
      BY <1>11, <2>6, <3>1
    <3>7. \A w \in Voices : q.voices[w].stage = "FREE" => \E i \in 1 .. Len(q.free) : q.free[i] = w
      BY <1>11, <2>7, <3>1
    <3> QED
      BY <3>2, <3>3, <3>4, <3>5, <3>6, <3>7 DEF ListsOK
<1> QED
  BY <1>7, <1>8, <1>10, <1>11, <1>14

(* The victim is one of the active voices. *)
LEMMA VictimIsActive ==
  ASSUME NEW r \in HandlerRecord, r.active # << >>
  PROVE  Victim(r) \in ActiveVoices(r)
<1> DEFINE n == Len(r.active) - 1
           A == ActiveVoices(r)
           V == [k \in 0 .. n |-> A]
           G == [k \in 1 .. n |-> [x \in A |-> BetterVictim(r, x, r.active[k + 1])]]
           Best(f) == f = [i \in 0 .. n |-> IF i = 0 THEN r.active[1]
                                            ELSE BetterVictim(r, f[i - 1], r.active[i + 1])]
<1>1. r.active \in Seq(Voices) /\ Len(r.active) \in Nat /\ Len(r.active) # 0
  BY DEF HandlerRecord
<1>2. n \in Nat /\ Len(r.active) = n + 1
  BY <1>1
<1> HIDE DEF n
<1>3. \A i \in 1 .. n + 1 : r.active[i] \in A
  BY <1>1, <1>2 DEF ActiveVoices, Range
<1> HIDE DEF A
<1>4. ASSUME NEW k \in 1 .. n, NEW x \in A PROVE BetterVictim(r, x, r.active[k + 1]) \in A
  <2>1. k + 1 \in 1 .. n + 1
    BY <1>2
  <2> QED
    BY <1>3, <2>1 DEF BetterVictim
<1>5. PICK f : Runs(f, r.active[1], G, n) /\ \A k \in 0 .. n : f[k] \in V[k]
  <2>1. r.active[1] \in V[0]
    BY <1>2, <1>3
  <2>2. \A k \in 1 .. n : \A x \in V[k - 1] : G[k][x] \in V[k]
    BY <1>2, <1>4
  <2> HIDE DEF V, G
  <2> QED
    BY <1>2, <2>1, <2>2, RunInExists
<1>6. Best(f)
  <2>1. ASSUME NEW k \in 0 .. n
        PROVE  (IF k = 0 THEN r.active[1] ELSE G[k][f[k - 1]])
                 = IF k = 0 THEN r.active[1] ELSE BetterVictim(r, f[k - 1], r.active[k + 1])
    <3>1. CASE k = 0
      BY <3>1
    <3>2. CASE k # 0
      <4>1. k \in 1 .. n /\ k - 1 \in 0 .. n
        BY <1>2, <3>2
      <4>2. f[k - 1] \in A
        BY <1>5, <4>1
      <4> QED
        BY <3>2, <4>1, <4>2
    <3> QED
      BY <3>1, <3>2
  <2> HIDE DEF G
  <2> QED
    BY <1>5, <2>1 DEF Runs
<1> DEFINE best == CHOOSE h : Best(h)
<1>7. Best(best)
  BY <1>6
<1>8. Victim(r) = best[n]
  BY DEF Victim, n
<1> HIDE DEF best
<1>9. \A k \in 0 .. n : best[k] \in V[k]
  <2>1. best[0] \in V[0]
    BY <1>2, <1>3, <1>7
  <2>2. ASSUME NEW k \in 1 .. n, best[k - 1] \in V[k - 1] PROVE best[k] \in V[k]
    <3>1. k \in 0 .. n /\ k - 1 \in 0 .. n /\ k # 0
      BY <1>2
    <3>2. best[k] = BetterVictim(r, best[k - 1], r.active[k + 1])
      BY <1>7, <3>1
    <3> QED
      BY <1>4, <2>2, <3>1, <3>2
  <2> HIDE DEF V, Best
  <2> QED
    BY <1>2, <2>1, <2>2, RunStaysIn
<1> QED
  BY <1>2, <1>8, <1>9 DEF A

(* There is a voice on the stack; at capacity it is the victim's. *)
WithFree(r, a) ==
  /\ a \in HandlerRecord /\ ListsOK(a) /\ SameRest(r, a) /\ a.free # << >>
  /\ \A w \in Voices : a.voices[w].generation = r.voices[w].generation
  /\ \A w \in Voices : w = Last(a.free) \/ Moved(r.voices[w], a.voices[w])

(* allocate_voice leaves a voice on the free stack. *)
LEMMA FreeVoiceResult ==
  ASSUME NEW r \in HandlerRecord, ListsOK(r), NEW a, a = WithFreeVoice(r)
  PROVE  WithFree(r, a)
<1>1. CASE r.free # << >>
  <2>1. a = r
    BY <1>1 DEF WithFreeVoice
  <2> QED
    BY <1>1, <2>1, MovedSelf DEF WithFree, SameRest
<1>2. CASE r.free = << >>
  <2> DEFINE v == Victim(r)
  <2>1. r.active # << >>
    <3>1. Len(r.free) = 0 /\ Len(r.active) = VoiceCount
      BY <1>2, RuntimeNumbers DEF ListsOK, HandlerRecord
    <3> QED
      BY <3>1, RuntimeNumbers
  <2>2. v \in Voices /\ r.voices[v].stage # "FREE"
    BY <2>1, VictimIsActive, ActiveIsNotFree
  <2>3. a = ReclaimVoice(r, v)
    BY <1>2 DEF WithFreeVoice
  <2> HIDE DEF v
  <2>4. /\ a \in HandlerRecord /\ ListsOK(a) /\ SameRest(r, a) /\ a.free = Append(r.free, v)
        /\ a.voices[v].stage = "FREE" /\ a.voices[v].generation = r.voices[v].generation
        /\ \A w \in Voices \ {v} : Moved(r.voices[w], a.voices[w])
    BY <2>2, <2>3, ReclaimResult
  <2>5. a.free = <<v>>
    BY <1>2, <2>4
  <2>6. a.free # << >> /\ Last(a.free) = v
    BY <2>5 DEF Last
  <2> QED
    BY <2>4, <2>6 DEF WithFree, Moved, SameVoice
<1> QED
  BY <1>1, <1>2
-----------------------------------------------------------------------------
(* Note On. *)

(* A voice b that slot w got for a note of r's instance. *)
Newborn(r, w, b, c, n) ==
  /\ b.stage = "ACTIVE" /\ b.channel = c /\ b.note = n /\ b.instance = r.instance
  /\ b.generation > r.voices[w].generation
  /\ ~b.key_released /\ ~b.sostenuto_held /\ b.last = Target(r.channels, periodic, b)

(* What a target is. *)
LEMMA TargetType ==
  ASSUME NEW channels \in [Channels -> ChannelRecord], NEW a \in VoiceRecord,
         NEW enabled \in BOOLEAN
  PROVE  Target(channels, enabled, a) \in [Groups -> ValueRecord]
<1>1. channels[a.channel].cc \in Nat /\ channels[a.channel].bend \in Nat
  BY DEF ChannelRecord, VoiceRecord
<1>2. ASSUME NEW g \in Groups PROVE Value(channels[a.channel], enabled, a, g) \in ValueRecord
  <2> DEFINE m == enabled /\ g \in a.periodic
             b == IF g \in BendFeeds THEN channels[a.channel].bend ELSE 0
  <2>1. m \in BOOLEAN
    OBVIOUS
  <2>2. b \in Nat
    BY <1>1
  <2>3. Value(channels[a.channel], enabled, a, g) = [cc |-> channels[a.channel].cc, bend |-> b, moving |-> m]
    BY DEF Value
  <2> HIDE DEF m, b
  <2> QED
    BY <1>1, <2>1, <2>2, <2>3 DEF ValueRecord
<1> QED
  BY <1>2 DEF Target

(* And what of the voice it reads. *)
LEMMA TargetOf ==
  ASSUME NEW channels, NEW enabled, NEW a, NEW b, b.channel = a.channel, b.periodic = a.periodic
  PROVE  Target(channels, enabled, b) = Target(channels, enabled, a)
  BY DEF Target, Value

(* The voice of a new layer. *)
LEMMA NewVoiceFields ==
  ASSUME NEW r \in HandlerRecord, NEW v \in Voices, NEW c \in Channels, NEW n \in Notes,
         NEW layer \in Layer, periodic \in BOOLEAN, NEW e, e = NewVoice(r, v, c, n, layer)
  PROVE  /\ e \in VoiceRecord /\ Newborn(r, v, e, c, n)
         /\ e.generation = r.voices[v].generation + 1
<1>1. /\ r.voices[v] \in VoiceRecord /\ r.instance \in Nat /\ r.stamp \in Nat
      /\ r.channels \in [Channels -> ChannelRecord]
  BY DEF HandlerRecord
<1>2. r.voices[v].generation \in Nat
  BY <1>1 DEF VoiceRecord, ChannelRecord
<1> DEFINE g == r.voices[v].generation + 1
           s == r.stamp + 1
           inst == r.instance
           x == layer.exclusive
           p == layer.periodic
           b == [FreeVoice EXCEPT !.stage = "ACTIVE", !.channel = c, !.note = n, !.generation = g,
                                  !.instance = inst, !.stamp = s, !.exclusive = x, !.periodic = p]
           t == Target(r.channels, periodic, b)
<1>3. g \in Nat /\ s \in Nat /\ layer.exclusive \in Nat /\ layer.periodic \in SUBSET Groups
  BY <1>1, <1>2 DEF Layer
<1>4. e = [b EXCEPT !.last = t]
  BY Zenon DEF NewVoice
<1>5. g > r.voices[v].generation
  BY <1>2
<1>6. inst \in Nat /\ x \in Nat /\ p \in SUBSET Groups
  BY <1>1, <1>3
<1> HIDE DEF g, s, inst, x, p
<1>7. /\ FreeVoice \in VoiceRecord /\ FreeVoice.key_released = FALSE
      /\ FreeVoice.sostenuto_held = FALSE
  BY FreeVoiceType DEF FreeVoice
<1>8. /\ b \in VoiceRecord /\ b.stage = "ACTIVE" /\ b.channel = c /\ b.note = n
      /\ b.instance = inst /\ b.generation = g /\ b.key_released = FALSE
      /\ b.sostenuto_held = FALSE /\ b.periodic = p
  BY <1>3, <1>6, <1>7 DEF VoiceRecord
<1> HIDE DEF b
<1>9. t \in [Groups -> ValueRecord]
  BY <1>1, <1>8, TargetType
<1>10. t = Target(r.channels, periodic, b)
  OBVIOUS
<1> HIDE DEF t
<1>11. /\ e \in VoiceRecord /\ e.stage = "ACTIVE" /\ e.channel = c /\ e.note = n
       /\ e.instance = inst /\ e.generation = g /\ e.key_released = FALSE
       /\ e.sostenuto_held = FALSE /\ e.periodic = p /\ e.last = t
  BY <1>4, <1>8, <1>9 DEF VoiceRecord
<1>12. Target(r.channels, periodic, e) = t
  BY <1>8, <1>10, <1>11, TargetOf
<1> QED
  BY <1>5, <1>11, <1>12 DEF Newborn, g, inst

(* What one layer, or several, may do. *)
Layered(r, q, c, n) ==
  /\ q \in HandlerRecord /\ ListsOK(q) /\ q.channels = r.channels /\ q.instance = r.instance
  /\ \A w \in Voices : q.voices[w].generation >= r.voices[w].generation
  /\ q.ok => /\ SoundOK(q) /\ NotesOK(q)
             /\ \A w \in Voices : q.voices[w].stage # "FREE" =>
                  Moved(r.voices[w], q.voices[w]) \/ Newborn(r, w, q.voices[w], c, n)

(* A slot is taken off the stack and goes back on: the START was refused. *)
LEMMA AbandonResult ==
  ASSUME NEW a \in HandlerRecord, ListsOK(a), a.free # << >>, NEW v, v = Last(a.free),
         NEW e \in VoiceRecord, e.stage = "FREE",
         NEW y \in [Voices -> VoiceRecord], y = [a.voices EXCEPT ![v] = e],
         NEW q \in HandlerRecord, q.active = a.active, q.voices = y,
         q.free = Append(Front(a.free), v)
  PROVE  ListsOK(q)
<1> DEFINE F == Len(a.free)
<1>1. /\ a.free \in Seq(Voices) /\ a.active \in Seq(Voices) /\ a.voices \in [Voices -> VoiceRecord]
  BY DEF HandlerRecord
<1>2. /\ F \in Nat \ {0} /\ Front(a.free) \in Seq(Voices) /\ Len(Front(a.free)) = F - 1
      /\ \A i \in 1 .. F - 1 : Front(a.free)[i] = a.free[i]
      /\ v = a.free[F] /\ v \in Voices
  BY <1>1, FrontLast
<1> DEFINE s == Front(a.free)
<1> HIDE DEF s
<1>3. s \in Seq(Voices) /\ Len(s) = F - 1 /\ (\A i \in 1 .. F - 1 : s[i] = a.free[i])
      /\ q.free = Append(s, v)
  BY <1>2 DEF s
<1>4. /\ Len(q.free) = F - 1 + 1 /\ (\A i \in 1 .. F - 1 : q.free[i] = s[i]) /\ q.free[F - 1 + 1] = v
  BY <1>2, <1>3, AppendTop
<1>5. F - 1 + 1 = F /\ \A i \in 1 .. F : i = F \/ i \in 1 .. F - 1
  BY <1>2
<1>6. Len(q.free) = F /\ \A i \in 1 .. F : q.free[i] = a.free[i]
  BY <1>2, <1>3, <1>4, <1>5
<1>7. a.voices[v].stage = "FREE"
  BY <1>2 DEF ListsOK
<1>8. \A w \in Voices : /\ y[w].stage = "FREE" <=> a.voices[w].stage = "FREE"
                        /\ y[w].stage # "FREE" => y[w] = a.voices[w]
  BY <1>1, <1>7
<1>9. \A i \in 1 .. Len(a.active) : a.active[i] \in Voices
  BY <1>1
<1>10. \A i \in 1 .. F : a.free[i] \in Voices
  BY <1>1
<1>11. Len(q.active) + Len(q.free) = VoiceCount
  BY <1>6 DEF ListsOK
<1>12. \A i \in 1 .. Len(q.active) :
         q.voices[q.active[i]].stage # "FREE" /\ q.voices[q.active[i]].position = i
  BY <1>8, <1>9 DEF ListsOK
<1>13. \A w \in Voices : q.voices[w].stage # "FREE" =>
         q.voices[w].position \in 1 .. Len(q.active) /\ q.active[q.voices[w].position] = w
  BY <1>8 DEF ListsOK
<1>14. \A i, k \in 1 .. Len(q.free) : q.free[i] = q.free[k] => i = k
  BY <1>6 DEF ListsOK
<1>15. \A i \in 1 .. Len(q.free) : q.voices[q.free[i]].stage = "FREE"
  BY <1>6, <1>8, <1>10 DEF ListsOK
<1>16. \A w \in Voices : q.voices[w].stage = "FREE" => \E i \in 1 .. Len(q.free) : q.free[i] = w
  <2> SUFFICES ASSUME NEW w \in Voices, q.voices[w].stage = "FREE"
               PROVE  \E i \in 1 .. Len(q.free) : q.free[i] = w
    OBVIOUS
  <2>1. PICK i \in 1 .. F : a.free[i] = w
    BY <1>8 DEF ListsOK
  <2> QED
    BY <1>6, <2>1
<1> QED
  BY <1>11, <1>12, <1>13, <1>14, <1>15, <1>16 DEF ListsOK

(* A slot is taken off the stack and put at the end of the list. *)
Activated(a, v, e, q) ==
  /\ q \in HandlerRecord /\ q.active = Append(a.active, v) /\ q.free = Front(a.free)
  /\ q.voices = [a.voices EXCEPT ![v] = e]
  /\ e \in VoiceRecord /\ e.stage # "FREE" /\ e.position = Len(a.active) + 1

(* A published voice joins the list. *)
LEMMA ActivateResult ==
  ASSUME NEW a \in HandlerRecord, ListsOK(a), a.free # << >>, NEW v, v = Last(a.free),
         NEW e, NEW q, Activated(a, v, e, q)
  PROVE  ListsOK(q)
<1> DEFINE F == Len(a.free)
           L == Len(a.active)
           y == q.voices
<1>0. /\ q \in HandlerRecord /\ q.active = Append(a.active, v) /\ q.free = Front(a.free)
      /\ y = [a.voices EXCEPT ![v] = e] /\ y = q.voices
      /\ e \in VoiceRecord /\ e.stage # "FREE" /\ e.position = Len(a.active) + 1
  BY DEF Activated
<1> HIDE DEF y
<1>1. /\ a.free \in Seq(Voices) /\ a.active \in Seq(Voices) /\ a.voices \in [Voices -> VoiceRecord]
  BY DEF HandlerRecord
<1>2. /\ F \in Nat \ {0} /\ Len(q.free) = F - 1
      /\ \A i \in 1 .. F - 1 : q.free[i] = a.free[i]
      /\ v = a.free[F] /\ v \in Voices
  <2>1. /\ F \in Nat \ {0} /\ Len(Front(a.free)) = F - 1
        /\ \A i \in 1 .. F - 1 : Front(a.free)[i] = a.free[i]
        /\ v = a.free[F] /\ v \in Voices
    BY <1>1, FrontLast
  <2> QED
    BY <1>0, <2>1
<1>3. /\ L \in Nat /\ Len(q.active) = L + 1 /\ (\A i \in 1 .. L : q.active[i] = a.active[i])
      /\ q.active[L + 1] = v
  BY <1>0, <1>1, <1>2, AppendTop
<1>4. a.voices[v].stage = "FREE"
  BY <1>2 DEF ListsOK
<1>5. y[v] = e /\ \A w \in Voices \ {v} : y[w] = a.voices[w]
  BY <1>0, <1>1, <1>2
<1>6. \A i \in 1 .. L : a.active[i] \in Voices /\ a.active[i] # v
  BY <1>1, <1>4 DEF ListsOK
<1>7. /\ L + F = VoiceCount /\ VoiceCount \in Nat
      /\ \A i \in 1 .. L : a.voices[a.active[i]].stage # "FREE" /\ a.voices[a.active[i]].position = i
      /\ \A w \in Voices : a.voices[w].stage # "FREE" =>
           a.voices[w].position \in 1 .. L /\ a.active[a.voices[w].position] = w
      /\ \A i, k \in 1 .. F : a.free[i] = a.free[k] => i = k
      /\ \A i \in 1 .. F : a.voices[a.free[i]].stage = "FREE"
      /\ \A w \in Voices : a.voices[w].stage = "FREE" => \E i \in 1 .. F : a.free[i] = w
  BY RuntimeNumbers DEF ListsOK
<1>8. e.position = L + 1 /\ e.stage # "FREE"
  BY <1>0
<1> HIDE DEF F, L
<1>9. Len(q.active) + Len(q.free) = VoiceCount
  <2>1. (L + 1) + (F - 1) = L + F
    BY <1>2, <1>3
  <2> QED
    BY <1>2, <1>3, <1>7, <2>1
<1>10. \A i \in 1 .. Len(q.active) :
         q.voices[q.active[i]].stage # "FREE" /\ q.voices[q.active[i]].position = i
  <2> SUFFICES ASSUME NEW i \in 1 .. L + 1
               PROVE  y[q.active[i]].stage # "FREE" /\ y[q.active[i]].position = i
    BY <1>0, <1>3
  <2>1. CASE i = L + 1
    BY <1>3, <1>5, <1>8, <2>1
  <2>2. CASE i # L + 1
    <3>1. i \in 1 .. L
      BY <1>3, <2>2
    <3> QED
      BY <1>3, <1>5, <1>6, <1>7, <3>1
  <2> QED
    BY <2>1, <2>2
<1>11. \A w \in Voices : q.voices[w].stage # "FREE" =>
         q.voices[w].position \in 1 .. Len(q.active) /\ q.active[q.voices[w].position] = w
  <2> SUFFICES ASSUME NEW w \in Voices, y[w].stage # "FREE"
               PROVE  y[w].position \in 1 .. L + 1 /\ q.active[y[w].position] = w
    BY <1>0, <1>3
  <2>1. CASE w = v
    BY <1>3, <1>5, <1>8, <2>1
  <2>2. CASE w # v
    <3>1. y[w] = a.voices[w] /\ a.voices[w].position \in 1 .. L
          /\ a.active[a.voices[w].position] = w
      BY <1>5, <1>7, <2>2
    <3> QED
      BY <1>3, <3>1
  <2> QED
    BY <2>1, <2>2
<1>12. \A i \in 1 .. F - 1 : i \in 1 .. F /\ i # F
  BY <1>2
<1>13. \A i, k \in 1 .. Len(q.free) : q.free[i] = q.free[k] => i = k
  BY <1>2, <1>7, <1>12
<1>14. \A i \in 1 .. F - 1 : a.free[i] \in Voices /\ a.free[i] # v
  <2>1. F \in 1 .. F /\ \A i \in 1 .. F : a.free[i] \in Voices
    BY <1>1, <1>2 DEF F
  <2> QED
    BY <1>2, <1>7, <1>12, <2>1
<1>15. \A i \in 1 .. Len(q.free) : q.voices[q.free[i]].stage = "FREE"
  <2>1. \A i \in 1 .. F - 1 : y[a.free[i]].stage = "FREE"
    BY <1>5, <1>7, <1>12, <1>14
  <2>2. y = q.voices
    BY <1>0
  <2> QED
    BY <1>2, <2>1, <2>2
<1>16. \A w \in Voices : q.voices[w].stage = "FREE" => \E i \in 1 .. Len(q.free) : q.free[i] = w
  <2> SUFFICES ASSUME NEW w \in Voices, y[w].stage = "FREE"
               PROVE  \E i \in 1 .. Len(q.free) : q.free[i] = w
    BY <1>0
  <2>1. w # v /\ a.voices[w].stage = "FREE"
    BY <1>5, <1>8
  <2>2. PICK i \in 1 .. F : a.free[i] = w
    BY <1>7, <2>1
  <2>3. i \in 1 .. F - 1
    BY <1>2, <2>1, <2>2
  <2> QED
    BY <1>2, <2>2, <2>3
<1> QED
  BY <1>9, <1>10, <1>11, <1>13, <1>15, <1>16 DEF ListsOK

(* The record with the new voice in its slot, before the START. *)
Prepared(a, v, e, b) ==
  /\ v \in Voices /\ b \in HandlerRecord /\ b.free = Front(a.free)
  /\ b.voices = [a.voices EXCEPT ![v] = e] /\ b.active = a.active
  /\ b.channels = a.channels /\ b.instance = a.instance /\ b.fpga = a.fpga
  /\ b.log = a.log /\ b.left = a.left /\ b.ok = a.ok

(* The voice is off the stack and prepared. *)
LEMMA TakenOff ==
  ASSUME NEW a \in HandlerRecord, a.free # << >>, NEW v, v = Last(a.free), NEW e \in VoiceRecord,
         NEW b, b = [a EXCEPT !.free = Front(@), !.stamp = @ + 1, !.voices[v] = e]
  PROVE  Prepared(a, v, e, b)
<1> DEFINE f == Front(a.free)
           s == a.stamp + 1
           y == [a.voices EXCEPT ![v] = e]
<1>1. a.free \in Seq(Voices) /\ a.stamp \in Nat /\ a.voices \in [Voices -> VoiceRecord]
  BY DEF HandlerRecord
<1>2. f \in Seq(Voices) /\ v \in Voices
  BY <1>1, FrontLast
<1>3. s \in Nat /\ y \in [Voices -> VoiceRecord]
  BY <1>1, <1>2
<1>4. b = [a EXCEPT !.free = f, !.stamp = s, !.voices = y]
  BY DEF HandlerRecord
<1>5. f = Front(a.free) /\ y = [a.voices EXCEPT ![v] = e]
  OBVIOUS
<1> HIDE DEF f, s, y
<1>6. /\ b \in HandlerRecord /\ b.free = f /\ b.voices = y /\ b.active = a.active
      /\ b.channels = a.channels /\ b.instance = a.instance /\ b.fpga = a.fpga
      /\ b.log = a.log /\ b.left = a.left /\ b.ok = a.ok
  BY <1>2, <1>3, <1>4 DEF HandlerRecord
<1> QED
  BY <1>2, <1>5, <1>6 DEF Prepared

(* The record of a START the sink refuses. *)
LEMMA AbandonFields ==
  ASSUME NEW b \in HandlerRecord, NEW v \in Voices,
         NEW q, q = AbandonUnpublishedVoice([b EXCEPT !.ok = FALSE], v)
  PROVE  /\ q \in HandlerRecord /\ q.voices = [b.voices EXCEPT ![v] = Emptied(b.voices[v])]
         /\ q.free = Append(b.free, v) /\ q.active = b.active /\ q.channels = b.channels
         /\ q.instance = b.instance /\ ~q.ok
<1> DEFINE z == [b EXCEPT !.ok = FALSE]
           y == [b.voices EXCEPT ![v] = Emptied(b.voices[v])]
           f == Append(b.free, v)
<1>1. /\ z \in HandlerRecord /\ z.voices = b.voices /\ z.free = b.free /\ z.active = b.active
      /\ z.channels = b.channels /\ z.instance = b.instance /\ z.ok = FALSE
  BY DEF HandlerRecord
<1>2. q = [z EXCEPT !.voices[v] = Emptied(@), !.free = Append(@, v)]
  BY DEF AbandonUnpublishedVoice
<1> HIDE DEF z
<1>3. q = [z EXCEPT !.voices = y, !.free = f]
  BY <1>1, <1>2 DEF HandlerRecord
<1>4. y \in [Voices -> VoiceRecord]
  <2>1. b.voices \in [Voices -> VoiceRecord]
    BY DEF HandlerRecord
  <2>2. Emptied(b.voices[v]) \in VoiceRecord
    BY <2>1, EmptiedFields
  <2> QED
    BY <2>1, <2>2
<1>5. f \in Seq(Voices)
  BY DEF HandlerRecord
<1>6. f = Append(b.free, v) /\ y = [b.voices EXCEPT ![v] = Emptied(b.voices[v])]
  OBVIOUS
<1> HIDE DEF f, y
<1> QED
  BY <1>1, <1>3, <1>4, <1>5, <1>6 DEF HandlerRecord

(* And after it. *)
Published(b, v, q) ==
  /\ q \in HandlerRecord /\ q.active = Append(b.active, v) /\ q.free = b.free
  /\ q.voices = [b.voices EXCEPT ![v].position = Len(b.active) + 1]
  /\ q.fpga = [b.fpga EXCEPT ![v] = [generation |-> b.voices[v].generation, sounding |-> TRUE]]
  /\ q.channels = b.channels /\ q.instance = b.instance /\ q.log = b.log /\ q.ok = b.ok

(* The record of a START the sink takes. *)
LEMMA ActivateFields ==
  ASSUME NEW b \in HandlerRecord, NEW v \in Voices,
         NEW q, q = ActivateVoice(Started(b, v), v)
  PROVE  Published(b, v, q)
<1> DEFINE t == Started(b, v)
           l == b.left - 1
           k == [generation |-> b.voices[v].generation, sounding |-> TRUE]
           g == [b.fpga EXCEPT ![v] = k]
           a == Append(b.active, v)
           i == Len(b.active) + 1
           y == [b.voices EXCEPT ![v].position = i]
<1>1. /\ b.voices \in [Voices -> VoiceRecord] /\ b.fpga \in [Voices -> SlotRecord]
      /\ b.left \in Int /\ b.active \in Seq(Voices)
  BY DEF HandlerRecord
<1>2. k \in SlotRecord
  BY <1>1 DEF VoiceRecord, SlotRecord
<1>3. t = [b EXCEPT !.left = l, !.fpga = g]
  BY DEF Started, HandlerRecord
<1>4. /\ k = [generation |-> b.voices[v].generation, sounding |-> TRUE]
      /\ a = Append(b.active, v) /\ i = Len(b.active) + 1
  OBVIOUS
<1> HIDE DEF k
<1>5. l \in Int /\ g \in [Voices -> SlotRecord] /\ g = [b.fpga EXCEPT ![v] = k]
  BY <1>1, <1>2
<1>6. i \in Nat /\ a \in Seq(Voices)
  BY <1>1, AppendTop
<1> HIDE DEF l, g, a, i, t
<1>7. /\ t \in HandlerRecord /\ t.voices = b.voices /\ t.fpga = g /\ t.active = b.active
      /\ t.free = b.free /\ t.channels = b.channels /\ t.instance = b.instance
      /\ t.log = b.log /\ t.ok = b.ok
  BY <1>3, <1>5 DEF HandlerRecord
<1>8. q = [t EXCEPT !.active = Append(@, v), !.voices[v].position = Len(t.active) + 1]
  BY DEF ActivateVoice, t
<1>9. q = [t EXCEPT !.active = a, !.voices = y]
  BY <1>4, <1>7, <1>8 DEF HandlerRecord
<1>10. y \in [Voices -> VoiceRecord] /\ y = [b.voices EXCEPT ![v].position = i]
  <2> DEFINE e == [b.voices[v] EXCEPT !.position = i]
  <2>1. e \in VoiceRecord
    BY <1>1, <1>6, PositionSet
  <2>2. y = [b.voices EXCEPT ![v] = e]
    OBVIOUS
  <2> HIDE DEF e
  <2> QED
    BY <1>1, <2>1, <2>2
<1> HIDE DEF y
<1>11. /\ q \in HandlerRecord /\ q.active = a /\ q.voices = y /\ q.fpga = t.fpga
       /\ q.free = t.free /\ q.channels = t.channels /\ q.instance = t.instance
       /\ q.log = t.log /\ q.ok = t.ok
  BY <1>6, <1>7, <1>9, <1>10 DEF HandlerRecord
<1> QED
  BY <1>4, <1>5, <1>7, <1>10, <1>11 DEF Published

(* One layer: steal, prepare, START, and activate or give back. *)
LEMMA StartLayerResult ==
  ASSUME NEW r \in HandlerRecord, ListsOK(r), r.ok, SoundOK(r), NotesOK(r),
         NEW c \in Channels, NEW n \in Notes, NEW layer \in Layer, periodic \in BOOLEAN,
         NEW q, q = StartLayer(r, c, n, layer)
  PROVE  Layered(r, q, c, n)
<1> DEFINE a == WithFreeVoice(r)
           v == Last(a.free)
           e == NewVoice(a, v, c, n, layer)
           b == [a EXCEPT !.free = Front(@), !.stamp = @ + 1, !.voices[v] = e]
<1>1. q = IF b.left = 0 THEN AbandonUnpublishedVoice([b EXCEPT !.ok = FALSE], v)
          ELSE ActivateVoice(Started(b, v), v)
  <2>1. q = IF ~r.ok THEN r
            ELSE IF b.left = 0 THEN AbandonUnpublishedVoice([b EXCEPT !.ok = FALSE], v)
            ELSE ActivateVoice(Started(b, v), v)
    BY Zenon DEF StartLayer
  <2> HIDE DEF b, v
  <2> QED
    BY <2>1
<1>2. WithFree(r, a)
  BY FreeVoiceResult
<1> HIDE DEF a
<1>3. /\ a \in HandlerRecord /\ ListsOK(a) /\ a.free # << >>
      /\ a.channels = r.channels /\ a.instance = r.instance
      /\ a.fpga = r.fpga /\ a.log = r.log /\ a.ok = r.ok
      /\ \A w \in Voices : a.voices[w].generation = r.voices[w].generation
      /\ \A w \in Voices : w = v \/ Moved(r.voices[w], a.voices[w])
  BY <1>2 DEF WithFree, SameRest
<1>4. v = Last(a.free) /\ v \in Voices
  BY <1>3, FrontLast DEF HandlerRecord
<1> HIDE DEF v
<1>5. /\ e \in VoiceRecord /\ Newborn(a, v, e, c, n)
      /\ e.generation = a.voices[v].generation + 1
  BY <1>3, <1>4, NewVoiceFields
<1> HIDE DEF e
<1>6. /\ b \in HandlerRecord /\ b.free = Front(a.free)
      /\ b.voices = [a.voices EXCEPT ![v] = e] /\ b.active = a.active
      /\ b.channels = a.channels /\ b.instance = a.instance /\ b.fpga = a.fpga
      /\ b.log = a.log /\ b.left = a.left /\ b.ok = a.ok
  <2>1. b = [a EXCEPT !.free = Front(@), !.stamp = @ + 1, !.voices[v] = e]
    OBVIOUS
  <2> HIDE DEF b
  <2>2. Prepared(a, v, e, b)
    BY <1>3, <1>4, <1>5, <2>1, TakenOff
  <2> QED
    BY <2>2 DEF Prepared
<1> HIDE DEF b
<1>7. /\ a.voices \in [Voices -> VoiceRecord] /\ a.voices[v].generation \in Nat
      /\ \A w \in Voices : r.voices[w].generation \in Nat
      /\ a.fpga \in [Voices -> SlotRecord] /\ b.voices[v] = e
      /\ e.generation > r.voices[v].generation /\ e.generation \in Nat
  <2>1. a.voices \in [Voices -> VoiceRecord] /\ a.fpga \in [Voices -> SlotRecord]
        /\ r.voices \in [Voices -> VoiceRecord]
    BY <1>3 DEF HandlerRecord
  <2>2. a.voices[v].generation \in Nat /\ (\A w \in Voices : r.voices[w].generation \in Nat)
        /\ e.generation \in Nat
    BY <1>4, <1>5, <2>1 DEF VoiceRecord
  <2> QED
    BY <1>3, <1>4, <1>5, <1>6, <2>1, <2>2
<1>8. CASE b.left = 0
  <2> DEFINE f == Emptied(e)
             y == [a.voices EXCEPT ![v] = f]
  <2>1. q = AbandonUnpublishedVoice([b EXCEPT !.ok = FALSE], v)
    BY <1>1, <1>8
  <2>2. /\ q \in HandlerRecord /\ q.voices = [b.voices EXCEPT ![v] = Emptied(b.voices[v])]
        /\ q.free = Append(b.free, v) /\ q.active = b.active /\ q.channels = b.channels
        /\ q.instance = b.instance /\ ~q.ok
    BY <1>4, <1>6, <2>1, AbandonFields
  <2>3. f \in VoiceRecord /\ f.stage = "FREE" /\ f.generation = e.generation
    BY <1>5, EmptiedFields
  <2>4. q.voices = y
    <3> HIDE DEF f
    <3>1. q.voices = [b.voices EXCEPT ![v] = f]
      BY <1>7, <2>2 DEF f
    <3> QED
      BY <1>6, <1>7, <3>1
  <2> HIDE DEF f
  <2>5. y \in [Voices -> VoiceRecord] /\ y = [a.voices EXCEPT ![v] = f]
    BY <1>4, <1>7, <2>3
  <2>6. y[v] = f /\ \A w \in Voices \ {v} : y[w] = a.voices[w]
    BY <1>4, <1>7
  <2> HIDE DEF y
  <2>7. q.active = a.active /\ q.free = Append(Front(a.free), v)
    BY <1>6, <2>2
  <2>8. ListsOK(q)
    BY <1>3, <1>4, <2>2, <2>3, <2>4, <2>5, <2>7, AbandonResult
  <2>9. \A w \in Voices : q.voices[w].generation >= r.voices[w].generation
    BY <1>3, <1>7, <2>3, <2>4, <2>6
  <2> QED
    BY <1>3, <1>6, <2>2, <2>8, <2>9 DEF Layered
<1>9. CASE b.left # 0
  <2> DEFINE i == Len(a.active) + 1
             f == [e EXCEPT !.position = i]
             y == [a.voices EXCEPT ![v] = f]
             k == [generation |-> e.generation, sounding |-> TRUE]
  <2>1. q = ActivateVoice(Started(b, v), v)
    BY <1>1, <1>9
  <2>2. /\ q \in HandlerRecord /\ q.active = Append(b.active, v) /\ q.free = b.free
        /\ q.voices = [b.voices EXCEPT ![v].position = Len(b.active) + 1]
        /\ q.fpga = [b.fpga EXCEPT ![v] = [generation |-> b.voices[v].generation, sounding |-> TRUE]]
        /\ q.channels = b.channels /\ q.instance = b.instance /\ q.log = b.log /\ q.ok = b.ok
    <3>1. Published(b, v, q)
      BY <1>4, <1>6, <2>1, ActivateFields
    <3> QED
      BY <3>1 DEF Published
  <2>3. i \in Nat /\ i = Len(a.active) + 1
    BY <1>3, AppendTop DEF HandlerRecord
  <2>4. q.voices = [b.voices EXCEPT ![v].position = i] /\ q.fpga = [a.fpga EXCEPT ![v] = k]
    BY <1>6, <1>7, <2>2
  <2> HIDE DEF i
  <2>5. f \in VoiceRecord /\ Moved(e, f) /\ f.position = i
    BY <1>5, <2>3, PositionSet DEF Moved
  <2>6. q.voices = y
    <3>1. q.voices = [b.voices EXCEPT ![v] = f]
      BY <1>7, <2>4
    <3> HIDE DEF f
    <3> QED
      BY <1>6, <1>7, <3>1
  <2> HIDE DEF f, k
  <2>7. y \in [Voices -> VoiceRecord] /\ y = [a.voices EXCEPT ![v] = f]
    BY <1>4, <1>7, <2>5
  <2>8. y[v] = f /\ \A w \in Voices \ {v} : y[w] = a.voices[w]
    BY <1>4, <1>7
  <2> HIDE DEF y
  <2>9. q.fpga[v] = k /\ \A w \in Voices \ {v} : q.fpga[w] = a.fpga[w]
    BY <1>4, <1>7, <2>4
  <2>10. Newborn(r, v, f, c, n)
    <3>1. Newborn(r, v, e, c, n)
      BY <1>3, <1>5, <1>7 DEF Newborn
    <3> QED
      BY <2>5, <3>1 DEF Newborn, Moved, SameVoice, Target, Value
  <2>11. ListsOK(q)
    <3>1. f.stage # "FREE"
      BY <2>10 DEF Newborn
    <3>2. q.active = Append(a.active, v) /\ q.free = Front(a.free) /\ f.position = Len(a.active) + 1
      BY <1>6, <2>2, <2>3, <2>5
    <3>3. Activated(a, v, f, q)
      BY <2>2, <2>5, <2>6, <2>7, <3>1, <3>2 DEF Activated
    <3> QED
      BY <1>3, <1>4, <3>3, ActivateResult
  <2>12. f.generation = e.generation
    BY <2>5 DEF Moved, SameVoice
  <2>13. \A w \in Voices : q.voices[w].generation >= r.voices[w].generation
    BY <1>3, <1>7, <2>6, <2>8, <2>12
  <2>14. \A w \in Voices \ {v} : Moved(r.voices[w], q.voices[w])
    BY <1>3, <2>6, <2>8
  <2>15. SoundOK(q)
    <3>1. ASSUME NEW w \in Voices, q.fpga[w].sounding
          PROVE  q.voices[w].stage # "FREE" /\ q.voices[w].generation = q.fpga[w].generation
      <4>1. CASE w = v
        BY <2>6, <2>8, <2>9, <2>10, <2>12, <4>1 DEF Newborn, k
      <4>2. CASE w # v
        BY <1>3, <2>9, <2>14, <3>1, <4>2 DEF SoundOK, Moved, SameVoice
      <4> QED
        BY <4>1, <4>2
    <3>2. ASSUME NEW w \in Voices, NEW g \in Nat, <<w, g>> \in q.log
          PROVE  g <= q.voices[w].generation /\ ~(q.fpga[w].sounding /\ q.fpga[w].generation = g)
      <4>1. /\ g <= r.voices[w].generation
            /\ ~(r.fpga[w].sounding /\ r.fpga[w].generation = g)
        BY <1>3, <1>6, <2>2, <3>2 DEF SoundOK
      <4>2. CASE w = v
        <5>1. q.fpga[w].generation = e.generation /\ q.voices[w].generation = e.generation
          BY <2>6, <2>8, <2>9, <2>12, <4>2 DEF k
        <5> QED
          BY <1>7, <4>1, <4>2, <5>1
      <4>3. CASE w # v
        BY <1>3, <2>9, <2>14, <4>1, <4>3 DEF Moved, SameVoice
      <4> QED
        BY <4>2, <4>3
    <3> QED
      BY <3>1, <3>2 DEF SoundOK
  <2>16. NotesOK(q)
    <3> SUFFICES ASSUME NEW w \in Voices
                 PROVE  NoteOK(q.voices[w], q.channels[q.voices[w].channel])
      BY DEF NotesOK
    <3>1. CASE w = v
      BY <2>6, <2>8, <2>10, <3>1 DEF Newborn, NoteOK
    <3>2. CASE w # v
      <4>1. Moved(r.voices[w], q.voices[w]) /\ q.channels = r.channels
        BY <1>3, <1>6, <2>2, <2>14, <3>2
      <4>2. NoteOK(r.voices[w], r.channels[r.voices[w].channel])
        BY DEF NotesOK
      <4> QED
        BY <4>1, <4>2 DEF NoteOK, Moved, SameVoice, Open
    <3> QED
      BY <3>1, <3>2
  <2>17. \A w \in Voices : q.voices[w].stage # "FREE" =>
           Moved(r.voices[w], q.voices[w]) \/ Newborn(r, w, q.voices[w], c, n)
    BY <2>6, <2>8, <2>10, <2>14
  <2>18. q.channels = r.channels /\ q.instance = r.instance /\ q \in HandlerRecord
    BY <1>3, <1>6, <2>2
  <2> QED
    BY <2>11, <2>13, <2>15, <2>16, <2>17, <2>18 DEF Layered
<1> QED
  BY <1>8, <1>9

(* A layer after layers. *)
LEMMA LayeredSelf ==
  ASSUME NEW r \in HandlerRecord, ListsOK(r), SoundOK(r), NotesOK(r), NEW c, NEW n
  PROVE  Layered(r, r, c, n)
<1>1. \A w \in Voices : r.voices[w].generation \in Nat
  BY DEF HandlerRecord, VoiceRecord
<1> QED
  BY <1>1, MovedSelf DEF Layered

(* One layer after another. *)
LEMMA LayeredTrans ==
  ASSUME NEW r \in HandlerRecord, NEW p, NEW q, NEW c, NEW n, Layered(r, p, c, n), p.ok,
         Layered(p, q, c, n)
  PROVE  Layered(r, q, c, n)
<1>1. /\ q \in HandlerRecord /\ ListsOK(q) /\ q.channels = r.channels /\ q.instance = r.instance
      /\ p.channels = r.channels /\ p.instance = r.instance /\ p \in HandlerRecord
      /\ q.ok => SoundOK(q) /\ NotesOK(q)
  BY DEF Layered
<1>2. \A w \in Voices : /\ r.voices[w].generation \in Nat /\ p.voices[w].generation \in Nat
                        /\ q.voices[w].generation \in Nat
                        /\ p.voices[w].generation >= r.voices[w].generation
                        /\ q.voices[w].generation >= p.voices[w].generation
  <2>1. \A w \in Voices : /\ r.voices[w] \in VoiceRecord /\ p.voices[w] \in VoiceRecord
                          /\ q.voices[w] \in VoiceRecord
    BY <1>1 DEF HandlerRecord
  <2> QED
    BY <2>1 DEF Layered, VoiceRecord
<1>3. \A w \in Voices : q.voices[w].generation >= r.voices[w].generation
  BY <1>2
<1>4. ASSUME q.ok, NEW w \in Voices, q.voices[w].stage # "FREE"
      PROVE  Moved(r.voices[w], q.voices[w]) \/ Newborn(r, w, q.voices[w], c, n)
  <2>1. CASE Newborn(p, w, q.voices[w], c, n)
    BY <1>1, <1>2, <2>1 DEF Newborn
  <2>2. CASE Moved(p.voices[w], q.voices[w])
    <3>1. p.voices[w].stage # "FREE"
      BY <1>4, <2>2 DEF Moved
    <3>2. CASE Moved(r.voices[w], p.voices[w])
      BY <2>2, <3>2 DEF Moved, SameVoice
    <3>3. CASE Newborn(r, w, p.voices[w], c, n)
      BY <2>2, <3>3 DEF Moved, SameVoice, Newborn, Target, Value
    <3> QED
      BY <3>1, <3>2, <3>3 DEF Layered
  <2> QED
    BY <1>4, <2>1, <2>2 DEF Layered
<1> QED
  BY <1>1, <1>3, <1>4 DEF Layered

(* Conflicting voices end first. *)
Cut(r) == Underway(r) /\ r.channels = rt.channels /\ NotesOK(r)

(* The exclusive class of one layer. *)
LEMMA ReleaseExclusiveStep ==
  ASSUME RuntimeInv, NEW r, Cut(r), NEW layer, NEW q, q = ReleaseExclusive(r, layer)
  PROVE  Cut(q)
<1> DEFINE vs == {v \in ActiveVoices(r) : Open(r.voices[v]) /\ r.voices[v].exclusive = layer.exclusive}
<1>1. CASE layer.exclusive = 0 \/ ~r.ok
  BY <1>1 DEF ReleaseExclusive
<1>2. CASE ~(layer.exclusive = 0 \/ ~r.ok)
  <2>1. q = ReleaseVoices(r, vs)
    BY <1>2 DEF ReleaseExclusive
  <2>2. r \in HandlerRecord /\ Underway(r) /\ ListsOK(r)
    BY UnderwayLists DEF Cut, Underway
  <2>3. vs \subseteq Voices /\ \A v \in vs : r.voices[v].stage # "FREE"
    BY <2>2, ActiveIsNotFree
  <2> HIDE DEF vs
  <2>4. /\ q \in HandlerRecord /\ SameLists(r, q) /\ SameSound(r, q)
        /\ q.channels = r.channels /\ Fades(r.voices, q.voices)
        /\ \A v \in Voices : q.voices[v] = r.voices[v] \/ q.voices[v].stage = "RELEASED"
    BY <2>1, <2>2, <2>3, ReleaseResult
  <2>5. Underway(q)
    BY <2>2, <2>4, UnderwayStep
  <2>6. NotesOK(q)
    <3> SUFFICES ASSUME NEW v \in Voices
                 PROVE  NoteOK(q.voices[v], q.channels[q.voices[v].channel])
      BY DEF NotesOK
    <3>1. CASE q.voices[v] = r.voices[v]
      BY <2>4, <3>1 DEF Cut, NotesOK
    <3>2. CASE q.voices[v].stage = "RELEASED"
      BY <3>2 DEF NoteOK, Open
    <3> QED
      BY <2>4, <3>1, <3>2
  <2> QED
    BY <2>4, <2>5, <2>6 DEF Cut
<1> QED
  BY <1>1, <1>2

(* Of all layers. *)
LEMMA ConflictsResult ==
  ASSUME RuntimeInv, NEW r, Cut(r), NEW layers \in Seq(Layer)
  PROVE  Cut(ReleaseConflicts(r, layers))
<1> DEFINE n == Len(layers)
           A == {x \in HandlerRecord : Cut(x)}
           V == [k \in 0 .. n |-> A]
           G == [k \in 1 .. n |-> [x \in A |-> ReleaseExclusive(x, layers[k])]]
           Cuts(f) == f = [k \in 0 .. n |-> IF k = 0 THEN r ELSE ReleaseExclusive(f[k - 1], layers[k])]
<1>1. n \in Nat
  OBVIOUS
<1>2. r \in A
  BY DEF Cut, Underway
<1>3. ASSUME NEW x \in A, NEW layer PROVE ReleaseExclusive(x, layer) \in A
  <2>1. Cut(ReleaseExclusive(x, layer))
    BY <1>3, ReleaseExclusiveStep
  <2> QED
    BY <2>1 DEF Cut, Underway
<1>4. \A x \in A : Cut(x)
  OBVIOUS
<1> HIDE DEF n, A
<1>5. PICK f : Runs(f, r, G, n) /\ \A k \in 0 .. n : f[k] \in V[k]
  <2>1. r \in V[0]
    BY <1>1, <1>2
  <2>2. \A k \in 1 .. n : \A x \in V[k - 1] : G[k][x] \in V[k]
    BY <1>1, <1>3
  <2> HIDE DEF V, G
  <2> QED
    BY <1>1, <2>1, <2>2, RunInExists
<1>6. Cuts(f)
  <2>1. ASSUME NEW k \in 0 .. n
        PROVE  (IF k = 0 THEN r ELSE G[k][f[k - 1]])
                 = IF k = 0 THEN r ELSE ReleaseExclusive(f[k - 1], layers[k])
    <3>1. CASE k = 0
      BY <3>1
    <3>2. CASE k # 0
      <4>1. k \in 1 .. n /\ k - 1 \in 0 .. n
        BY <1>1, <3>2
      <4>2. f[k - 1] \in A
        BY <1>5, <4>1
      <4> QED
        BY <3>2, <4>1, <4>2
    <3> QED
      BY <3>1, <3>2
  <2> HIDE DEF G
  <2> QED
    BY <1>5, <2>1 DEF Runs
<1> DEFINE cut == CHOOSE h : Cuts(h)
<1>7. Cuts(cut)
  BY <1>6
<1>8. ReleaseConflicts(r, layers) = cut[n]
  BY DEF ReleaseConflicts, n
<1> HIDE DEF cut
<1>9. \A k \in 0 .. n : cut[k] \in V[k]
  <2>1. cut[0] \in V[0]
    BY <1>1, <1>2, <1>7
  <2>2. ASSUME NEW k \in 1 .. n, cut[k - 1] \in V[k - 1] PROVE cut[k] \in V[k]
    <3>1. k \in 0 .. n /\ k - 1 \in 0 .. n /\ k # 0
      BY <1>1
    <3>2. cut[k] = ReleaseExclusive(cut[k - 1], layers[k])
      BY <1>7, <3>1
    <3> QED
      BY <1>3, <2>2, <3>1, <3>2
  <2> HIDE DEF V, Cuts
  <2> QED
    BY <1>1, <2>1, <2>2, RunStaysIn
<1> QED
  BY <1>1, <1>4, <1>8, <1>9

(* The layers start one after the other. *)
LEMMA LayersResult ==
  ASSUME NEW r \in HandlerRecord, ListsOK(r), SoundOK(r), NotesOK(r), periodic \in BOOLEAN,
         NEW c \in Channels, NEW note \in Notes, NEW layers \in Seq(Layer)
  PROVE  Layered(r, StartLayers(r, c, note, layers), c, note)
<1> DEFINE n == Len(layers)
           A == {x \in HandlerRecord : Layered(r, x, c, note)}
           V == [k \in 0 .. n |-> A]
           G == [k \in 1 .. n |-> [x \in A |-> StartLayer(x, c, note, layers[k])]]
           Starts(f) == f = [k \in 0 .. n |->
                               IF k = 0 THEN r ELSE StartLayer(f[k - 1], c, note, layers[k])]
<1>1. n \in Nat /\ \A k \in 1 .. n : layers[k] \in Layer
  OBVIOUS
<1>2. r \in A
  BY LayeredSelf
<1>3. ASSUME NEW x \in A, NEW layer \in Layer PROVE StartLayer(x, c, note, layer) \in A
  <2> DEFINE q == StartLayer(x, c, note, layer)
  <2>1. x \in HandlerRecord /\ Layered(r, x, c, note)
    BY <1>3
  <2>2. CASE ~x.ok
    BY <1>3, <2>2 DEF StartLayer
  <2>3. CASE x.ok
    <3>1. ListsOK(x) /\ SoundOK(x) /\ NotesOK(x)
      BY <2>1, <2>3 DEF Layered
    <3>2. Layered(x, q, c, note)
      BY <2>1, <2>3, <3>1, StartLayerResult
    <3> HIDE DEF q
    <3>3. Layered(r, q, c, note)
      BY <2>1, <2>3, <3>2, LayeredTrans
    <3> QED
      BY <3>3 DEF Layered, q
  <2> QED
    BY <2>2, <2>3
<1>4. \A x \in A : Layered(r, x, c, note)
  OBVIOUS
<1> HIDE DEF n, A
<1>5. PICK f : Runs(f, r, G, n) /\ \A k \in 0 .. n : f[k] \in V[k]
  <2>1. r \in V[0]
    BY <1>1, <1>2
  <2>2. \A k \in 1 .. n : \A x \in V[k - 1] : G[k][x] \in V[k]
    BY <1>1, <1>3
  <2> HIDE DEF V, G
  <2> QED
    BY <1>1, <2>1, <2>2, RunInExists
<1>6. Starts(f)
  <2>1. ASSUME NEW k \in 0 .. n
        PROVE  (IF k = 0 THEN r ELSE G[k][f[k - 1]])
                 = IF k = 0 THEN r ELSE StartLayer(f[k - 1], c, note, layers[k])
    <3>1. CASE k = 0
      BY <3>1
    <3>2. CASE k # 0
      <4>1. k \in 1 .. n /\ k - 1 \in 0 .. n
        BY <1>1, <3>2
      <4>2. f[k - 1] \in A
        BY <1>5, <4>1
      <4> QED
        BY <3>2, <4>1, <4>2
    <3> QED
      BY <3>1, <3>2
  <2> HIDE DEF G
  <2> QED
    BY <1>5, <2>1 DEF Runs
<1> DEFINE started == CHOOSE h : Starts(h)
<1>7. Starts(started)
  BY <1>6
<1>8. StartLayers(r, c, note, layers) = started[n]
  BY DEF StartLayers, n
<1> HIDE DEF started
<1>9. \A k \in 0 .. n : started[k] \in V[k]
  <2>1. started[0] \in V[0]
    BY <1>1, <1>2, <1>7
  <2>2. ASSUME NEW k \in 1 .. n, started[k - 1] \in V[k - 1] PROVE started[k] \in V[k]
    <3>1. k \in 0 .. n /\ k - 1 \in 0 .. n /\ k # 0
      BY <1>1
    <3>2. started[k] = StartLayer(started[k - 1], c, note, layers[k])
      BY <1>7, <3>1
    <3> QED
      BY <1>1, <1>3, <2>2, <3>1, <3>2
  <2> HIDE DEF V, Starts
  <2> QED
    BY <1>1, <2>1, <2>2, RunStaysIn
<1> QED
  BY <1>1, <1>4, <1>8, <1>9

(* A voice b that was there before, as a. *)
Survivor(a, b) ==
  /\ SameVoice(a, b) /\ b.last = a.last /\ a.stage # "FREE"
  /\ Open(b) => Open(a)
  /\ a.key_released => b.key_released

(* What became of w: it survived, it was replaced, or it is free. *)
Outlives(w) ==
  rt'.voices[w].stage # "FREE" =>
    \/ Survivor(rt.voices[w], rt'.voices[w]) /\ drift'[w] = drift[w]
    \/ /\ rt'.voices[w].generation > rt.voices[w].generation
       /\ Current(w)' /\ drift'[w] = 0

(* The job is right about the survivors, and does not know the others. *)
LEMMA JobOutlives ==
  ASSUME RuntimeTypeOK, rt'.channels = rt.channels,
         UNCHANGED <<periodic, job, resets, aba>>,
         \A w \in Voices : rt'.voices[w].generation >= rt.voices[w].generation
                           /\ rt'.voices[w].generation \in Nat,
         \A w \in Voices : Outlives(w),
         young' = IF job.active
                  THEN young \union ({w \in Voices : rt'.voices[w].generation # rt.voices[w].generation}
                                       \cap DOMAIN job.snapshot)
                  ELSE {},
         IF job.active THEN JobAt(job) ELSE NoJobAt
  PROVE  (IF job.active THEN JobAt(job) ELSE NoJobAt)'
<1>1. \A v \in Voices : /\ rt.voices[v].generation \in Nat /\ rt.voices[v].channel \in Channels
                        /\ rt'.voices[v].generation >= rt.voices[v].generation
                        /\ rt'.voices[v].generation \in Nat
  <2>1. rt.voices \in [Voices -> VoiceRecord]
    BY DEF RuntimeTypeOK, RuntimeRecord
  <2> QED
    BY <2>1 DEF VoiceRecord
<1>2. ASSUME NEW v \in Voices, Survivor(rt.voices[v], rt'.voices[v])
      PROVE  /\ rt.voices[v].stage # "FREE" /\ rt'.voices[v].channel = rt.voices[v].channel
             /\ rt'.voices[v].generation = rt.voices[v].generation
             /\ Open(rt'.voices[v]) => Open(rt.voices[v])
             /\ \A g \in Groups : Told(v, g) => Told(v, g)'
  BY <1>2 DEF Survivor, SameVoice, Told, Target, Value
<1>3. CASE ~job.active
  <2>1. NoJobAt /\ young' = {} /\ resets' = {} /\ ~job'.active
    BY <1>3 DEF NoJobAt
  <2>2. \A v \in Voices : rt'.voices[v].stage # "FREE" => drift'[v] = 0
    BY <1>2, <2>1 DEF NoJobAt, Outlives
  <2>3. ASSUME NEW v \in Voices, NEW g \in Groups,
               Open(rt'.voices[v]), rt'.voices[v].channel \notin aba'
        PROVE  Told(v, g)' \/ g \in rt'.channels[rt'.voices[v].channel].dirty
    <3>1. rt'.voices[v].stage # "FREE"
      BY <2>3 DEF Open
    <3>2. CASE Current(v)'
      BY <3>2 DEF Current, Told, UpToMarks
    <3>3. CASE Survivor(rt.voices[v], rt'.voices[v])
      BY <1>2, <2>1, <2>3, <3>3 DEF NoJobAt
    <3> QED
      BY <3>1, <3>2, <3>3 DEF Outlives
  <2> QED
    BY <2>1, <2>2, <2>3 DEF NoJobAt
<1>4. CASE job.active
  <2> USE <1>4
  <2>1. JobAt(job) /\ job' = job
    OBVIOUS
  <2>2. job \in JobRecord /\ SnapshotOK(job) /\ DriftOK(job) /\ RevisionsOK(job) /\ ValuesOK(job)
    BY <2>1 DEF JobAt
  <2>3. ASSUME NEW v \in DOMAIN job.snapshot
        PROVE  /\ v \in Voices /\ job.snapshot[v] \in Nat
               /\ job.snapshot[v] <= rt'.voices[v].generation
               /\ v \in young' <=> rt'.voices[v].generation # job.snapshot[v]
    <3>1. /\ v \in Voices /\ job.snapshot[v] \in Nat /\ job.snapshot[v] <= rt.voices[v].generation
          /\ v \in young <=> rt.voices[v].generation # job.snapshot[v]
      BY <2>2 DEF SnapshotOK
    <3>2. v \in young' <=> v \in young \/ rt'.voices[v].generation # rt.voices[v].generation
      BY <3>1
    <3>3. /\ rt.voices[v].generation \in Nat /\ rt'.voices[v].generation \in Nat
          /\ rt'.voices[v].generation >= rt.voices[v].generation
      BY <1>1, <3>1
    <3> QED
      BY <3>1, <3>2, <3>3
  <2>4. SnapshotOK(job)'
    BY <2>1, <2>3 DEF SnapshotOK
  <2>5. ASSUME NEW v \in Voices, rt'.voices[v].generation > rt.voices[v].generation
        PROVE  ~KnownTo(job, v)'
    <3>1. v \in DOMAIN job.snapshot =>
            job.snapshot[v] \in Nat /\ job.snapshot[v] <= rt.voices[v].generation
      BY <2>2 DEF SnapshotOK
    <3> QED
      BY <1>1, <2>1, <2>5, <3>1 DEF KnownTo
  <2>6. ASSUME NEW v \in Voices, rt'.voices[v].generation = rt.voices[v].generation
        PROVE  KnownTo(job, v)' <=> KnownTo(job, v)
    BY <2>1, <2>6 DEF KnownTo
  <2>7. DriftOK(job)'
    <3> SUFFICES ASSUME NEW v \in Voices, rt'.voices[v].stage # "FREE"
                 PROVE  drift'[v] = IF KnownTo(job, v)' /\ v < job.cursor THEN job.elapsed ELSE 0
      BY <2>1 DEF DriftOK
    <3>1. CASE Survivor(rt.voices[v], rt'.voices[v]) /\ drift'[v] = drift[v]
      BY <1>2, <2>2, <2>6, <3>1 DEF DriftOK
    <3>2. CASE rt'.voices[v].generation > rt.voices[v].generation /\ drift'[v] = 0
      BY <2>5, <3>2
    <3> QED
      BY <3>1, <3>2 DEF Outlives
  <2>8. RevisionsOK(job)'
    BY <2>1, <2>2 DEF RevisionsOK
  <2>9. ValuesOK(job)'
    <3> SUFFICES ASSUME NEW v \in Voices, NEW g \in Groups,
                        Open(rt'.voices[v]), rt'.voices[v].channel \notin aba'
                 PROVE  \/ Told(v, g)'
                        \/ /\ g \in rt'.channels[rt'.voices[v].channel].dirty
                           /\ \/ rt'.voices[v].channel \in resets'
                              \/ rt'.channels[rt'.voices[v].channel].revision
                                   # job.revisions[rt'.voices[v].channel]
                              \/ KnownTo(job, v)' /\ job.cursor <= v
      BY <2>1 DEF ValuesOK, StillDue
    <3>1. rt'.voices[v].stage # "FREE"
      BY DEF Open
    <3>2. CASE Current(v)'
      BY <3>2 DEF Current, Told, UpToMarks
    <3>3. CASE Survivor(rt.voices[v], rt'.voices[v])
      <4>1. /\ rt'.voices[v].channel = rt.voices[v].channel /\ Open(rt.voices[v])
            /\ Told(v, g) => Told(v, g)'
            /\ KnownTo(job, v)' <=> KnownTo(job, v)
        BY <1>2, <2>6, <3>3
      <4> QED
        BY <2>2, <4>1 DEF ValuesOK, StillDue
    <3> QED
      BY <3>1, <3>2, <3>3 DEF Outlives
  <2> QED
    BY <2>1, <2>2, <2>4, <2>7, <2>8, <2>9 DEF JobAt
<1> QED
  BY <1>3, <1>4

(* What a Note On may do to the table. *)
NoteOnResult(q, c, n, inst) ==
  /\ q \in HandlerRecord /\ ListsOK(q) /\ q.channels = rt.channels
  /\ \A w \in Voices : q.voices[w].generation >= rt.voices[w].generation
  /\ q.ok => /\ SoundOK(q) /\ NotesOK(q)
             /\ \A w \in Voices : q.voices[w].stage # "FREE" =>
                  \/ Survivor(rt.voices[w], q.voices[w])
                  \/ /\ q.voices[w].generation > rt.voices[w].generation
                     /\ q.voices[w].channel = c /\ q.voices[w].note = n
                     /\ q.voices[w].instance = inst
                     /\ q.voices[w].last = Target(rt.channels, periodic, q.voices[w])

(* A record a message could leave behind. *)
LEMMA CutResult ==
  ASSUME RuntimeInv, NEW q, Cut(q), NEW c, NEW n, NEW inst
  PROVE  NoteOnResult(q, c, n, inst)
<1>1. q \in HandlerRecord /\ ListsOK(q) /\ SoundOK(q) /\ NotesOK(q) /\ q.channels = rt.channels
      /\ Fades(rt.voices, q.voices)
  BY UnderwayLists DEF Cut, Underway
<1>2. \A w \in Voices : q.voices[w].generation \in Nat
                        /\ q.voices[w].generation = rt.voices[w].generation
  <2>1. \A w \in Voices : q.voices[w] \in VoiceRecord
    BY <1>1 DEF HandlerRecord
  <2> QED
    BY <1>1, <2>1 DEF VoiceRecord, Fades, SameVoice
<1>3. \A w \in Voices : q.voices[w].stage # "FREE" => Survivor(rt.voices[w], q.voices[w])
  BY <1>1 DEF Fades, Survivor
<1>4. \A w \in Voices : q.voices[w].generation >= rt.voices[w].generation
  BY <1>2
<1> QED
  BY <1>1, <1>3, <1>4 DEF NoteOnResult

(* Conflicts first, then the layers of one new instance. *)
LEMMA NoteOnRuntimeResult ==
  ASSUME RuntimeInv, ~fault, NEW limit \in Int, NEW c \in Channels, NEW n \in Notes
  PROVE  \E inst : NoteOnResult(NoteOnRuntime(Begin(limit), c, n), c, n, inst)
<1> DEFINE r == Begin(limit)
           cut == ReleaseConflicts(r, Layers[n])
           i == cut.instance + 1
           s == [cut EXCEPT !.instance = i]
           q == StartLayers(s, c, n, Layers[n])
<1>1. Cut(r)
  BY UnderwayBegin DEF Cut
<1>2. NoteOnRuntime(r, c, n) = IF Layers[n] = << >> THEN r ELSE IF ~cut.ok THEN cut ELSE q
  BY DEF NoteOnRuntime
<1> HIDE DEF r
<1>3. Layers[n] \in Seq(Layer)
  BY RuntimeAssumption
<1>4. Cut(cut)
  BY <1>1, <1>3, ConflictsResult
<1> HIDE DEF cut
<1>5. CASE Layers[n] = << >> \/ ~cut.ok
  <2>1. NoteOnRuntime(r, c, n) = r \/ NoteOnRuntime(r, c, n) = cut
    BY <1>2, <1>5
  <2>2. NoteOnResult(NoteOnRuntime(r, c, n), c, n, 0)
    BY <1>1, <1>4, <2>1, CutResult
  <2> QED
    BY <2>2 DEF r
<1>6. CASE ~(Layers[n] = << >> \/ ~cut.ok)
  <2>1. NoteOnRuntime(r, c, n) = q
    BY <1>2, <1>6
  <2>2. /\ cut \in HandlerRecord /\ ListsOK(cut) /\ SoundOK(cut) /\ NotesOK(cut)
        /\ Fades(rt.voices, cut.voices) /\ cut.channels = rt.channels
    BY <1>4, UnderwayLists DEF Cut, Underway
  <2>3. i \in Nat
    BY <2>2 DEF HandlerRecord
  <2> HIDE DEF i
  <2>4. /\ s \in HandlerRecord /\ s.instance = i /\ s.voices = cut.voices
        /\ s.active = cut.active /\ s.free = cut.free /\ s.channels = cut.channels
        /\ s.fpga = cut.fpga /\ s.log = cut.log
    BY <2>2, <2>3 DEF HandlerRecord
  <2> HIDE DEF s
  <2>5. ListsOK(s) /\ SoundOK(s) /\ NotesOK(s)
    <3>1. ListsOK(s)
      BY <2>2, <2>4, ListsSame
    <3> QED
      BY <2>2, <2>4, <3>1 DEF SoundOK, NotesOK
  <2>6. periodic \in BOOLEAN
    BY DEF RuntimeInv, RuntimeTypeOK
  <2>7. Layered(s, q, c, n)
    BY <1>3, <2>4, <2>5, <2>6, LayersResult
  <2> HIDE DEF q
  <2>8. /\ q \in HandlerRecord /\ ListsOK(q) /\ q.channels = rt.channels
        /\ q.ok => SoundOK(q) /\ NotesOK(q)
    BY <2>2, <2>4, <2>7 DEF Layered
  <2>9. \A w \in Voices : s.voices[w].generation = rt.voices[w].generation
    BY <2>2, <2>4 DEF Fades, SameVoice
  <2>10. \A w \in Voices : q.voices[w].generation >= rt.voices[w].generation
    BY <2>7, <2>9 DEF Layered
  <2>11. ASSUME q.ok, NEW w \in Voices, q.voices[w].stage # "FREE"
         PROVE  \/ Survivor(rt.voices[w], q.voices[w])
                \/ /\ q.voices[w].generation > rt.voices[w].generation
                   /\ q.voices[w].channel = c /\ q.voices[w].note = n
                   /\ q.voices[w].instance = i
                   /\ q.voices[w].last = Target(rt.channels, periodic, q.voices[w])
    <3>1. CASE Moved(s.voices[w], q.voices[w])
      <4>1. /\ SameVoice(rt.voices[w], s.voices[w]) /\ s.voices[w].last = rt.voices[w].last
            /\ s.voices[w].stage = "FREE" <=> rt.voices[w].stage = "FREE"
            /\ Open(s.voices[w]) => Open(rt.voices[w])
            /\ rt.voices[w].key_released => s.voices[w].key_released
        BY <2>2, <2>4 DEF Fades
      <4>2. Survivor(rt.voices[w], q.voices[w])
        BY <2>11, <3>1, <4>1 DEF Moved, SameVoice, Survivor, Open
      <4> QED
        BY <4>2
    <3>2. CASE Newborn(s, w, q.voices[w], c, n)
      BY <2>2, <2>4, <2>9, <3>2 DEF Newborn
    <3> QED
      BY <2>7, <2>11, <3>1, <3>2 DEF Layered
  <2>12. NoteOnResult(q, c, n, i)
    BY <2>8, <2>10, <2>11 DEF NoteOnResult
  <2> QED
    BY <2>1, <2>12 DEF r
<1> QED
  BY <1>5, <1>6

(* The new state is right if the handler's record is. *)
LEMMA HandledInv ==
  ASSUME RuntimeTypeOK, NEW q \in HandlerRecord, Handled(q), ListsOK(q),
         UNCHANGED <<periodic, resets, aba>>,
         keys' \in [Channels -> [Notes -> Nat]], drift' \in [Voices -> Int],
         young' \subseteq Voices,
         q.ok => SoundOK(q) /\ NotesOK(q) /\ KeysCover(q),
         q.ok => (IF job.active THEN JobAt(job) ELSE NoJobAt)'
  PROVE  RuntimeInv'
<1>1. RuntimeTypeOK'
  BY HandledFields DEF RuntimeTypeOK
<1>2. ListsOK(Begin(0))'
  BY HandledKeeps
<1>3. CASE ~q.ok
  BY <1>1, <1>2, <1>3, HandledFields DEF RuntimeInv
<1>4. CASE q.ok
  <2>1. SoundOK(Begin(0))' /\ NotesOK(Begin(0))'
    BY <1>4, HandledKeeps
  <2>2. KeysOK(rt.voices)'
    <3>1. rt'.voices = q.voices /\ KeysCover(q)
      BY <1>4, HandledFields
    <3>2. \A c, n : Pressed(rt.voices, c, n)' = Pressed(q.voices, c, n)
      BY <3>1 DEF Pressed, KeyDown, Open
    <3> QED
      BY <3>1, <3>2 DEF KeysOK, KeysCover
  <2> QED
    BY <1>1, <1>2, <1>4, <2>1, <2>2 DEF RuntimeInv
<1> QED
  BY <1>3, <1>4

(* Survivors press no new note. *)
LEMMA SurvivorsPressed ==
  ASSUME NEW voices, NEW c, NEW n, NEW i \in Pressed(voices, c, n),
         NEW inst,
         \A w \in Voices : voices[w].stage # "FREE" =>
           Survivor(rt.voices[w], voices[w]) \/ (voices[w].channel = c /\ voices[w].note = n
                                                   => voices[w].instance = inst)
  PROVE  i \in Pressed(rt.voices, c, n) \/ i = inst
<1>1. PICK v \in Voices : /\ KeyDown(voices[v]) /\ voices[v].channel = c /\ voices[v].note = n
                          /\ i = voices[v].instance
  BY DEF Pressed
<1>2. voices[v].stage # "FREE"
  BY <1>1 DEF KeyDown, Open
<1>3. CASE Survivor(rt.voices[v], voices[v])
  <2>1. KeyDown(rt.voices[v]) /\ rt.voices[v].channel = c /\ rt.voices[v].note = n
        /\ i = rt.voices[v].instance
    BY <1>1, <1>3 DEF Survivor, SameVoice, KeyDown
  <2> QED
    BY <2>1 DEF Pressed
<1> QED
  BY <1>1, <1>2, <1>3

(* A Note On presses one note for one key more. *)
LEMMA NoteOnKeeps ==
  ASSUME RuntimeInv, NEW c \in Channels, NEW n \in Notes, NoteOn(c, n)
  PROVE  RuntimeInv'
<1>1. PICK limit \in Limits :
        LET r == NoteOnRuntime(Begin(limit), c, n)
        IN  /\ Handled(r)
            /\ drift' = Reset(drift, Reborn(r))
            /\ young' = IF job.active THEN young \union (Reborn(r) \cap DOMAIN job.snapshot)
                                      ELSE {}
  BY DEF NoteOn
<1> DEFINE q == NoteOnRuntime(Begin(limit), c, n)
<1>2. /\ ~fault /\ keys' = [keys EXCEPT ![c][n] = @ + 1]
      /\ UNCHANGED <<periodic, job, resets, aba>>
  BY DEF NoteOn
<1>3. RuntimeTypeOK /\ KeysOK(rt.voices) /\ limit \in Int
      /\ IF job.active THEN JobAt(job) ELSE NoJobAt
  BY <1>2, RuntimeAssumption DEF RuntimeInv
<1>4. PICK inst : NoteOnResult(q, c, n, inst)
  BY <1>2, <1>3, NoteOnRuntimeResult
<1>5. /\ Handled(q) /\ drift' = Reset(drift, Reborn(q))
      /\ young' = IF job.active THEN young \union (Reborn(q) \cap DOMAIN job.snapshot) ELSE {}
  BY <1>1
<1> HIDE DEF q
<1>6. /\ q \in HandlerRecord /\ ListsOK(q) /\ q.channels = rt.channels
      /\ q.ok => SoundOK(q) /\ NotesOK(q)
      /\ \A w \in Voices : q.voices[w].generation >= rt.voices[w].generation
  BY <1>4 DEF NoteOnResult
<1>7. /\ drift' \in [Voices -> Int]
      /\ \A w \in Voices : drift'[w] = IF w \in Reborn(q) THEN 0 ELSE drift[w]
  BY <1>3, <1>5 DEF Reset, RuntimeTypeOK
<1>8. young' \subseteq Voices
  BY <1>3, <1>5 DEF RuntimeTypeOK, Reborn
<1>9. /\ keys' \in [Channels -> [Notes -> Nat]] /\ keys[c][n] \in Nat
      /\ keys'[c][n] = keys[c][n] + 1
      /\ \A d \in Channels, m \in Notes : d # c \/ m # n => keys'[d][m] = keys[d][m]
  <2>1. keys \in [Channels -> [Notes -> Nat]] /\ keys[c][n] \in Nat /\ keys[c][n] + 1 \in Nat
    BY <1>3 DEF RuntimeTypeOK
  <2> QED
    BY <1>2, <2>1
<1>10. q.ok => KeysCover(q)
  <2> SUFFICES ASSUME q.ok, NEW d \in Channels, NEW m \in Notes
               PROVE  Cardinality(Pressed(q.voices, d, m)) <= keys'[d][m]
    BY DEF KeysCover
  <2> DEFINE P == Pressed(rt.voices, d, m)
             Q == Pressed(q.voices, d, m)
  <2>1. IsFiniteSet(P) /\ IsFiniteSet(Q) /\ Cardinality(P) \in Nat /\ Cardinality(Q) \in Nat
    BY PressedFinite
  <2>2. Cardinality(P) <= keys[d][m] /\ keys[d][m] \in Nat
    BY <1>3 DEF KeysOK, RuntimeTypeOK
  <2>3. \A w \in Voices : q.voices[w].stage # "FREE" =>
          Survivor(rt.voices[w], q.voices[w])
            \/ (q.voices[w].channel = d /\ q.voices[w].note = m => q.voices[w].instance = inst)
    BY <1>4 DEF NoteOnResult
  <2>4. CASE d = c /\ m = n
    <3>1. Q \subseteq P \union {inst}
      BY <2>3, SurvivorsPressed
    <3>2. IsFiniteSet(P \union {inst}) /\ Cardinality(P \union {inst}) \in Nat
          /\ Cardinality(P \union {inst}) <= Cardinality(P) + 1
      <4> HIDE DEF P
      <4>1. /\ IsFiniteSet(P \union {inst})
            /\ Cardinality(P \union {inst}) = IF inst \in P THEN Cardinality(P) ELSE Cardinality(P) + 1
        BY <2>1, FS_AddElement
      <4> QED
        BY <2>1, <4>1
    <3>3. Cardinality(Q) <= Cardinality(P \union {inst})
      BY <3>1, <3>2, FS_Subset
    <3>4. keys'[d][m] = keys[d][m] + 1
      BY <1>9, <2>4
    <3> HIDE DEF P, Q
    <3> QED
      BY <2>1, <2>2, <3>2, <3>3, <3>4 DEF Q
  <2>5. CASE ~(d = c /\ m = n)
    <3>1. \A w \in Voices : q.voices[w].stage # "FREE" =>
            \/ Survivor(rt.voices[w], q.voices[w])
            \/ ~(q.voices[w].channel = d /\ q.voices[w].note = m)
      BY <1>4, <2>5 DEF NoteOnResult
    <3>2. Q \subseteq P
      <4> SUFFICES ASSUME NEW i \in Q PROVE i \in P
        OBVIOUS
      <4>1. PICK v \in Voices : /\ KeyDown(q.voices[v]) /\ q.voices[v].channel = d
                                /\ q.voices[v].note = m /\ i = q.voices[v].instance
        BY DEF Pressed
      <4>2. Survivor(rt.voices[v], q.voices[v])
        BY <3>1, <4>1 DEF KeyDown, Open
      <4>3. KeyDown(rt.voices[v]) /\ rt.voices[v].channel = d /\ rt.voices[v].note = m
            /\ i = rt.voices[v].instance
        BY <4>1, <4>2 DEF Survivor, SameVoice, KeyDown
      <4> QED
        BY <4>3 DEF Pressed
    <3>3. Cardinality(Q) <= Cardinality(P)
      BY <2>1, <3>2, FS_Subset
    <3>4. keys'[d][m] = keys[d][m]
      BY <1>9, <2>5
    <3> HIDE DEF P, Q
    <3> QED
      BY <2>1, <2>2, <3>3, <3>4 DEF Q
  <2> QED
    BY <2>4, <2>5
<1>11. ASSUME q.ok PROVE (IF job.active THEN JobAt(job) ELSE NoJobAt)'
  <2>1. rt'.voices = q.voices /\ rt'.channels = rt.channels
    BY <1>5, <1>6, HandledFields
  <2>2. \A w \in Voices : rt'.voices[w].generation >= rt.voices[w].generation
                          /\ rt'.voices[w].generation \in Nat
    <3>1. \A w \in Voices : q.voices[w] \in VoiceRecord
      BY <1>6 DEF HandlerRecord
    <3> QED
      BY <1>6, <2>1, <3>1 DEF VoiceRecord
  <2>3. Reborn(q) = {w \in Voices : rt'.voices[w].generation # rt.voices[w].generation}
    BY <2>1 DEF Reborn
  <2>4. ASSUME NEW w \in Voices PROVE Outlives(w)
    <3> SUFFICES ASSUME rt'.voices[w].stage # "FREE"
                 PROVE  \/ Survivor(rt.voices[w], rt'.voices[w]) /\ drift'[w] = drift[w]
                        \/ /\ rt'.voices[w].generation > rt.voices[w].generation
                           /\ Current(w)' /\ drift'[w] = 0
      BY DEF Outlives
    <3>1. CASE Survivor(rt.voices[w], q.voices[w])
      <4>1. w \notin Reborn(q)
        BY <3>1 DEF Survivor, SameVoice, Reborn
      <4> QED
        BY <1>7, <2>1, <3>1, <4>1
    <3>2. CASE /\ q.voices[w].generation > rt.voices[w].generation
               /\ q.voices[w].last = Target(rt.channels, periodic, q.voices[w])
      <4>1. w \in Reborn(q)
        <5>1. rt.voices[w].generation \in Nat
          BY <1>3 DEF RuntimeTypeOK, RuntimeRecord, VoiceRecord
        <5> QED
          BY <2>1, <2>2, <3>2, <5>1 DEF Reborn
      <4>2. Current(w)'
        BY <1>2, <2>1, <3>2 DEF Current
      <4> QED
        BY <1>7, <2>1, <3>2, <4>1, <4>2
    <3> QED
      BY <1>4, <1>11, <2>1, <3>1, <3>2 DEF NoteOnResult
  <2>5. young' = IF job.active
                 THEN young \union ({w \in Voices : rt'.voices[w].generation # rt.voices[w].generation}
                                      \cap DOMAIN job.snapshot)
                 ELSE {}
    BY <1>5, <2>3
  <2> QED
    BY <1>2, <1>3, <2>1, <2>2, <2>4, <2>5, JobOutlives
<1> QED
  BY <1>2, <1>3, <1>5, <1>6, <1>7, <1>8, <1>9, <1>10, <1>11, HandledInv
-----------------------------------------------------------------------------
(* Completions, and the reset. *)

(* A voice reclaimed for its completion was silent. *)
LEMMA ReclaimSound ==
  ASSUME NEW r \in HandlerRecord, ListsOK(r), SoundOK(r), NotesOK(r), NEW v \in Voices,
         r.voices[v].stage # "FREE", ~r.fpga[v].sounding, NEW q, q = ReclaimVoice(r, v)
  PROVE  SoundOK(q) /\ NotesOK(q)
<1>1. /\ q \in HandlerRecord /\ SameRest(r, q)
      /\ q.voices[v].stage = "FREE" /\ q.voices[v].generation = r.voices[v].generation
      /\ \A w \in Voices \ {v} : Moved(r.voices[w], q.voices[w])
  BY ReclaimResult
<1>2. q.fpga = r.fpga /\ q.log = r.log /\ q.channels = r.channels
  BY <1>1 DEF SameRest
<1>3. ASSUME NEW w \in Voices, q.fpga[w].sounding
      PROVE  q.voices[w].stage # "FREE" /\ q.voices[w].generation = q.fpga[w].generation
  <2>1. w # v /\ Moved(r.voices[w], q.voices[w])
    BY <1>1, <1>2, <1>3
  <2> QED
    BY <1>2, <1>3, <2>1 DEF SoundOK, Moved, SameVoice
<1>4. \A w \in Voices : q.voices[w].generation = r.voices[w].generation
  BY <1>1 DEF Moved, SameVoice
<1>5. \A w \in Voices, g \in Nat : <<w, g>> \in q.log =>
        g <= q.voices[w].generation /\ ~(q.fpga[w].sounding /\ q.fpga[w].generation = g)
  BY <1>2, <1>4 DEF SoundOK
<1>6. ASSUME NEW w \in Voices
      PROVE  NoteOK(q.voices[w], q.channels[q.voices[w].channel])
  <2>1. CASE w = v
    BY <1>1, <2>1 DEF NoteOK, Open
  <2>2. CASE w # v
    BY <1>1, <1>2, <2>2 DEF NotesOK, NoteOK, Open, Moved, SameVoice
  <2> QED
    BY <2>1, <2>2
<1> QED
  BY <1>3, <1>5, <1>6 DEF SoundOK, NotesOK

(* A completion frees the voice it names, or nobody. *)
LEMMA ConsumeKeeps ==
  ASSUME RuntimeInv, NEW item \in log, ConsumeCompletion(item[1], item[2])
  PROVE  RuntimeInv'
<1>1. RuntimeTypeOK /\ ListsOK(Begin(0)) /\ ~fault
  BY DEF RuntimeInv, ConsumeCompletion
<1>2. PICK v \in Voices, g \in Nat : item = <<v, g>>
  BY <1>1 DEF RuntimeTypeOK
<1> DEFINE b == Begin(0)
           l == log \ {<<v, g>>}
           r == [b EXCEPT !.log = l]
           q == IF Consumes(v, g) THEN ReclaimVoice(r, v) ELSE r
<1>3. item[1] = v /\ item[2] = g /\ <<v, g>> \in log
  BY <1>2
<1>4. /\ b \in HandlerRecord /\ b.voices = rt.voices /\ b.active = rt.active /\ b.free = rt.free
      /\ b.channels = rt.channels /\ b.fpga = fpga /\ b.log = log /\ b.ok
  BY <1>1, BeginFields
<1>5. ConsumeCompletion(v, g)
  BY <1>3
<1>6. b = Begin(0)
  OBVIOUS
<1>7. /\ Handled(q) /\ drift' = Reset(drift, {w \in Voices : q.voices[w].stage = "FREE"})
      /\ UNCHANGED <<periodic, job, keys, young, resets, aba>>
  BY <1>5, <1>4 DEF ConsumeCompletion
<1> HIDE DEF b
<1>8. l \in SUBSET (Voices \X Nat) /\ l \subseteq log
  BY <1>1 DEF RuntimeTypeOK
<1> HIDE DEF l
<1>9. /\ r \in HandlerRecord /\ r.voices = rt.voices /\ r.active = rt.active /\ r.free = rt.free
      /\ r.channels = rt.channels /\ r.fpga = fpga /\ r.log = l /\ r.ok
  BY <1>4, <1>8 DEF HandlerRecord
<1>10. q = IF Consumes(v, g) THEN ReclaimVoice(r, v) ELSE r
  OBVIOUS
<1> HIDE DEF r, q
<1>11. SoundOK(b) /\ NotesOK(b) /\ KeysOK(rt.voices) /\ IF job.active THEN JobAt(job) ELSE NoJobAt
  BY <1>1, <1>6 DEF RuntimeInv
<1>12. ListsOK(r) /\ SoundOK(r) /\ NotesOK(r)
  <2>1. ListsOK(r)
    BY <1>1, <1>4, <1>6, <1>9, ListsSame
  <2>2. SoundOK(r)
    BY <1>4, <1>8, <1>9, <1>11 DEF SoundOK
  <2>3. NotesOK(r)
    BY <1>4, <1>9, <1>11 DEF NotesOK
  <2> QED
    BY <2>1, <2>2, <2>3
<1>13. /\ q \in HandlerRecord /\ ListsOK(q) /\ SoundOK(q) /\ NotesOK(q)
       /\ q.channels = rt.channels
       /\ \A w \in Voices : q.voices[w].generation = rt.voices[w].generation
       /\ \A w \in Voices : q.voices[w].stage # "FREE" => Survivor(rt.voices[w], q.voices[w])
  <2>1. CASE Consumes(v, g)
    <3>1. r.voices[v].stage # "FREE" /\ r.voices[v].generation = g
      BY <1>9, <2>1 DEF Consumes
    <3>2. ~r.fpga[v].sounding
      BY <1>3, <1>4, <1>9, <1>11, <3>1 DEF SoundOK
    <3>3. q = ReclaimVoice(r, v)
      BY <1>10, <2>1
    <3>4. /\ q \in HandlerRecord /\ ListsOK(q) /\ SameRest(r, q)
          /\ q.voices[v].stage = "FREE" /\ q.voices[v].generation = r.voices[v].generation
          /\ \A w \in Voices \ {v} : Moved(r.voices[w], q.voices[w])
      BY <1>9, <1>12, <3>1, <3>3, ReclaimResult
    <3>5. SoundOK(q) /\ NotesOK(q)
      BY <1>9, <1>12, <3>1, <3>2, <3>3, ReclaimSound
    <3>6. \A w \in Voices : q.voices[w].generation = rt.voices[w].generation
      BY <1>9, <3>4 DEF Moved, SameVoice
    <3>7. \A w \in Voices : q.voices[w].stage # "FREE" => Survivor(rt.voices[w], q.voices[w])
      BY <1>9, <3>4 DEF Moved, Survivor, Open
    <3> QED
      BY <1>9, <3>4, <3>5, <3>6, <3>7 DEF SameRest
  <2>2. CASE ~Consumes(v, g)
    <3>1. q = r
      BY <1>10, <2>2
    <3> QED
      BY <1>9, <1>12, <3>1 DEF Survivor, SameVoice
  <2> QED
    BY <2>1, <2>2
<1>14. /\ drift' \in [Voices -> Int]
       /\ \A w \in Voices : q.voices[w].stage # "FREE" => drift'[w] = drift[w]
  BY <1>1, <1>7 DEF Reset, RuntimeTypeOK
<1>15. KeysCover(q)
  <2> SUFFICES ASSUME NEW d \in Channels, NEW m \in Notes
               PROVE  Cardinality(Pressed(q.voices, d, m)) <= keys[d][m]
    BY <1>7 DEF KeysCover
  <2>1. Pressed(q.voices, d, m) \subseteq Pressed(rt.voices, d, m)
    <3> SUFFICES ASSUME NEW i \in Pressed(q.voices, d, m) PROVE i \in Pressed(rt.voices, d, m)
      OBVIOUS
    <3>1. PICK w \in Voices : /\ KeyDown(q.voices[w]) /\ q.voices[w].channel = d
                              /\ q.voices[w].note = m /\ i = q.voices[w].instance
      BY DEF Pressed
    <3>2. Survivor(rt.voices[w], q.voices[w])
      BY <1>13, <3>1 DEF KeyDown, Open
    <3>3. KeyDown(rt.voices[w]) /\ rt.voices[w].channel = d /\ rt.voices[w].note = m
          /\ i = rt.voices[w].instance
      BY <3>1, <3>2 DEF Survivor, SameVoice, KeyDown
    <3> QED
      BY <3>3 DEF Pressed
  <2>2. Cardinality(Pressed(q.voices, d, m)) <= Cardinality(Pressed(rt.voices, d, m))
    BY <2>1, FewerPressed
  <2>3. Cardinality(Pressed(rt.voices, d, m)) <= keys[d][m] /\ keys[d][m] \in Nat
    BY <1>1, <1>11 DEF KeysOK, RuntimeTypeOK
  <2> QED
    BY <2>2, <2>3, PressedFinite
<1>16. (IF job.active THEN JobAt(job) ELSE NoJobAt)'
  <2>1. rt'.voices = q.voices /\ rt'.channels = rt.channels
    BY <1>7, <1>13, HandledFields
  <2>2. \A w \in Voices : /\ rt'.voices[w].generation = rt.voices[w].generation
                          /\ rt'.voices[w].generation \in Nat
    <3>1. \A w \in Voices : q.voices[w] \in VoiceRecord
      BY <1>13 DEF HandlerRecord
    <3> QED
      BY <1>13, <2>1, <3>1 DEF VoiceRecord
  <2>3. \A w \in Voices : Outlives(w)
    BY <1>13, <1>14, <2>1 DEF Outlives
  <2>4. young' = IF job.active
                 THEN young \union ({w \in Voices : rt'.voices[w].generation # rt.voices[w].generation}
                                      \cap DOMAIN job.snapshot)
                 ELSE {}
    BY <1>7, <1>11, <2>2 DEF NoJobAt
  <2>5. \A w \in Voices : rt'.voices[w].generation >= rt.voices[w].generation
                          /\ rt'.voices[w].generation \in Nat
    BY <2>2
  <2> QED
    BY <1>1, <1>7, <1>11, <2>1, <2>3, <2>4, <2>5, JobOutlives
<1>17. keys' \in [Channels -> [Notes -> Nat]] /\ young' \subseteq Voices
  BY <1>1, <1>7 DEF RuntimeTypeOK
<1> QED
  BY <1>1, <1>7, <1>13, <1>14, <1>15, <1>16, <1>17, HandledInv

(* A voice that ends falls silent and is reported. *)
LEMMA VoiceEndsKeeps ==
  ASSUME RuntimeInv, NEW v \in Voices, VoiceEnds(v)
  PROVE  RuntimeInv'
<1>1. /\ RuntimeTypeOK /\ ListsOK(Begin(0)) /\ ~fault /\ SoundOK(Begin(0)) /\ NotesOK(Begin(0))
      /\ KeysOK(rt.voices) /\ IF job.active THEN JobAt(job) ELSE NoJobAt
  BY DEF RuntimeInv, VoiceEnds
<1>2. /\ fpga' = [fpga EXCEPT ![v] = Silent] /\ log' = log \union {<<v, fpga[v].generation>>}
      /\ rt' = rt /\ periodic' = periodic /\ job' = job /\ fault' = fault /\ keys' = keys
      /\ drift' = drift /\ young' = young /\ resets' = resets /\ aba' = aba /\ fpga[v].sounding
  BY DEF VoiceEnds, history
<1>3. /\ fpga \in [Voices -> SlotRecord] /\ Silent \in SlotRecord /\ ~Silent.sounding
      /\ fpga[v].generation \in Nat
  BY <1>1 DEF RuntimeTypeOK, SlotRecord, Silent
<1>4. RuntimeTypeOK'
  <2>1. fpga' \in [Voices -> SlotRecord] /\ log' \in SUBSET (Voices \X Nat)
    BY <1>1, <1>2, <1>3 DEF RuntimeTypeOK
  <2> QED
    BY <1>1, <1>2, <2>1 DEF RuntimeTypeOK
<1>5. ListsOK(Begin(0))'
  BY <1>1, <1>2 DEF ListsOK, Begin
<1>6. NotesOK(Begin(0))'
  BY <1>1, <1>2 DEF NotesOK, NoteOK, Open, Begin
<1>7. SoundOK(Begin(0))'
  <2>1. \A w \in Voices : fpga[w].sounding =>
          rt.voices[w].stage # "FREE" /\ rt.voices[w].generation = fpga[w].generation
    BY <1>1 DEF SoundOK, Begin
  <2>2. \A w \in Voices, g \in Nat : <<w, g>> \in log =>
          g <= rt.voices[w].generation /\ ~(fpga[w].sounding /\ fpga[w].generation = g)
    BY <1>1 DEF SoundOK, Begin
  <2>3. \A w \in Voices : fpga'[w] = IF w = v THEN Silent ELSE fpga[w]
    BY <1>2, <1>3
  <2>4. \A w \in Voices : fpga'[w].sounding =>
          rt'.voices[w].stage # "FREE" /\ rt'.voices[w].generation = fpga'[w].generation
    BY <1>2, <1>3, <2>1, <2>3
  <2>5. ASSUME NEW w \in Voices, NEW g \in Nat, <<w, g>> \in log'
        PROVE  g <= rt'.voices[w].generation /\ ~(fpga'[w].sounding /\ fpga'[w].generation = g)
    <3>1. CASE <<w, g>> \in log
      BY <1>2, <1>3, <2>2, <2>3, <3>1
    <3>2. CASE w = v /\ g = fpga[v].generation
      <4>1. g <= rt.voices[w].generation
        BY <1>2, <2>1, <3>2
      <4> QED
        BY <1>2, <1>3, <2>3, <3>2, <4>1
    <3> QED
      BY <1>2, <2>5, <3>1, <3>2
  <2> QED
    BY <2>4, <2>5 DEF SoundOK, Begin
<1>8. KeysOK(rt.voices)'
  BY <1>1, <1>2 DEF KeysOK, Pressed, KeyDown, Open
<1>9. (IF job.active THEN JobAt(job) ELSE NoJobAt)'
  <2>1. (IF job.active THEN JobAt(job) ELSE NoJobAt)' = IF job.active THEN JobAt(job)' ELSE NoJobAt'
    BY <1>2
  <2>2. JobAt(job)' = JobAt(job)
    BY <1>2 DEF JobAt, SnapshotOK, DriftOK, RevisionsOK, ValuesOK, StillDue, KnownTo, Told, Target, Value, Open
  <2>3. NoJobAt' = NoJobAt
    BY <1>2 DEF NoJobAt, Told, Target, Value, Open
  <2> QED
    BY <1>1, <2>1, <2>2, <2>3
<1> QED
  BY <1>4, <1>5, <1>6, <1>7, <1>8, <1>9 DEF RuntimeInv

(* A table nobody has used yet. *)
Fresh ==
  /\ rt = RuntimeInit(periodic) /\ periodic \in BOOLEAN /\ job = NoJob /\ log = {}
  /\ fault \in BOOLEAN /\ fpga = [v \in Voices |-> Silent]
  /\ keys \in [Channels -> [Notes -> Nat]] /\ drift = [v \in Voices |-> 0]
  /\ young = {} /\ resets = {} /\ aba = {}

(* The table msf2_runtime_init leaves. *)
LEMMA FreshTable ==
  ASSUME NEW enabled \in BOOLEAN, NEW r, r = RuntimeInit(enabled)
  PROVE  /\ r \in RuntimeRecord /\ \A v \in Voices : r.voices[v].stage = "FREE"
         /\ Len(r.active) = 0 /\ Len(r.free) = VoiceCount
         /\ \A i \in 1 .. VoiceCount : r.free[i] = VoiceCount - i
<1> DEFINE f == [i \in 1 .. VoiceCount |-> VoiceCount - i]
           x == [v \in Voices |-> FreeVoice]
           y == [c \in Channels |-> IF enabled THEN ResetChannel ELSE MarkDirty(ResetChannel, Groups)]
<1>1. r = [voices |-> x, active |-> << >>, free |-> f, channels |-> y, instance |-> 0, stamp |-> 0]
  BY DEF RuntimeInit
<1>2. f \in Seq(Voices) /\ Len(f) = VoiceCount /\ \A i \in 1 .. VoiceCount : f[i] = VoiceCount - i
  <2>1. \A i \in 1 .. VoiceCount : VoiceCount - i \in Voices
    BY RuntimeNumbers
  <2> QED
    BY <2>1, RuntimeNumbers
<1>3. x \in [Voices -> VoiceRecord] /\ \A v \in Voices : x[v].stage = "FREE"
  BY FreeVoiceType
<1>4. y \in [Channels -> ChannelRecord]
  BY ResetChannelType, MarkDirtyFields
<1>5. << >> \in Seq(Voices) /\ Len(<< >>) = 0
  OBVIOUS
<1> HIDE DEF f, x, y
<1> QED
  BY <1>1, <1>2, <1>3, <1>4, <1>5 DEF RuntimeRecord

(* It satisfies the invariant. *)
LEMMA FreshInv == Fresh => RuntimeInv
<1> SUFFICES ASSUME Fresh PROVE RuntimeInv
  OBVIOUS
<1>1. /\ rt \in RuntimeRecord /\ \A v \in Voices : rt.voices[v].stage = "FREE"
      /\ Len(rt.active) = 0 /\ Len(rt.free) = VoiceCount
      /\ \A i \in 1 .. VoiceCount : rt.free[i] = VoiceCount - i
  BY FreshTable DEF Fresh
<1>2. RuntimeTypeOK
  <2>1. Silent \in SlotRecord
    BY DEF Silent, SlotRecord
  <2> QED
    BY <1>1, <2>1 DEF Fresh, RuntimeTypeOK
<1>3. ListsOK(Begin(0))
  <2> DEFINE b == Begin(0)
  <2>1. b.voices = rt.voices /\ b.active = rt.active /\ b.free = rt.free
    BY <1>2, BeginFields
  <2> HIDE DEF b
  <2>2. Len(b.active) + Len(b.free) = VoiceCount
    <3>1. Len(b.active) = 0 /\ Len(b.free) = VoiceCount /\ VoiceCount \in Nat
      BY <1>1, <2>1, RuntimeNumbers
    <3> QED
      BY <3>1
  <2>3. \A i \in 1 .. Len(b.active) : FALSE
    BY <1>1, <2>1
  <2>4. \A v \in Voices : b.voices[v].stage = "FREE"
    BY <1>1, <2>1
  <2>5. \A i, k \in 1 .. Len(b.free) : b.free[i] = b.free[k] => i = k
    BY <1>1, <2>1, RuntimeNumbers
  <2>6. \A i \in 1 .. Len(b.free) : b.free[i] \in Voices
    BY <1>1, <2>1, RuntimeNumbers
  <2>7. ASSUME NEW v \in Voices PROVE \E i \in 1 .. Len(b.free) : b.free[i] = v
    <3>1. VoiceCount - v \in 1 .. VoiceCount /\ VoiceCount - (VoiceCount - v) = v
      BY RuntimeNumbers
    <3>2. b.free[VoiceCount - v] = v
      BY <1>1, <2>1, <3>1
    <3> QED
      BY <1>1, <2>1, <3>1, <3>2
  <2>8. ListsOK(b)
    BY <2>2, <2>3, <2>4, <2>5, <2>6, <2>7 DEF ListsOK
  <2> QED
    BY <2>8 DEF b
<1>4. SoundOK(Begin(0))
  BY DEF Fresh, SoundOK, Begin, Silent
<1>5. NotesOK(Begin(0))
  BY <1>1 DEF NotesOK, NoteOK, Open, Begin
<1>6. KeysOK(rt.voices)
  <2> SUFFICES ASSUME NEW c \in Channels, NEW n \in Notes
               PROVE  Cardinality(Pressed(rt.voices, c, n)) <= keys[c][n]
    BY DEF KeysOK
  <2>1. Pressed(rt.voices, c, n) = {}
    BY <1>1 DEF Pressed, KeyDown, Open
  <2>2. keys[c][n] \in Nat
    BY <1>2 DEF RuntimeTypeOK
  <2>3. Cardinality(Pressed(rt.voices, c, n)) = 0
    BY <2>1, FS_EmptySet
  <2> QED
    BY <2>2, <2>3
<1>7. ~job.active /\ NoJobAt
  BY <1>1 DEF Fresh, NoJob, NoJobAt, Open
<1> QED
  BY <1>2, <1>3, <1>4, <1>5, <1>6, <1>7 DEF RuntimeInv

(* So do the initial states. *)
LEMMA InitInv == Init => RuntimeInv
<1>1. Init => Fresh
  <2>1. [c \in Channels |-> [n \in Notes |-> 0]] \in [Channels -> [Notes -> Nat]]
    OBVIOUS
  <2> QED
    BY <2>1, Zenon DEF Init, Fresh
<1> QED
  BY <1>1, FreshInv

(* And the state after a session reset. *)
LEMMA ResetKeeps ==
  ASSUME RuntimeInv, SessionReset
  PROVE  RuntimeInv'
<1>1. RuntimeTypeOK
  BY DEF RuntimeInv
<1>2. Fresh'
  BY <1>1 DEF SessionReset, Fresh, RuntimeTypeOK
<1>3. Fresh' => RuntimeInv'
  BY FreshInv, PTL
<1> QED
  BY <1>2, <1>3
-----------------------------------------------------------------------------
(* The control job. *)

(* A new job knows every voice that is not released. *)
LEMMA NewJobAt ==
  ASSUME RuntimeInv, ~fault, ~job.active, NEW elapsed \in Nat, NEW j, j = NewJob(elapsed)
  PROVE  JobAt(j) /\ j.active
<1> DEFINE opened == {w \in Voices : Open(rt.voices[w])}
           known == [v \in opened |-> rt.voices[v].generation]
           revised == [c \in Channels |-> rt.channels[c].revision]
           cursor == IF rt.active = << >> THEN VoiceCount ELSE 0
<1>1. j = [active |-> TRUE, elapsed |-> elapsed, cursor |-> cursor, snapshot |-> known,
           revisions |-> revised]
  BY DEF NewJob
<1>2. RuntimeTypeOK /\ ListsOK(Begin(0)) /\ NoJobAt
  BY DEF RuntimeInv
<1>3. /\ rt.voices \in [Voices -> VoiceRecord] /\ rt.channels \in [Channels -> ChannelRecord]
      /\ rt.active \in Seq(Voices)
  BY <1>2 DEF RuntimeTypeOK, RuntimeRecord
<1>4. /\ \A v \in Voices : rt.voices[v].generation \in Nat /\ rt.voices[v].channel \in Channels
      /\ \A c \in Channels : rt.channels[c].revision \in Nat
  BY <1>3 DEF VoiceRecord, ChannelRecord
<1>5. opened \subseteq Voices /\ opened \in SUBSET Voices
  OBVIOUS
<1>6. known \in [opened -> Nat] /\ revised \in [Channels -> Nat]
  BY <1>4, <1>5
<1>7. /\ DOMAIN known = opened /\ \A v \in opened : known[v] = rt.voices[v].generation
      /\ \A c \in Channels : revised[c] = rt.channels[c].revision
  OBVIOUS
<1>8. \A v \in Voices : rt.voices[v].stage # "FREE" => cursor = 0
  <2> SUFFICES ASSUME NEW v \in Voices, rt.voices[v].stage # "FREE" PROVE cursor = 0
    OBVIOUS
  <2>1. rt.voices[v].position \in 1 .. Len(rt.active)
    BY <1>2 DEF ListsOK, Begin
  <2>2. rt.active # << >>
    BY <1>3, <2>1
  <2> QED
    BY <2>2
<1>9. cursor \in 0 .. VoiceCount
  BY RuntimeNumbers
<1>10. \A v \in opened : v \in Voices /\ Open(rt.voices[v])
  OBVIOUS
<1>11. \A v \in Voices : Open(rt.voices[v]) => v \in opened
  OBVIOUS
<1> HIDE DEF known, opened, revised, cursor
<1>12. known \in Snapshots
  BY <1>5, <1>6 DEF Snapshots
<1>13. /\ j \in JobRecord /\ j.active /\ j.elapsed = elapsed /\ j.cursor = cursor
       /\ j.snapshot = known /\ j.revisions = revised
  BY <1>1, <1>6, <1>9, <1>12 DEF JobRecord
<1>14. SnapshotOK(j)
  BY <1>2, <1>4, <1>7, <1>10, <1>13 DEF SnapshotOK, NoJobAt
<1>15. DriftOK(j)
  <2> SUFFICES ASSUME NEW v \in Voices, rt.voices[v].stage # "FREE"
               PROVE  drift[v] = IF KnownTo(j, v) /\ v < j.cursor THEN j.elapsed ELSE 0
    BY DEF DriftOK
  <2>1. drift[v] = 0 /\ j.cursor = 0
    BY <1>2, <1>8, <1>13 DEF NoJobAt
  <2>2. ~(v < j.cursor)
    BY <2>1, RuntimeNumbers
  <2> QED
    BY <2>1, <2>2
<1>16. RevisionsOK(j)
  BY <1>4, <1>7, <1>13 DEF RevisionsOK
<1>17. ValuesOK(j)
  <2> SUFFICES ASSUME NEW v \in Voices, NEW g \in Groups,
                      Open(rt.voices[v]), rt.voices[v].channel \notin aba
               PROVE  \/ Told(v, g)
                      \/ /\ g \in rt.channels[rt.voices[v].channel].dirty
                         /\ KnownTo(j, v) /\ j.cursor <= v
    BY DEF ValuesOK, StillDue
  <2>1. Told(v, g) \/ g \in rt.channels[rt.voices[v].channel].dirty
    BY <1>2 DEF NoJobAt
  <2>2. KnownTo(j, v)
    BY <1>7, <1>11, <1>13 DEF KnownTo
  <2>3. j.cursor = 0
    BY <1>8, <1>13 DEF Open
  <2>4. j.cursor <= v
    BY <2>3, RuntimeNumbers
  <2> QED
    BY <2>1, <2>2, <2>4
<1> QED
  BY <1>13, <1>14, <1>15, <1>16, <1>17 DEF JobAt

(* Nothing but the value last sent. *)
Refreshed(a, b) ==
  /\ SameVoice(a, b) /\ b.stage = a.stage /\ b.position = a.position
  /\ b.key_released = a.key_released /\ b.sostenuto_held = a.sostenuto_held

(* Updates the sink takes. *)
LEMMA UpdatesTaken ==
  ASSUME NEW left, NEW us, us \subseteq Voices \X Groups, NEW order
  PROVE  Taken(left, us, order) \subseteq us /\ Cardinality(Taken(left, us, order)) \in Nat
<1>1. Taken(left, us, order) \subseteq us
  BY DEF Taken
<1>2. IsFiniteSet(Groups)
  <2>1. IsFiniteSet({"gain"}) /\ IsFiniteSet({"pitch"}) /\ IsFiniteSet({"filter"})
    BY FS_Singleton
  <2>2. Groups = ({"gain"} \union {"pitch"}) \union {"filter"}
    BY DEF Groups
  <2>3. IsFiniteSet({"gain"} \union {"pitch"})
    BY <2>1, FS_Union
  <2> QED
    BY <2>1, <2>2, <2>3, FS_Union
<1>3. IsFiniteSet(Voices \X Groups)
  BY <1>2, VoicesFinite, FS_Product
<1>4. IsFiniteSet(Taken(left, us, order))
  BY <1>1, <1>3, FS_Subset
<1> QED
  BY <1>1, <1>4, FS_CardinalityType

(* A voice after its updates. *)
LEMMA AfterUpdatesFields ==
  ASSUME NEW r \in HandlerRecord, NEW v \in Voices, periodic \in BOOLEAN, NEW taken,
         NEW b, b = AfterUpdates(r, v, taken)
  PROVE  /\ b \in VoiceRecord /\ Refreshed(r.voices[v], b)
         /\ \A g \in Groups : b.last[g] = IF <<v, g>> \in taken
                                          THEN Target(r.channels, periodic, r.voices[v])[g]
                                          ELSE r.voices[v].last[g]
<1> DEFINE a == r.voices[v]
           t == Target(r.channels, periodic, a)
           x == [g \in Groups |-> IF <<v, g>> \in taken THEN t[g] ELSE a.last[g]]
<1>1. a \in VoiceRecord /\ r.channels \in [Channels -> ChannelRecord]
  BY DEF HandlerRecord
<1>2. t \in [Groups -> ValueRecord] /\ a.last \in [Groups -> ValueRecord]
  <2>1. t \in [Groups -> ValueRecord]
    BY <1>1, TargetType
  <2>2. a.last \in [Groups -> ValueRecord]
    BY <1>1 DEF VoiceRecord
  <2> QED
    BY <2>1, <2>2
<1>3. b = [a EXCEPT !.last = x]
  BY DEF AfterUpdates
<1> HIDE DEF t, a
<1>4. /\ x \in [Groups -> ValueRecord]
      /\ \A g \in Groups : x[g] = IF <<v, g>> \in taken THEN t[g] ELSE a.last[g]
  BY <1>2
<1> HIDE DEF x
<1>5. b \in VoiceRecord /\ Refreshed(a, b) /\ b.last = x
  BY <1>1, <1>3, <1>4, LastSet DEF Refreshed
<1> QED
  BY <1>4, <1>5 DEF a, t

(* A refresh sends stale values, all of them unless the handler fails. *)
LEMMA RefreshResult ==
  ASSUME NEW r \in HandlerRecord, NEW vs, vs \subseteq Voices, periodic \in BOOLEAN,
         NEW q, q = RefreshVoices(r, vs)
  PROVE  /\ q \in HandlerRecord /\ SameLists(r, q) /\ SameSound(r, q) /\ q.channels = r.channels
         /\ \A v \in Voices : Refreshed(r.voices[v], q.voices[v])
         /\ \A v \in Voices, g \in Groups :
              \/ q.voices[v].last[g] = r.voices[v].last[g]
              \/ q.voices[v].last[g] = Target(r.channels, periodic, r.voices[v])[g]
         /\ q.ok => \A v \in vs, g \in Groups : g \in r.channels[r.voices[v].channel].dirty =>
              q.voices[v].last[g] = Target(r.channels, periodic, r.voices[v])[g]
<1> DEFINE us == Updates(r, vs)
           taken == Taken(r.left, us, UpdateOrder)
           x == [v \in Voices |-> AfterUpdates(r, v, taken)]
           l == r.left - Cardinality(taken)
<1>1. q = [r EXCEPT !.voices = x, !.left = l, !.ok = (taken = us)]
  BY DEF RefreshVoices
<1>2. us \subseteq Voices \X Groups
  BY DEF Updates
<1>3. Cardinality(taken) \in Nat
  <2> HIDE DEF us
  <2> QED
    BY <1>2, UpdatesTaken
<1>4. r.left \in Int
  BY DEF HandlerRecord
<1>5. l \in Int
  BY <1>3, <1>4
<1>6. ASSUME NEW v \in vs, NEW g \in Groups, g \in r.channels[r.voices[v].channel].dirty
      PROVE  \/ <<v, g>> \in us
             \/ r.voices[v].last[g] = Target(r.channels, periodic, r.voices[v])[g]
  BY <1>6 DEF Updates, RefreshGroups
<1> HIDE DEF taken, l, us
<1>7. ASSUME NEW v \in Voices
      PROVE  /\ x[v] \in VoiceRecord /\ Refreshed(r.voices[v], x[v])
             /\ \A g \in Groups : x[v].last[g] = IF <<v, g>> \in taken
                                                 THEN Target(r.channels, periodic, r.voices[v])[g]
                                                 ELSE r.voices[v].last[g]
  BY AfterUpdatesFields
<1>8. x \in [Voices -> VoiceRecord]
  BY <1>7
<1> HIDE DEF x
<1>9. /\ q \in HandlerRecord /\ q.voices = x /\ q.left = l /\ q.ok = (taken = us)
      /\ q.active = r.active /\ q.free = r.free /\ q.channels = r.channels
      /\ q.instance = r.instance /\ q.stamp = r.stamp /\ q.fpga = r.fpga /\ q.log = r.log
  BY <1>1, <1>5, <1>8 DEF HandlerRecord
<1>10. ASSUME q.ok, NEW v \in vs, NEW g \in Groups, g \in r.channels[r.voices[v].channel].dirty
       PROVE  q.voices[v].last[g] = Target(r.channels, periodic, r.voices[v])[g]
  <2>1. taken = us /\ v \in Voices
    BY <1>9, <1>10
  <2> QED
    BY <1>6, <1>7, <1>9, <1>10, <2>1
<1> QED
  BY <1>7, <1>9, <1>10 DEF SameLists, SameSound

(* It disturbs neither lists nor sound nor keys. *)
LEMMA RefreshKeeps ==
  ASSUME NEW r \in HandlerRecord, NEW q \in HandlerRecord, SameLists(r, q), SameSound(r, q),
         q.channels = r.channels, \A v \in Voices : Refreshed(r.voices[v], q.voices[v])
  PROVE  /\ ListsOK(r) => ListsOK(q)
         /\ SoundOK(r) => SoundOK(q)
         /\ NotesOK(r) => NotesOK(q)
         /\ \A c, n : Pressed(q.voices, c, n) \subseteq Pressed(r.voices, c, n)
<1>1. ListsOK(r) => ListsOK(q)
  <2>1. q.active = r.active /\ q.free = r.free
    BY DEF SameLists
  <2>2. \A i \in 1 .. Len(r.active) : r.active[i] \in Voices
    BY DEF HandlerRecord
  <2>3. \A i \in 1 .. Len(r.free) : r.free[i] \in Voices
    BY DEF HandlerRecord
  <2>4. \A v \in Voices : /\ q.voices[v].stage = r.voices[v].stage
                          /\ q.voices[v].position = r.voices[v].position
    BY DEF Refreshed
  <2> HAVE ListsOK(r)
  <2>5. \A i \in 1 .. Len(q.active) :
          q.voices[q.active[i]].stage # "FREE" /\ q.voices[q.active[i]].position = i
    BY <2>1, <2>2, <2>4 DEF ListsOK
  <2>6. \A v \in Voices : q.voices[v].stage # "FREE" =>
          q.voices[v].position \in 1 .. Len(q.active) /\ q.active[q.voices[v].position] = v
    BY <2>1, <2>4 DEF ListsOK
  <2>7. \A i \in 1 .. Len(q.free) : q.voices[q.free[i]].stage = "FREE"
    BY <2>1, <2>3, <2>4 DEF ListsOK
  <2>8. \A v \in Voices : q.voices[v].stage = "FREE" =>
          \E i \in 1 .. Len(q.free) : q.free[i] = v
    BY <2>1, <2>4 DEF ListsOK
  <2> QED
    BY <2>1, <2>5, <2>6, <2>7, <2>8 DEF ListsOK
<1>2. SoundOK(r) => SoundOK(q)
  BY DEF SoundOK, SameSound, Refreshed, SameVoice
<1>3. NotesOK(r) => NotesOK(q)
  BY DEF NotesOK, NoteOK, Open, Refreshed, SameVoice
<1>4. \A c, n : Pressed(q.voices, c, n) \subseteq Pressed(r.voices, c, n)
  BY DEF Pressed, KeyDown, Open, Refreshed, SameVoice
<1> QED
  BY <1>1, <1>2, <1>3, <1>4

(* What a slice does to the table. *)
SliceResult(q, j) ==
  /\ q \in HandlerRecord /\ ListsOK(q) /\ q.channels = rt.channels
  /\ SoundOK(q) /\ NotesOK(q)
  /\ \A c, n : Pressed(q.voices, c, n) \subseteq Pressed(rt.voices, c, n)
  /\ \A v \in Voices : Refreshed(rt.voices[v], q.voices[v])
  /\ \A v \in Voices, g \in Groups :
       \/ q.voices[v].last[g] = rt.voices[v].last[g]
       \/ q.voices[v].last[g] = Target(rt.channels, periodic, rt.voices[v])[g]
  /\ q.ok => \A v \in Visited(rt, j), g \in Groups :
       g \in rt.channels[rt.voices[v].channel].dirty =>
         q.voices[v].last[g] = Target(rt.channels, periodic, rt.voices[v])[g]

(* The slice is what the job knows between the cursors. *)
LEMMA VisitedVoices ==
  ASSUME NEW j \in JobRecord
  PROVE  /\ SliceEnd(j) \in 0 .. VoiceCount /\ j.cursor <= SliceEnd(j)
         /\ Visited(rt, j) = {v \in Voices : /\ j.cursor <= v /\ v < SliceEnd(j)
                                             /\ KnownTo(j, v) /\ rt.voices[v].stage # "FREE"}
<1>1. j.cursor \in 0 .. VoiceCount
  BY DEF JobRecord
<1>2. SliceEnd(j) \in 0 .. VoiceCount /\ j.cursor <= SliceEnd(j)
  BY <1>1, RuntimeNumbers DEF SliceEnd
<1>3. \A v : v \in j.cursor .. SliceEnd(j) - 1 <=> v \in Voices /\ j.cursor <= v /\ v < SliceEnd(j)
  <2> DEFINE a == j.cursor
             b == SliceEnd(j)
  <2> HIDE DEF a, b
  <2>1. a \in 0 .. VoiceCount /\ b \in 0 .. VoiceCount
    BY <1>1, <1>2 DEF a, b
  <2>2. \A v : v \in a .. b - 1 <=> v \in 0 .. VoiceCount - 1 /\ a <= v /\ v < b
    BY <2>1, RuntimeNumbers
  <2> QED
    BY <2>2, RuntimeNumbers DEF a, b
<1> QED
  BY <1>2, <1>3 DEF Visited, InSnapshot, KnownTo

(* The refresh of a slice does that. *)
LEMMA SliceDoes ==
  ASSUME RuntimeInv, ~fault, NEW limit \in Int, NEW j \in JobRecord, NEW q,
         q = RefreshVoices(Begin(limit), Visited(rt, j))
  PROVE  SliceResult(q, j)
<1> DEFINE r == Begin(limit)
           vs == Visited(rt, j)
<1>1. RuntimeTypeOK /\ periodic \in BOOLEAN
  BY DEF RuntimeInv, RuntimeTypeOK
<1>2. /\ r \in HandlerRecord /\ ListsOK(r) /\ SoundOK(r) /\ NotesOK(r)
      /\ r.voices = rt.voices /\ r.channels = rt.channels
  BY UnderwayBegin DEF Underway
<1>3. vs \subseteq Voices
  BY VisitedVoices
<1>4. q = RefreshVoices(r, vs)
  OBVIOUS
<1> HIDE DEF r, vs
<1>5. /\ q \in HandlerRecord /\ SameLists(r, q) /\ SameSound(r, q) /\ q.channels = r.channels
      /\ \A v \in Voices : Refreshed(r.voices[v], q.voices[v])
      /\ \A v \in Voices, g \in Groups :
           \/ q.voices[v].last[g] = r.voices[v].last[g]
           \/ q.voices[v].last[g] = Target(r.channels, periodic, r.voices[v])[g]
      /\ q.ok => \A v \in vs, g \in Groups : g \in r.channels[r.voices[v].channel].dirty =>
           q.voices[v].last[g] = Target(r.channels, periodic, r.voices[v])[g]
  BY <1>1, <1>2, <1>3, <1>4, RefreshResult
<1>6. /\ ListsOK(q) /\ SoundOK(q) /\ NotesOK(q)
      /\ \A c, n : Pressed(q.voices, c, n) \subseteq Pressed(rt.voices, c, n)
  BY <1>2, <1>5, RefreshKeeps
<1> QED
  BY <1>2, <1>5, <1>6 DEF SliceResult, vs

(* After a slice the job stands at its end. *)
LEMMA SliceKeepsJob ==
  ASSUME RuntimeTypeOK, NEW j, JobAt(j), j.active, NEW q, SliceResult(q, j), q.ok, Handled(q),
         job' = [j EXCEPT !.cursor = SliceEnd(j)],
         drift' = [v \in Voices |-> drift[v] + Given(j, v)],
         UNCHANGED <<periodic, young, resets, aba>>
  PROVE  JobAt(job)' /\ job'.active
<1> DEFINE e == SliceEnd(j)
<1>1. j \in JobRecord /\ SnapshotOK(j) /\ DriftOK(j) /\ RevisionsOK(j) /\ ValuesOK(j)
  BY DEF JobAt
<1>2. /\ e \in 0 .. VoiceCount /\ j.cursor <= e /\ j.cursor \in Nat /\ j.elapsed \in Nat
      /\ Visited(rt, j) = {v \in Voices : /\ j.cursor <= v /\ v < e
                                          /\ KnownTo(j, v) /\ rt.voices[v].stage # "FREE"}
  BY <1>1, VisitedVoices DEF JobRecord
<1>3. job' = [j EXCEPT !.cursor = e]
  OBVIOUS
<1> HIDE DEF e
<1>4. /\ job' \in JobRecord /\ job'.active /\ job'.cursor = e /\ job'.elapsed = j.elapsed
      /\ job'.snapshot = j.snapshot /\ job'.revisions = j.revisions
  BY <1>1, <1>2, <1>3 DEF JobRecord
<1>5. rt'.voices = q.voices /\ rt'.channels = rt.channels
  BY HandledFields DEF SliceResult
<1>6. \A v \in Voices :
        /\ rt'.voices[v].generation = rt.voices[v].generation
        /\ rt'.voices[v].channel = rt.voices[v].channel
        /\ rt'.voices[v].stage = rt.voices[v].stage
        /\ rt'.voices[v].periodic = rt.voices[v].periodic
        /\ \A g \in Groups :
             \/ rt'.voices[v].last[g] = rt.voices[v].last[g]
             \/ rt'.voices[v].last[g] = Target(rt.channels, periodic, rt.voices[v])[g]
  BY <1>5 DEF SliceResult, Refreshed, SameVoice
<1>7. SnapshotOK(job)'
  <2>1. DOMAIN j.snapshot \subseteq Voices
    BY <1>1 DEF SnapshotOK
  <2> QED
    BY <1>1, <1>4, <1>6, <2>1 DEF SnapshotOK
<1>8. \A v \in Voices : KnownTo(job, v)' <=> KnownTo(j, v)
  BY <1>4, <1>6 DEF KnownTo
<1>9. DriftOK(job)'
  <2> SUFFICES ASSUME NEW v \in Voices, rt.voices[v].stage # "FREE"
               PROVE  drift'[v] = IF KnownTo(j, v) /\ v < e THEN j.elapsed ELSE 0
    BY <1>4, <1>6, <1>8 DEF DriftOK
  <2>1. /\ drift[v] = IF KnownTo(j, v) /\ v < j.cursor THEN j.elapsed ELSE 0
        /\ drift'[v] = drift[v] + Given(j, v)
    BY <1>1 DEF DriftOK
  <2>2. Given(j, v) = IF j.cursor <= v /\ v < e /\ KnownTo(j, v) THEN j.elapsed ELSE 0
    BY <1>2 DEF Given
  <2>3. v \in Nat /\ e \in Nat
    BY <1>2, RuntimeNumbers
  <2> QED
    BY <1>2, <2>1, <2>2, <2>3
<1>10. RevisionsOK(job)'
  BY <1>1, <1>4, <1>5 DEF RevisionsOK
<1>11. ASSUME NEW v \in Voices, NEW g \in Groups
       PROVE  /\ Told(v, g) => Told(v, g)'
              /\ rt'.voices[v].last[g] = Target(rt.channels, periodic, rt.voices[v])[g] => Told(v, g)'
  <2>1. Target(rt'.channels, periodic', rt'.voices[v]) = Target(rt.channels, periodic, rt.voices[v])
    BY <1>5, <1>6, TargetOf
  <2> QED
    BY <1>6, <2>1 DEF Told, UpToMarks
<1>12. ValuesOK(job)'
  <2> SUFFICES ASSUME NEW v \in Voices, NEW g \in Groups,
                      Open(rt'.voices[v]), rt'.voices[v].channel \notin aba'
               PROVE  \/ Told(v, g)'
                      \/ /\ g \in rt.channels[rt.voices[v].channel].dirty
                         /\ \/ rt.voices[v].channel \in resets
                            \/ rt.channels[rt.voices[v].channel].revision
                                 # j.revisions[rt.voices[v].channel]
                            \/ KnownTo(j, v) /\ e <= v
    BY <1>4, <1>5, <1>6, <1>8 DEF ValuesOK, StillDue
  <2>1. Open(rt.voices[v]) /\ rt.voices[v].channel \notin aba /\ rt.voices[v].stage # "FREE"
    BY <1>6 DEF Open
  <2>2. \/ Told(v, g)
        \/ /\ g \in rt.channels[rt.voices[v].channel].dirty
           /\ \/ rt.voices[v].channel \in resets
              \/ rt.channels[rt.voices[v].channel].revision
                   # j.revisions[rt.voices[v].channel]
              \/ KnownTo(j, v) /\ j.cursor <= v
    BY <1>1, <2>1 DEF ValuesOK, StillDue
  <2>3. CASE KnownTo(j, v) /\ j.cursor <= v /\ g \in rt.channels[rt.voices[v].channel].dirty
    <3>1. CASE v < e
      <4>1. v \in Visited(rt, j)
        BY <1>2, <2>1, <2>3, <3>1
      <4> QED
        BY <1>5, <1>11, <2>3, <4>1 DEF SliceResult
    <3>2. CASE ~(v < e)
      <4>1. e <= v
        BY <1>2, <3>2, RuntimeNumbers
      <4> QED
        BY <2>3, <4>1
    <3> QED
      BY <3>1, <3>2
  <2> QED
    BY <1>11, <2>2, <2>3
<1> QED
  BY <1>4, <1>7, <1>9, <1>10, <1>12 DEF JobAt

(* The end of a job forgets what it has told the voices. *)
LEMMA CompleteFields ==
  ASSUME NEW q \in HandlerRecord, NotesOK(q), q.channels = rt.channels, NEW j,
         NEW e, e = CompleteControl(q, j)
  PROVE  /\ e \in HandlerRecord /\ SameLists(q, e) /\ SameSound(q, e)
         /\ e.voices = q.voices /\ e.ok = q.ok /\ NotesOK(e)
         /\ \A c \in Channels :
              /\ e.channels[c].cc = q.channels[c].cc /\ e.channels[c].bend = q.channels[c].bend
              /\ e.channels[c].dirty = DirtyAfter(j, c)
<1> DEFINE x == [c \in Channels |-> [q.channels[c] EXCEPT !.dirty = DirtyAfter(j, c)]]
<1>1. e = [q EXCEPT !.channels = x]
  BY DEF CompleteControl
<1>2. q.channels \in [Channels -> ChannelRecord]
  BY DEF HandlerRecord
<1>3. ASSUME NEW c \in Channels
      PROVE  /\ x[c] \in ChannelRecord /\ x[c].cc = q.channels[c].cc
             /\ x[c].bend = q.channels[c].bend
             /\ x[c].dirty = DirtyAfter(j, c)
             /\ x[c].sustain = q.channels[c].sustain
             /\ x[c].sostenuto = q.channels[c].sostenuto
  <2>1. DirtyAfter(j, c) \in SUBSET Groups
    BY <1>2 DEF DirtyAfter, ChannelRecord
  <2>2. q.channels[c] \in ChannelRecord /\ x[c] = [q.channels[c] EXCEPT !.dirty = DirtyAfter(j, c)]
    BY <1>2
  <2> HIDE DEF x
  <2> QED
    BY <2>1, <2>2 DEF ChannelRecord
<1>4. x \in [Channels -> ChannelRecord]
  BY <1>3
<1> HIDE DEF x
<1>5. /\ e \in HandlerRecord /\ e.channels = x /\ e.voices = q.voices /\ e.active = q.active
      /\ e.free = q.free /\ e.instance = q.instance /\ e.stamp = q.stamp
      /\ e.fpga = q.fpga /\ e.log = q.log /\ e.ok = q.ok
  BY <1>1, <1>4 DEF HandlerRecord
<1>6. NotesOK(e)
  <2>1. \A v \in Voices : q.voices[v].channel \in Channels
    BY DEF HandlerRecord, VoiceRecord
  <2> QED
    BY <1>3, <1>5, <2>1 DEF NotesOK, NoteOK
<1> QED
  BY <1>3, <1>5, <1>6 DEF SameLists, SameSound

(* Nothing is left to do between jobs. *)
LEMMA CompleteKeepsJob ==
  ASSUME RuntimeTypeOK, NEW j, JobAt(j), NEW q, SliceResult(q, j), q.ok,
         SliceEnd(j) = VoiceCount, Handled(CompleteControl(q, j)),
         drift' = [v \in Voices |-> drift[v] + Given(j, v) - Due(j, v)],
         young' = {}, resets' = {},
         aba' = aba \union {c \in resets : rt.channels[c].revision = j.revisions[c]},
         periodic' = periodic
  PROVE  NoJobAt'
<1> DEFINE e == CompleteControl(q, j)
<1>1. j \in JobRecord /\ SnapshotOK(j) /\ DriftOK(j) /\ RevisionsOK(j) /\ ValuesOK(j)
  BY DEF JobAt
<1>2. /\ j.cursor \in Nat /\ j.elapsed \in Nat
      /\ Visited(rt, j) = {v \in Voices : /\ j.cursor <= v /\ v < VoiceCount
                                          /\ KnownTo(j, v) /\ rt.voices[v].stage # "FREE"}
  BY <1>1, VisitedVoices DEF JobRecord
<1>3. /\ e \in HandlerRecord /\ e.voices = q.voices
      /\ \A c \in Channels : /\ e.channels[c].cc = q.channels[c].cc
                             /\ e.channels[c].bend = q.channels[c].bend
                             /\ e.channels[c].dirty = DirtyAfter(j, c)
  BY CompleteFields DEF SliceResult
<1>4. Handled(e)
  OBVIOUS
<1> HIDE DEF e
<1>5. /\ rt'.voices = q.voices /\ rt'.channels = e.channels
  BY <1>3, <1>4, HandledFields
<1>6. \A v \in Voices :
        /\ rt'.voices[v].channel = rt.voices[v].channel
        /\ rt'.voices[v].stage = rt.voices[v].stage
        /\ rt'.voices[v].periodic = rt.voices[v].periodic
        /\ \A g \in Groups :
             \/ rt'.voices[v].last[g] = rt.voices[v].last[g]
             \/ rt'.voices[v].last[g] = Target(rt.channels, periodic, rt.voices[v])[g]
  BY <1>5 DEF SliceResult, Refreshed, SameVoice
<1>7. \A v \in Voices : v \in Nat /\ v < VoiceCount /\ rt.voices[v].channel \in Channels
  <2>1. rt.voices \in [Voices -> VoiceRecord]
    BY DEF RuntimeTypeOK, RuntimeRecord
  <2>2. \A v \in Voices : rt.voices[v].channel \in Channels
    BY <2>1 DEF VoiceRecord
  <2>3. \A v \in Voices : v \in Nat /\ v < VoiceCount
    BY RuntimeNumbers
  <2> QED
    BY <2>2, <2>3
<1>8. \A c \in Channels : /\ rt'.channels[c].cc = rt.channels[c].cc
                          /\ rt'.channels[c].bend = rt.channels[c].bend
                          /\ rt'.channels[c].dirty = DirtyAfter(j, c)
  BY <1>3, <1>5 DEF SliceResult
<1>9. ASSUME NEW v \in Voices, rt'.voices[v].stage # "FREE" PROVE drift'[v] = 0
  <2>1. rt.voices[v].stage # "FREE"
    BY <1>6, <1>9
  <2>2. /\ drift[v] = IF KnownTo(j, v) /\ v < j.cursor THEN j.elapsed ELSE 0
        /\ drift'[v] = drift[v] + Given(j, v) - Due(j, v)
    BY <1>1, <2>1 DEF DriftOK
  <2>3. Given(j, v) = IF j.cursor <= v /\ KnownTo(j, v) THEN j.elapsed ELSE 0
    BY <1>2, <1>7, <2>1 DEF Given
  <2>4. Due(j, v) = IF KnownTo(j, v) THEN j.elapsed ELSE 0
    BY <1>1, <2>1 DEF Due, SnapshotOK, KnownTo
  <2> QED
    BY <1>2, <1>7, <2>2, <2>3, <2>4
<1>10. ASSUME NEW v \in Voices, NEW g \in Groups
       PROVE  /\ Told(v, g) => Told(v, g)'
              /\ rt'.voices[v].last[g] = Target(rt.channels, periodic, rt.voices[v])[g] => Told(v, g)'
  <2>1. Target(rt'.channels, periodic', rt'.voices[v]) = Target(rt.channels, periodic, rt.voices[v])
    BY <1>6, <1>7, <1>8 DEF Target, Value
  <2> QED
    BY <1>6, <2>1 DEF Told, UpToMarks
<1>11. ASSUME NEW v \in Voices, NEW g \in Groups,
              Open(rt'.voices[v]), rt'.voices[v].channel \notin aba'
       PROVE  Told(v, g)' \/ g \in rt'.channels[rt'.voices[v].channel].dirty
  <2> DEFINE c == rt.voices[v].channel
  <2>1. /\ Open(rt.voices[v]) /\ c \notin aba /\ rt.voices[v].stage # "FREE"
        /\ rt'.voices[v].channel = c /\ c \in Channels
        /\ c \in resets => rt.channels[c].revision # j.revisions[c]
    BY <1>6, <1>7, <1>11 DEF Open
  <2>2. \/ Told(v, g)
        \/ /\ g \in rt.channels[c].dirty
           /\ \/ c \in resets \/ rt.channels[c].revision # j.revisions[c]
              \/ KnownTo(j, v) /\ j.cursor <= v
    BY <1>1, <2>1 DEF ValuesOK, StillDue
  <2>3. CASE g \in rt.channels[c].dirty /\ rt.channels[c].revision # j.revisions[c]
    BY <1>8, <2>1, <2>3 DEF DirtyAfter
  <2>4. CASE g \in rt.channels[c].dirty /\ KnownTo(j, v) /\ j.cursor <= v
    <3>1. v \in Visited(rt, j)
      BY <1>2, <1>7, <2>1, <2>4
    <3>2. rt'.voices[v].last[g] = Target(rt.channels, periodic, rt.voices[v])[g]
      BY <1>5, <2>4, <3>1 DEF SliceResult
    <3> QED
      BY <1>10, <3>2
  <2>5. CASE Told(v, g)
    BY <1>10, <2>5
  <2> QED
    BY <2>1, <2>2, <2>3, <2>4, <2>5
<1> QED
  BY <1>9, <1>11 DEF NoJobAt

(* A service call keeps the invariant. *)
LEMMA SliceKeeps ==
  ASSUME RuntimeInv, ~fault, NEW j, JobAt(j), j.active, JobSlice(j), UNCHANGED <<periodic, keys>>
  PROVE  RuntimeInv'
<1>1. RuntimeTypeOK /\ KeysOK(rt.voices)
  BY DEF RuntimeInv
<1>2. j \in JobRecord /\ j.elapsed \in Nat
  BY DEF JobAt, JobRecord
<1>3. \A v \in Voices : Given(j, v) \in Int /\ Due(j, v) \in Int
  BY <1>2 DEF Given, Due
<1>4. PICK limit \in Limits :
        LET r == RefreshVoices(Begin(limit), Visited(rt, j))
        IN  \/ /\ ~(r.ok /\ SliceEnd(j) = VoiceCount)
               /\ Handled(r)
               /\ job' = IF r.ok THEN [j EXCEPT !.cursor = SliceEnd(j)] ELSE j
               /\ drift' = [v \in Voices |-> drift[v] + Given(j, v)]
               /\ UNCHANGED <<young, resets, aba>>
            \/ /\ r.ok /\ SliceEnd(j) = VoiceCount
               /\ Handled(CompleteControl(r, j))
               /\ job' = NoJob
               /\ drift' = [v \in Voices |-> drift[v] + Given(j, v) - Due(j, v)]
               /\ young' = {} /\ resets' = {}
               /\ aba' = aba \union {c \in resets : rt.channels[c].revision = j.revisions[c]}
  BY DEF JobSlice
<1> DEFINE q == RefreshVoices(Begin(limit), Visited(rt, j))
           e == CompleteControl(q, j)
<1>5. limit \in Int
  BY RuntimeAssumption
<1>6. SliceResult(q, j)
  BY <1>2, <1>5, SliceDoes
<1>7. \/ /\ ~(q.ok /\ SliceEnd(j) = VoiceCount)
         /\ Handled(q)
         /\ job' = IF q.ok THEN [j EXCEPT !.cursor = SliceEnd(j)] ELSE j
         /\ drift' = [v \in Voices |-> drift[v] + Given(j, v)]
         /\ UNCHANGED <<young, resets, aba>>
      \/ /\ q.ok /\ SliceEnd(j) = VoiceCount
         /\ Handled(e)
         /\ job' = NoJob
         /\ drift' = [v \in Voices |-> drift[v] + Given(j, v) - Due(j, v)]
         /\ young' = {} /\ resets' = {}
         /\ aba' = aba \union {c \in resets : rt.channels[c].revision = j.revisions[c]}
  BY <1>4
<1> HIDE DEF q
<1>8. /\ q \in HandlerRecord /\ ListsOK(q) /\ SoundOK(q) /\ NotesOK(q)
      /\ \A c, n : Pressed(q.voices, c, n) \subseteq Pressed(rt.voices, c, n)
  BY <1>6 DEF SliceResult
<1>9. \A c \in Channels, n \in Notes : Cardinality(Pressed(q.voices, c, n)) <= keys'[c][n]
  <2> SUFFICES ASSUME NEW c \in Channels, NEW n \in Notes
               PROVE  Cardinality(Pressed(q.voices, c, n)) <= keys[c][n]
    OBVIOUS
  <2>1. Cardinality(Pressed(q.voices, c, n)) <= Cardinality(Pressed(rt.voices, c, n))
    BY <1>8, FewerPressed
  <2>2. Cardinality(Pressed(rt.voices, c, n)) <= keys[c][n] /\ keys[c][n] \in Nat
    BY <1>1 DEF KeysOK, RuntimeTypeOK
  <2> QED
    BY <2>1, <2>2, PressedFinite
<1>10. CASE /\ ~(q.ok /\ SliceEnd(j) = VoiceCount)
            /\ Handled(q)
            /\ job' = IF q.ok THEN [j EXCEPT !.cursor = SliceEnd(j)] ELSE j
            /\ drift' = [v \in Voices |-> drift[v] + Given(j, v)]
            /\ UNCHANGED <<young, resets, aba>>
  <2>1. drift' \in [Voices -> Int]
    BY <1>1, <1>3, <1>10 DEF RuntimeTypeOK
  <2>2. KeysCover(q)
    BY <1>9 DEF KeysCover
  <2>3. ASSUME q.ok PROVE (IF job.active THEN JobAt(job) ELSE NoJobAt)'
    BY <1>1, <1>6, <1>10, <2>3, SliceKeepsJob
  <2>4. keys' \in [Channels -> [Notes -> Nat]] /\ young' \subseteq Voices
    BY <1>1, <1>10 DEF RuntimeTypeOK
  <2> QED
    BY <1>1, <1>8, <1>10, <2>1, <2>2, <2>3, <2>4, HandledInv
<1>11. CASE /\ q.ok /\ SliceEnd(j) = VoiceCount
            /\ Handled(e)
            /\ job' = NoJob
            /\ drift' = [v \in Voices |-> drift[v] + Given(j, v) - Due(j, v)]
            /\ young' = {} /\ resets' = {}
            /\ aba' = aba \union {c \in resets : rt.channels[c].revision = j.revisions[c]}
  <2>1. drift' \in [Voices -> Int]
    <3>1. \A v \in Voices : drift[v] + Given(j, v) - Due(j, v) \in Int
      BY <1>1, <1>3 DEF RuntimeTypeOK
    <3> QED
      BY <1>11, <3>1
  <2>2. /\ e \in HandlerRecord /\ SameLists(q, e) /\ SameSound(q, e)
        /\ e.voices = q.voices /\ e.ok = q.ok /\ NotesOK(e)
    BY <1>6, <1>8, CompleteFields DEF SliceResult
  <2>3. NoJobAt'
    BY <1>1, <1>6, <1>11, CompleteKeepsJob
  <2> HIDE DEF e
  <2>4. ListsOK(e) /\ SoundOK(e)
    <3>1. ListsOK(e)
      BY <1>8, <2>2, ListsSame DEF SameLists
    <3> QED
      BY <1>8, <2>2, <3>1 DEF SoundOK, SameSound
  <2>5. RuntimeTypeOK'
    BY <1>1, <1>11, <2>1, <2>2, HandledFields DEF RuntimeTypeOK
  <2>6. ListsOK(Begin(0))' /\ SoundOK(Begin(0))' /\ NotesOK(Begin(0))'
    BY <1>11, <2>2, <2>4, HandledKeeps
  <2>7. KeysOK(rt.voices)'
    <3>1. rt'.voices = q.voices
      BY <1>11, <2>2, HandledFields
    <3>2. \A c, n : Pressed(rt.voices, c, n)' = Pressed(q.voices, c, n)
      BY <3>1 DEF Pressed, KeyDown, Open
    <3> QED
      BY <1>9, <3>2 DEF KeysOK
  <2>8. ~job'.active
    BY <1>11 DEF NoJob
  <2> QED
    BY <2>3, <2>5, <2>6, <2>7, <2>8 DEF RuntimeInv
<1> QED
  BY <1>7, <1>10, <1>11

(* The next slice, of a running job or a new one. *)
LEMMA ServiceKeeps ==
  ASSUME RuntimeInv, NEW elapsed \in Elapsed, ControlService(elapsed)
  PROVE  RuntimeInv'
<1> DEFINE j == IF job.active THEN job ELSE NewJob(elapsed)
<1>1. ~fault /\ JobSlice(j) /\ UNCHANGED <<periodic, keys>>
  BY DEF ControlService
<1>2. elapsed \in Nat
  BY RuntimeAssumption
<1>3. JobAt(j) /\ j.active
  <2>1. CASE job.active
    BY <1>1, <2>1 DEF RuntimeInv
  <2>2. CASE ~job.active
    BY <1>1, <1>2, <2>2, NewJobAt
  <2> QED
    BY <2>1, <2>2
<1> HIDE DEF j
<1> QED
  BY <1>1, <1>3, SliceKeeps
-----------------------------------------------------------------------------
(* The theorems. *)

(* Every step keeps the invariant. *)
LEMMA StepKeeps ==
  ASSUME RuntimeInv, Next
  PROVE  RuntimeInv'
<1>1. CASE \E c \in Channels, n \in Notes : NoteOn(c, n) \/ NoteOff(c, n)
  BY <1>1, NoteOnKeeps, NoteOffKeeps
<1>2. CASE Pedal
  BY <1>2, SustainKeeps, SostenutoKeeps DEF Pedal
<1>3. CASE Change
  <2>1. PICK c \in Channels, value \in 0 .. 1 : Controller(c, value) \/ PitchBend(c, value)
    BY <1>3 DEF Change
  <2>2. value \in Nat
    OBVIOUS
  <2> QED
    BY <2>1, <2>2, ControllerKeeps, BendKeeps
<1>4. CASE Mode
  BY <1>4, SoundOffKeeps, NotesOffKeeps, ControllersResetKeeps, ReleaseAllKeeps,
     SystemResetKeeps, ToggleKeeps DEF Mode
<1>5. CASE Service
  BY <1>5, ServiceKeeps, ConsumeKeeps DEF Service
<1>6. CASE SessionReset
  BY <1>6, ResetKeeps
<1>7. CASE \E v \in Voices : VoiceEnds(v)
  BY <1>7, VoiceEndsKeeps
<1> QED
  BY <1>1, <1>2, <1>3, <1>4, <1>5, <1>6, <1>7 DEF Next

(* So does a step that changes nothing. *)
LEMMA StutterKeeps ==
  ASSUME RuntimeInv, UNCHANGED vars
  PROVE  RuntimeInv'
<1>1. /\ rt' = rt /\ periodic' = periodic /\ job' = job /\ fpga' = fpga /\ log' = log
      /\ fault' = fault /\ keys' = keys /\ drift' = drift /\ young' = young
      /\ resets' = resets /\ aba' = aba
  BY DEF vars, history
<1>2. RuntimeTypeOK' = RuntimeTypeOK
  BY <1>1 DEF RuntimeTypeOK
<1>3. ListsOK(Begin(0))' = ListsOK(Begin(0))
  BY <1>1 DEF ListsOK, Begin
<1>4. SoundOK(Begin(0))' = SoundOK(Begin(0))
  BY <1>1 DEF SoundOK, Begin
<1>5. NotesOK(Begin(0))' = NotesOK(Begin(0))
  BY <1>1 DEF NotesOK, NoteOK, Open, Begin
<1>6. KeysOK(rt.voices)' = KeysOK(rt.voices)
  BY <1>1 DEF KeysOK, Pressed, KeyDown, Open
<1>7. JobAt(job)' = JobAt(job)
  BY <1>1 DEF JobAt, SnapshotOK, DriftOK, RevisionsOK, ValuesOK, StillDue, KnownTo, Told, Target, Value, Open
<1>8. NoJobAt' = NoJobAt
  BY <1>1 DEF NoJobAt, Told, Target, Value, Open
<1> QED
  BY <1>1, <1>2, <1>3, <1>4, <1>5, <1>6, <1>7, <1>8 DEF RuntimeInv

(* What the invariant says of the slots. *)
LEMMA InvSlots == RuntimeInv => SlotsAccounted
<1> SUFFICES ASSUME RuntimeInv PROVE SlotsAccounted
  OBVIOUS
<1> DEFINE b == Begin(0)
<1>1. RuntimeTypeOK /\ ListsOK(b) /\ (~fault => SoundOK(b))
  BY DEF RuntimeInv
<1>2. /\ b \in HandlerRecord /\ b.voices = rt.voices /\ b.active = rt.active /\ b.free = rt.free
      /\ b.fpga = fpga
  BY <1>1, BeginFields
<1> HIDE DEF b
<1>3. /\ rt.active \in Seq(Voices) /\ rt.free \in Seq(Voices)
      /\ DOMAIN rt.active = 1 .. Len(rt.active) /\ DOMAIN rt.free = 1 .. Len(rt.free)
  BY <1>2 DEF HandlerRecord
<1>4. Range(rt.active) = {v \in Voices : rt.voices[v].stage # "FREE"}
  BY <1>1, <1>2, ActiveIsNotFree DEF ActiveVoices
<1>5. Range(rt.free) = {v \in Voices : rt.voices[v].stage = "FREE"}
  <2>1. Range(rt.free) = {rt.free[i] : i \in 1 .. Len(rt.free)}
    BY <1>3 DEF Range
  <2>2. \A i \in 1 .. Len(rt.free) : rt.free[i] \in Voices /\ rt.voices[rt.free[i]].stage = "FREE"
    BY <1>1, <1>2, <1>3 DEF ListsOK
  <2>3. \A v \in Voices : rt.voices[v].stage = "FREE" =>
          \E i \in 1 .. Len(rt.free) : rt.free[i] = v
    BY <1>1, <1>2 DEF ListsOK
  <2> QED
    BY <2>1, <2>2, <2>3
<1>6. ListsPartition
  <2>1. Len(rt.active) + Len(rt.free) = VoiceCount
    BY <1>1, <1>2 DEF ListsOK
  <2>2. Range(rt.active) \union Range(rt.free) = Voices
    BY <1>4, <1>5
  <2>3. \A i \in 1 .. Len(rt.active) :
          rt.voices[rt.active[i]].stage # "FREE" /\ rt.voices[rt.active[i]].position = i
    BY <1>1, <1>2 DEF ListsOK
  <2>4. \A v \in Range(rt.free) : rt.voices[v].stage = "FREE"
    BY <1>5
  <2> QED
    BY <2>1, <2>2, <2>3, <2>4 DEF ListsPartition
<1>7. FreeIsSilent
  BY <1>1, <1>2 DEF SoundOK, FreeIsSilent
<1> QED
  BY <1>6, <1>7 DEF SlotsAccounted

(* Of the notes. *)
LEMMA InvNotes == RuntimeInv => NoHungNote
<1> SUFFICES ASSUME RuntimeInv, ~fault, NEW v \in Voices, Open(rt.voices[v]),
                    ~rt.channels[rt.voices[v].channel].sustain,
                    ~rt.channels[rt.voices[v].channel].sostenuto
             PROVE  /\ keys[rt.voices[v].channel][rt.voices[v].note] > 0
                    /\ ~rt.voices[v].key_released
  BY DEF NoHungNote
<1> DEFINE c == rt.voices[v].channel
           n == rt.voices[v].note
           P == Pressed(rt.voices, c, n)
<1>1. RuntimeTypeOK /\ NotesOK(Begin(0)) /\ KeysOK(rt.voices)
  BY DEF RuntimeInv
<1>2. c \in Channels /\ n \in Notes
  BY <1>1 DEF RuntimeTypeOK, RuntimeRecord, VoiceRecord
<1>3. NoteOK(rt.voices[v], rt.channels[c])
  BY <1>1 DEF NotesOK, Begin
<1>4. ~rt.voices[v].key_released
  BY <1>3 DEF NoteOK
<1>5. rt.voices[v].instance \in P
  BY <1>4 DEF Pressed, KeyDown
<1>6. IsFiniteSet(P) /\ Cardinality(P) \in Nat
  BY PressedFinite
<1>7. Cardinality(P) <= keys[c][n] /\ keys[c][n] \in Nat
  BY <1>1, <1>2 DEF KeysOK, RuntimeTypeOK
<1> HIDE DEF P
<1>8. Cardinality(P) # 0
  BY <1>5, <1>6, FS_EmptySet
<1> QED
  BY <1>4, <1>6, <1>7, <1>8

(* Of the values sent, and of the ticks. *)
LEMMA InvJobs == RuntimeInv => ControllersReachVoices /\ AdvancedOnce
<1> SUFFICES ASSUME RuntimeInv, ~fault, ~job.active, NEW v \in Voices, Open(rt.voices[v])
             PROVE  /\ rt.voices[v].channel \in aba \/ \A g \in Groups : Marked(v, g) \/ Told(v, g)
                    /\ drift[v] = 0
  BY DEF ControllersReachVoices, AdvancedOnce
<1>1. NoJobAt /\ rt.voices[v].stage # "FREE"
  BY DEF RuntimeInv, Open
<1> QED
  BY <1>1 DEF NoJobAt, Marked

(* The inductive invariant holds: lists, sound, notes, keys and the job    *)
(* agree after every step of the control core and of the FPGA.             *)
THEOREM TableInvariant == Spec => []RuntimeInv
<1>1. RuntimeInv /\ [Next]_vars => RuntimeInv'
  BY StepKeeps, StutterKeeps
<1> QED
  BY <1>1, InitInv, PTL DEF Spec

(* Active list and free stack partition the slots, and a slot the MCU      *)
(* takes for free is silent, for every number of voices: completions,      *)
(* steals and refused STARTs never lose or share a slot (reclaim_voice,    *)
(* activate_voice, abandon_unpublished_voice,                              *)
(* msf2_runtime_complete_voice).                                           *)
THEOREM SlotsStayAccounted == Spec => []SlotsAccounted
  BY TableInvariant, InvSlots, PTL

(* No note hangs, for every number of voices, channels, notes and layers:  *)
(* a voice that is not released has its key down or a pedal that holds it  *)
(* (msf2_runtime_note_off, release_deferred_voices, the pedals and modes). *)
THEOREM NoNoteHangs == Spec => []NoHungNote
  BY TableInvariant, InvNotes, PTL

(* Between jobs each group of every voice that is not released was sent    *)
(* with its channel's controllers, and the pitch with its bend, or is      *)
(* still marked, for every slicing of the job and every refused update;    *)
(* channels reset under a job at its revision are the exception            *)
(* (refresh_voice, msf2_runtime_complete_control).  What the bend feeds    *)
(* besides the pitch is not covered: the code does not mark it.            *)
THEOREM ChangesReachVoices == Spec => []ControllersReachVoices
  BY TableInvariant, InvJobs, PTL

(* A job ages every voice it found, and that is still there, exactly once, *)
(* for every slicing and however many of its slots were restarted under it *)
(* (app_synth_service, msf2_runtime_advance_control_slice).                *)
THEOREM JobsAgeOnce == Spec => []AdvancedOnce
  BY TableInvariant, InvJobs, PTL
=============================================================================
