-------------------------- MODULE McuModel_proofs --------------------------
(***************************************************************************)
(* Proofs about the policy of the host and of the harness, its mirror and  *)
(* the region bank: the three tell one story of every voice, and a region  *)
(* stays while a voice points into it.                                     *)
(***************************************************************************)
EXTENDS McuModel, FiniteSetTheorems, CommonLemmas

-----------------------------------------------------------------------------
(* The inductive invariant. *)

Channels == [Sources -> {0, 1}]
Values == [Groups -> Channels]
Contents == [key : Keys \cup {"none"}, layer : Nat, class : Nat, preset : Nat]
VoiceRecords ==
  [state : {"silent", "held", "release"}, key : Keys \cup {"none"}, region : RegionIds,
   of : Contents, inst : Nat, gen : Nat, keyUp : BOOLEAN, sos : BOOLEAN, last : Values]
MirrorRecords == [active : BOOLEAN, released : BOOLEAN, gen : Nat, val : Values]
SynthRecords == [state : {"off", "on", "released"}, gen : Nat, val : Values]
Strips == [voice : VoiceRecords, mirror : MirrorRecords, synth : SynthRecords,
           ended : SUBSET Nat]
Policies == [strips : [ModelVoices -> Strips], active : Seq(ModelVoices)]
BankEntry == [slots : Seq(1 .. BankSlots), last_use : Nat]

(* Values follow the channel in every group a source's change marks. *)
Follows(val, ch) ==
  \A source \in Sources : \A g \in Marks[source] \cap Feeds[source] :
    val[g][source] = ch[source]

(* What is reported of a voice: no later generation than it has, not the   *)
(* one that plays, and in a render the one that ended while the policy     *)
(* still holds it.                                                         *)
Reported(s) ==
  /\ \A g \in s.ended : g <= s.synth.gen
  /\ s.synth.gen \in s.ended => s.synth.state = "off"
  /\ mode = "render" /\ Sounding(s) /\ s.synth.state = "off" => s.synth.gen \in s.ended

(* Policy, mirror and synthesizer agree on a voice, whose values follow ch *)
(* if it sounds and which is on the active list if listed.                 *)
StripFits(s, listed, ch) ==
  /\ s.voice.gen = s.synth.gen /\ s.voice.gen = s.mirror.gen
  /\ Sounding(s) => /\ s.mirror.active = TRUE /\ s.mirror.val = s.voice.last
                    /\ s.synth.state # "off" => s.synth.val = s.voice.last
                    /\ Follows(s.voice.last, ch)
  /\ s.voice.state = "held" => s.synth.state # "released" /\ s.mirror.released = FALSE
  /\ s.voice.state = "release" => s.synth.state # "on" /\ s.mirror.released = TRUE
  /\ s.voice.state = "silent" => s.synth.state = "off"
  /\ Reported(s)
  /\ Sounding(s) <=> listed

(* No voice is on the list twice. *)
ListOK(list) ==
  list \in Seq(ModelVoices) /\ \A i, j \in 1 .. Len(list) : list[i] = list[j] => i = j

PolicyFits(p, ch) ==
  /\ p \in Policies /\ ListOK(p.active)
  /\ \A v \in ModelVoices : StripFits(p.strips[v], v \in Range(p.active), ch)

(* A voice that sounds finds its region in `content', and in the host in   *)
(* an entry of the bank.                                                   *)
RegionFits(voice, content, bank) ==
  voice.state # "silent" =>
    /\ content[voice.region] = voice.of
    /\ mode = "host" => \E k \in DOMAIN bank : voice.region \in SlotsOf(bank[k])

Banks == UNION {[D -> BankEntry] : D \in SUBSET Keys}

ModelInv ==
  /\ mode \in {"host", "render"} /\ sustain \in BOOLEAN /\ sostenuto \in BOOLEAN
  /\ channel \in Channels /\ instance \in Nat
  /\ voices \in [ModelVoices -> VoiceRecords] /\ mirror \in [ModelVoices -> MirrorRecords]
  /\ synth \in [ModelVoices -> SynthRecords] /\ ended \in [ModelVoices -> SUBSET Nat]
  /\ regions \in [RegionIds -> Contents] /\ entries \in Banks
  /\ PolicyFits(Policy, channel)
  /\ \A v \in ModelVoices : RegionFits(voices[v], regions, entries)

-----------------------------------------------------------------------------
(* One voice. *)

(* What a call for voice s may make of it: t sounds only if s did, and     *)
(* then with the region of s.                                              *)
Keeps(s, t) ==
  Sounding(t) => Sounding(s) /\ t.voice.region = s.voice.region /\ t.voice.of = s.voice.of

(* A strip's parts. *)
LEMMA StripFields ==
  ASSUME NEW s \in Strips
  PROVE  /\ s.voice \in VoiceRecords /\ s.mirror \in MirrorRecords /\ s.synth \in SynthRecords
         /\ s.mirror.active \in BOOLEAN /\ s.mirror.released \in BOOLEAN
         /\ s.voice.gen \in Nat /\ s.mirror.gen \in Nat /\ s.synth.gen \in Nat
         /\ s.voice.state \in {"silent", "held", "release"}
         /\ s.synth.state \in {"off", "on", "released"}
         /\ s.voice.region \in RegionIds /\ s.voice.of \in Contents
         /\ s.voice.last \in Values /\ s.mirror.val \in Values /\ s.synth.val \in Values
         /\ s.ended \in SUBSET Nat
BY DEF Strips, VoiceRecords, MirrorRecords, SynthRecords

(* A strip with another voice record: all the policy's own marks. *)
LEMMA VoiceReplaced ==
  ASSUME NEW s \in Strips, NEW x \in VoiceRecords
  PROVE  LET t == [s EXCEPT !.voice = x]
         IN /\ t \in Strips /\ t.voice = x /\ t.mirror = s.mirror /\ t.synth = s.synth
            /\ t.ended = s.ended
BY DEF Strips

(* A strip with other parts. *)
LEMMA StripMade ==
  ASSUME NEW x \in VoiceRecords, NEW m \in MirrorRecords, NEW y \in SynthRecords,
         NEW e \in SUBSET Nat
  PROVE  LET u == [voice |-> x, mirror |-> m, synth |-> y, ended |-> e]
         IN u \in Strips /\ u.voice = x /\ u.mirror = m /\ u.synth = y /\ u.ended = e
BY DEF Strips

LEMMA StripIs ==
  ASSUME NEW t \in Strips
  PROVE  t = [voice |-> t.voice, mirror |-> t.mirror, synth |-> t.synth, ended |-> t.ended]
BY DEF Strips

LEMMA StripRebuilt ==
  ASSUME NEW t \in Strips, NEW m \in MirrorRecords, NEW y \in SynthRecords
  PROVE  [t EXCEPT !.mirror = m, !.synth = y]
           = [voice |-> t.voice, mirror |-> m, synth |-> y, ended |-> t.ended]
<1> DEFINE u == [t EXCEPT !.mirror = m, !.synth = y]
<1>1. u \in Strips /\ u.voice = t.voice /\ u.mirror = m /\ u.synth = y /\ u.ended = t.ended
  BY DEF Strips
<1> HIDE DEF u
<1>2. u = [voice |-> u.voice, mirror |-> u.mirror, synth |-> u.synth, ended |-> u.ended]
  BY <1>1, StripIs
<1> QED
  BY <1>1, <1>2 DEF u

(* release_voice of a voice that sounds. *)
LEMMA ReleaseStrip ==
  ASSUME NEW s \in Strips, NEW listed, NEW ch, StripFits(s, listed, ch), Sounding(s)
  PROVE  /\ Release(s) \in Strips /\ StripFits(Release(s), listed, ch)
         /\ Keeps(s, Release(s))
<1> DEFINE x == [s.voice EXCEPT !.state = "release"]
           t == [s EXCEPT !.voice = x]
<1>1. /\ x \in VoiceRecords /\ x.state = "release" /\ x.gen = s.voice.gen
      /\ x.last = s.voice.last /\ x.region = s.voice.region /\ x.of = s.voice.of
  BY StripFields DEF VoiceRecords
<1>2. [s EXCEPT !.voice.state = "release"] = t
  BY StripFields DEF Strips, VoiceRecords
<1>3. /\ t \in Strips /\ t.voice = x /\ t.mirror = s.mirror /\ t.synth = s.synth
      /\ t.ended = s.ended
  BY <1>1, VoiceReplaced
<1> HIDE DEF x, t
<1>4. Release(s) = SendRelease(t)
  BY <1>2 DEF Release
<1>5. CASE s.mirror.released = TRUE
  <2>1. Release(s) = t
    BY <1>3, <1>4, <1>5 DEF SendRelease
  <2>2. s.voice.state = "release" /\ s.synth.state # "on"
    BY <1>5, StripFields DEF StripFits, Sounding
  <2>3. Reported(t)
    BY <1>1, <1>3 DEF StripFits, Reported, Sounding
  <2> QED
    BY <1>1, <1>3, <1>5, <2>1, <2>2, <2>3 DEF StripFits, Sounding, Keeps
<1>6. CASE s.mirror.released = FALSE
  <2> DEFINE st == IF Takes(t) THEN "released" ELSE s.synth.state
             m == [s.mirror EXCEPT !.released = TRUE]
             y == [s.synth EXCEPT !.state = st]
             u == [voice |-> x, mirror |-> m, synth |-> y, ended |-> s.ended]
  <2>1. /\ s.voice.state = "held" /\ s.synth.state \in {"on", "off"} /\ s.mirror.active = TRUE
        /\ s.synth.gen = s.mirror.gen
    BY <1>6, StripFields DEF StripFits, Sounding
  <2>2. st = IF s.synth.state = "off" THEN "off" ELSE "released"
    BY <1>3, <2>1 DEF Takes
  <2>3. Release(s) = [t EXCEPT !.mirror.released = TRUE, !.synth.state = st]
    BY <1>3, <1>4, <1>6, <2>1 DEF SendRelease
  <2> HIDE DEF st
  <2>4. /\ m \in MirrorRecords /\ m.active = TRUE /\ m.released = TRUE /\ m.gen = s.mirror.gen
        /\ m.val = s.mirror.val
    BY <2>1, StripFields DEF MirrorRecords
  <2>5. y \in SynthRecords /\ y.state = st /\ y.gen = s.synth.gen /\ y.val = s.synth.val
    BY <2>2, StripFields DEF SynthRecords
  <2>6. [t EXCEPT !.mirror.released = TRUE, !.synth.state = st] = [t EXCEPT !.mirror = m, !.synth = y]
    BY <1>3 DEF Strips
  <2> HIDE DEF m, y
  <2>7. Release(s) = u
    <3>1. [t EXCEPT !.mirror = m, !.synth = y]
            = [voice |-> t.voice, mirror |-> m, synth |-> y, ended |-> t.ended]
      BY <1>3, <2>4, <2>5, StripRebuilt
    <3> QED
      BY <1>3, <2>3, <2>6, <3>1
  <2>8. /\ u \in Strips /\ u.voice = x /\ u.mirror = m /\ u.synth = y /\ u.ended = s.ended
    BY <1>1, <2>4, <2>5, StripFields, StripMade
  <2> HIDE DEF u
  <2>9. Reported(u)
    BY <1>1, <2>2, <2>5, <2>8 DEF StripFits, Reported, Sounding
  <2>10. StripFits(u, listed, ch)
    BY <1>1, <2>1, <2>2, <2>4, <2>5, <2>8, <2>9 DEF StripFits, Sounding
  <2>11. Keeps(s, u)
    BY <1>1, <2>8 DEF Keeps
  <2> QED
    BY <2>7, <2>8, <2>10, <2>11
<1> QED
  BY <1>5, <1>6, StripFields

(* The policy's own marks: pedals and keys.  A voice that differs in them  *)
(* only fits as before.                                                    *)
LEMMA MarksKeep ==
  ASSUME NEW s \in Strips, NEW listed, NEW ch, StripFits(s, listed, ch),
         NEW x \in VoiceRecords, x.state = s.voice.state, x.gen = s.voice.gen,
         x.last = s.voice.last, x.region = s.voice.region, x.of = s.voice.of
  PROVE  LET t == [s EXCEPT !.voice = x]
         IN /\ t \in Strips /\ t.voice = x /\ StripFits(t, listed, ch) /\ Keeps(s, t)
            /\ Sounding(t) <=> Sounding(s)
<1> DEFINE t == [s EXCEPT !.voice = x]
<1>1. /\ t \in Strips /\ t.voice = x /\ t.mirror = s.mirror /\ t.synth = s.synth
      /\ t.ended = s.ended
  BY VoiceReplaced
<1> HIDE DEF t
<1>2. (Sounding(t) <=> Sounding(s)) /\ Keeps(s, t)
  BY <1>1 DEF Keeps, Sounding
<1>3. Reported(t)
  BY <1>1 DEF StripFits, Reported, Sounding
<1>4. StripFits(t, listed, ch)
  BY <1>1, <1>3 DEF StripFits, Sounding
<1> QED
  BY <1>1, <1>2, <1>4 DEF t

(* Sostenuto pressed and let go, and CC121. *)
LEMMA MarkStrip ==
  ASSUME NEW s \in Strips, NEW listed, NEW ch, StripFits(s, listed, ch)
  PROVE  /\ Marked(s) \in Strips /\ StripFits(Marked(s), listed, ch) /\ Keeps(s, Marked(s))
         /\ Unmarked(s) \in Strips /\ StripFits(Unmarked(s), listed, ch)
         /\ Keeps(s, Unmarked(s))
<1> DEFINE x == [s.voice EXCEPT !.sos = TRUE]
           y == [s.voice EXCEPT !.sos = FALSE]
<1>1. \A a \in {x, y} :
        /\ a \in VoiceRecords /\ a.state = s.voice.state /\ a.gen = s.voice.gen
        /\ a.last = s.voice.last /\ a.region = s.voice.region /\ a.of = s.voice.of
  BY StripFields DEF VoiceRecords
<1>2. /\ Marked(s) = [s EXCEPT !.voice = x] /\ Unmarked(s) = [s EXCEPT !.voice = y]
  BY StripFields DEF Marked, Unmarked, Strips, VoiceRecords
<1> HIDE DEF x, y
<1>3. Marked(s) \in Strips /\ StripFits(Marked(s), listed, ch) /\ Keeps(s, Marked(s))
  BY <1>1, <1>2, MarksKeep
<1>4. Unmarked(s) \in Strips /\ StripFits(Unmarked(s), listed, ch) /\ Keeps(s, Unmarked(s))
  BY <1>1, <1>2, MarksKeep
<1> QED
  BY <1>3, <1>4

(* The key of a voice that sounds comes up. *)
LEMMA KeyUpStrip ==
  ASSUME NEW s \in Strips, NEW listed, NEW ch, StripFits(s, listed, ch), Sounding(s)
  PROVE  KeyUp(s) \in Strips /\ StripFits(KeyUp(s), listed, ch) /\ Keeps(s, KeyUp(s))
<1> DEFINE x == [s.voice EXCEPT !.keyUp = TRUE]
           up == [s EXCEPT !.voice = x]
<1>2. /\ x \in VoiceRecords /\ x.state = s.voice.state /\ x.gen = s.voice.gen
      /\ x.last = s.voice.last /\ x.region = s.voice.region /\ x.of = s.voice.of
  BY StripFields DEF VoiceRecords
<1>3. [s EXCEPT !.voice.keyUp = TRUE] = up
  BY StripFields DEF Strips, VoiceRecords
<1> HIDE DEF x
<1>4. /\ up \in Strips /\ StripFits(up, listed, ch) /\ Keeps(s, up) /\ Sounding(up)
  BY <1>2, MarksKeep
<1> HIDE DEF up
<1>5. KeyUp(s) \in {up, Release(up)}
  BY <1>3 DEF KeyUp
<1>6. Release(up) \in Strips /\ StripFits(Release(up), listed, ch) /\ Keeps(up, Release(up))
  BY <1>4, ReleaseStrip
<1>7. Keeps(s, Release(up))
  BY <1>4, <1>6 DEF Keeps
<1> QED
  BY <1>4, <1>5, <1>6, <1>7

-----------------------------------------------------------------------------
(* Regions. *)

(* The region of a layer. *)
LEMMA RegionOfIs ==
  ASSUME NEW k \in Keys, NEW l \in 1 .. Len(Layers[k])
  PROVE  RegionOf(k, l) \in Contents
<1>1. Layers[k] \in Seq(Nat) /\ PresetOf[k] \in Nat
  BY ModelAssumption
<1>2. Layers[k][l] \in Nat /\ l \in Nat
  BY <1>1
<1>3. k \in Keys \cup {"none"}
  OBVIOUS
<1> QED
  BY <1>1, <1>2, <1>3 DEF RegionOf, Contents

(* What a render prepares: a region for every layer of every key. *)
LEMMA PreparedRegions ==
  /\ Prepared \in Seq(Contents)
  /\ \A k \in Keys : \A l \in 1 .. Len(Layers[k]) :
       \E r \in DOMAIN Prepared : Prepared[r].key = k /\ Prepared[r].layer = l
<1> DEFINE Of(k) == [l \in 1 .. Len(Layers[k]) |-> RegionOf(k, l)]
           n == Len(KeyList)
           ss == [i \in 1 .. n |-> Of(KeyList[i])]
<1>1. Prepared = FlattenSeq(ss)
  BY DEF Prepared
<1>2. n \in Nat /\ \A i \in 1 .. n : KeyList[i] \in Keys
  BY ModelAssumption DEF Keys, Range
<1>3. \A k \in Keys : \E i \in 1 .. n : KeyList[i] = k
  BY ModelAssumption DEF Keys, Range
<1>4. ASSUME NEW k \in Keys
      PROVE  /\ Of(k) \in Seq(Contents) /\ Len(Of(k)) = Len(Layers[k])
             /\ \A l \in 1 .. Len(Layers[k]) : Of(k)[l].key = k /\ Of(k)[l].layer = l
  <2> DEFINE m == Len(Layers[k])
  <2>1. m \in Nat /\ \A l \in 1 .. m : Layers[k][l] \in Nat
    BY ModelAssumption
  <2>2. \A l \in 1 .. m : RegionOf(k, l) \in Contents
    BY <2>1, RegionOfIs
  <2>3. Of(k) \in [1 .. m -> Contents]
    BY <2>2
  <2>4. \A l \in 1 .. m : Of(k)[l].key = k /\ Of(k)[l].layer = l
    BY DEF RegionOf
  <2> DEFINE s == Of(k)
  <2>5. s \in [1 .. m -> Contents]
    BY <2>3
  <2> HIDE DEF s, m
  <2>6. s \in Seq(Contents)
    BY <2>1, <2>5, ST!SeqDef
  <2>7. Len(s) = m
    BY <2>1, <2>5, <2>6, ST!LenProperties
  <2> QED
    BY <2>4, <2>6, <2>7 DEF s, m
<1> HIDE DEF Of
<1>5. ss \in Seq(Seq(Contents)) /\ Len(ss) = n
  <2>1. ss \in [1 .. n -> Seq(Contents)]
    BY <1>2, <1>4
  <2> HIDE DEF ss, n
  <2>2. ss \in Seq(Seq(Contents))
    BY <1>2, <2>1, ST!SeqDef
  <2>3. Len(ss) = n
    BY <1>2, <2>1, <2>2, ST!LenProperties
  <2> QED
    BY <2>2, <2>3
<1>6. \A i \in 1 .. n : ss[i] = Of(KeyList[i])
  OBVIOUS
<1> HIDE DEF ss, n
<1>7. FlattenSeq(ss) \in Seq(Contents)
  BY <1>5, FlattenSeqType
<1>8. ASSUME NEW k \in Keys, NEW l \in 1 .. Len(Layers[k])
      PROVE  \E r \in DOMAIN FlattenSeq(ss) :
               FlattenSeq(ss)[r].key = k /\ FlattenSeq(ss)[r].layer = l
  <2>1. PICK i \in 1 .. n : KeyList[i] = k
    BY <1>3
  <2>2. ss[i] = Of(k) /\ i \in 1 .. Len(ss)
    BY <1>5, <1>6, <2>1
  <2>3. l \in 1 .. Len(ss[i]) /\ ss[i][l].key = k /\ ss[i][l].layer = l
    BY <1>4, <2>2
  <2>4. PICK r \in 1 .. Len(FlattenSeq(ss)) : FlattenSeq(ss)[r] = ss[i][l]
    BY <1>5, <2>2, <2>3, FlattenHas
  <2>5. r \in DOMAIN FlattenSeq(ss)
    BY <1>7, <2>4
  <2> QED
    BY <2>3, <2>4, <2>5
<1> QED
  BY <1>1, <1>7, <1>8

(* Numbers of regions, and the region that is none. *)
LEMMA RegionTypes ==
  /\ 1 .. BankSlots \subseteq RegionIds /\ 1 .. Len(Prepared) \subseteq RegionIds
  /\ NoRegion \in Contents
<1>1. Len(Prepared) \in Nat /\ BankSlots \in Nat
  BY PreparedRegions, ModelAssumption
<1>2. 1 .. BankSlots \subseteq RegionIds /\ 1 .. Len(Prepared) \subseteq RegionIds
  BY <1>1 DEF RegionIds
<1>3. NoRegion \in Contents
  BY DEF NoRegion, Contents
<1> QED
  BY <1>2, <1>3

-----------------------------------------------------------------------------
(* The values of a voice. *)

(* The sums of one group, and of all, as the channel stands. *)
LEMMA ComputedIs ==
  ASSUME NEW ch \in Channels
  PROVE  /\ \A g \in Groups : Computed(ch, g) \in Channels
         /\ \A g \in Groups : \A source \in Sources :
              g \in Feeds[source] => Computed(ch, g)[source] = ch[source]
         /\ AllComputed(ch) \in Values /\ Follows(AllComputed(ch), ch)
<1>1. \A source \in Sources : ch[source] \in {0, 1}
  BY DEF Channels
<1>2. \A g \in Groups : Computed(ch, g) \in Channels
  BY <1>1 DEF Computed, Channels
<1>3. \A g \in Groups : \A source \in Sources :
        g \in Feeds[source] => Computed(ch, g)[source] = ch[source]
  BY DEF Computed
<1>4. AllComputed(ch) \in Values /\ \A g \in Groups : AllComputed(ch)[g] = Computed(ch, g)
  BY <1>2 DEF AllComputed, Values
<1>5. Follows(AllComputed(ch), ch)
  <2>1. \A source \in Sources : Feeds[source] \subseteq Groups
    BY ModelAssumption
  <2> QED
    BY <1>3, <1>4, <2>1 DEF Follows
<1> QED
  BY <1>2, <1>3, <1>4, <1>5

LEMMA DefaultsIs == Defaults \in Channels /\ AllComputed(Defaults) \in Values
<1>1. Defaults \in Channels
  BY DEF Defaults, Channels
<1> QED
  BY <1>1, ComputedIs

(* Between old and ch only sources have changed whose groups are dirty. *)
Covers(dirty, old, ch) ==
  \A source \in Sources : \A g \in Marks[source] \cap Feeds[source] :
    g \in dirty \/ ch[source] = old[source]

(* What a voice computes again follows the channel. *)
LEMMA RecomputedFollows ==
  ASSUME NEW s \in Strips, NEW old, NEW ch \in Channels, NEW dirty, Covers(dirty, old, ch),
         Follows(s.voice.last, old)
  PROVE  Recomputed(s, ch, dirty) \in Values /\ Follows(Recomputed(s, ch, dirty), ch)
<1> DEFINE val == Recomputed(s, ch, dirty)
<1>1. s.voice.last \in Values
  BY StripFields
<1>2. \A g \in Groups : s.voice.last[g] \in Channels
  BY <1>1 DEF Values
<1>3. \A g \in Groups : Computed(ch, g) \in Channels
  BY ComputedIs
<1>4. val \in Values
  BY <1>2, <1>3 DEF Recomputed, Values
<1>5. \A g \in Groups : val[g] = IF g \in dirty THEN Computed(ch, g) ELSE s.voice.last[g]
  BY DEF Recomputed
<1> HIDE DEF val
<1>6. ASSUME NEW source \in Sources, NEW g \in Marks[source] \cap Feeds[source]
      PROVE  val[g][source] = ch[source]
  <2>1. g \in Groups
    BY ModelAssumption
  <2>2. CASE g \in dirty
    BY <1>5, <2>1, <2>2, ComputedIs
  <2>3. CASE g \notin dirty
    BY <1>5, <2>1, <2>3 DEF Covers, Follows
  <2> QED
    BY <2>2, <2>3
<1> QED
  BY <1>4, <1>6 DEF val, Follows

(* A strip that does not sound fits whatever the channel is. *)
LEMMA SilentFits ==
  ASSUME NEW s \in Strips, NEW listed, NEW old, NEW ch, StripFits(s, listed, old), ~Sounding(s)
  PROVE  StripFits(s, listed, ch)
BY DEF StripFits

(* A controller or a tick: a voice that sounds sends what has changed. *)
LEMMA UpdateStrip ==
  ASSUME NEW s \in Strips, NEW listed, NEW old, NEW ch \in Channels, NEW dirty,
         Covers(dirty, old, ch), StripFits(s, listed, old)
  PROVE  /\ Updated(s, ch, dirty) \in Strips /\ StripFits(Updated(s, ch, dirty), listed, ch)
         /\ Keeps(s, Updated(s, ch, dirty))
<1> DEFINE val == Recomputed(s, ch, dirty)
<1>1. Keeps(s, s)
  BY DEF Keeps
<1>2. CASE ~Sounding(s)
  <2>1. Updated(s, ch, dirty) = s
    BY <1>2 DEF Updated
  <2> QED
    BY <1>1, <1>2, <2>1, SilentFits
<1>3. CASE Sounding(s)
  <2>1. val \in Values /\ Follows(val, ch)
    BY <1>3, RecomputedFollows DEF StripFits
  <2>2. Updated(s, ch, dirty) = IF val = s.voice.last THEN s
                                ELSE SendUpdate([s EXCEPT !.voice.last = val], val)
    BY <1>3 DEF Updated
  <2> HIDE DEF val
  <2>3. CASE val = s.voice.last
    BY <1>1, <1>3, <2>1, <2>2, <2>3 DEF StripFits
  <2>4. CASE val # s.voice.last
    <3> DEFINE x == [s.voice EXCEPT !.last = val]
               t == [s EXCEPT !.voice = x]
               sv == IF Takes(t) THEN [g \in Groups |-> IF s.mirror.val[g] = val[g]
                                                        THEN s.synth.val[g] ELSE val[g]]
                     ELSE s.synth.val
               m == [s.mirror EXCEPT !.val = val]
               y == [s.synth EXCEPT !.val = sv]
               u == [voice |-> x, mirror |-> m, synth |-> y, ended |-> s.ended]
    <3>1. /\ x \in VoiceRecords /\ x.state = s.voice.state /\ x.gen = s.voice.gen
          /\ x.last = val /\ x.region = s.voice.region /\ x.of = s.voice.of
      BY <2>1, StripFields DEF VoiceRecords
    <3>2. [s EXCEPT !.voice.last = val] = t
      BY StripFields DEF Strips
    <3>3. /\ t \in Strips /\ t.voice = x /\ t.mirror = s.mirror /\ t.synth = s.synth
          /\ t.ended = s.ended
      BY <3>1, VoiceReplaced
    <3> HIDE DEF x, t
    <3>4. /\ s.mirror.active = TRUE /\ s.mirror.val = s.voice.last
          /\ s.synth.gen = s.mirror.gen
          /\ s.synth.state # "off" => s.synth.val = s.voice.last
      BY <1>3 DEF StripFits
    <3>5. Takes(t) <=> s.synth.state # "off"
      BY <3>3, <3>4 DEF Takes
    <3>6. sv \in Values /\ (s.synth.state # "off" => sv = val)
      <4>1. s.synth.val \in Values
        BY StripFields
      <4>2. CASE s.synth.state = "off"
        BY <3>5, <4>1, <4>2
      <4>3. CASE s.synth.state # "off"
        <5>1. sv = [g \in Groups |-> val[g]]
          BY <3>4, <3>5, <4>3
        <5>2. val = [g \in Groups |-> val[g]]
          BY <2>1 DEF Values
        <5> QED
          BY <2>1, <5>1, <5>2
      <4> QED
        BY <4>2, <4>3
    <3>7. Updated(s, ch, dirty) = [t EXCEPT !.mirror.val = val, !.synth.val = sv]
      <4>1. t.mirror.active = TRUE /\ t.mirror.val # val
        BY <2>4, <3>3, <3>4
      <4>2. SendUpdate(t, val) = [t EXCEPT !.mirror.val = val, !.synth.val = sv]
        BY <3>3, <4>1 DEF SendUpdate
      <4> QED
        BY <2>2, <2>4, <3>2, <4>2
    <3> HIDE DEF sv
    <3>8. /\ m \in MirrorRecords /\ m.active = s.mirror.active /\ m.released = s.mirror.released
          /\ m.gen = s.mirror.gen /\ m.val = val
      BY <2>1, StripFields DEF MirrorRecords
    <3>9. y \in SynthRecords /\ y.state = s.synth.state /\ y.gen = s.synth.gen /\ y.val = sv
      BY <3>6, StripFields DEF SynthRecords
    <3>10. [t EXCEPT !.mirror.val = val, !.synth.val = sv] = [t EXCEPT !.mirror = m, !.synth = y]
      BY <3>3 DEF Strips
    <3> HIDE DEF m, y
    <3>11. Updated(s, ch, dirty) = u
      <4>1. [t EXCEPT !.mirror = m, !.synth = y]
              = [voice |-> t.voice, mirror |-> m, synth |-> y, ended |-> t.ended]
        BY <3>3, <3>8, <3>9, StripRebuilt
      <4> QED
        BY <3>3, <3>7, <3>10, <4>1
    <3>12. /\ u \in Strips /\ u.voice = x /\ u.mirror = m /\ u.synth = y /\ u.ended = s.ended
      BY <3>1, <3>8, <3>9, StripFields, StripMade
    <3> HIDE DEF u
    <3>13. Reported(u)
      BY <3>1, <3>9, <3>12 DEF StripFits, Reported, Sounding
    <3>14. StripFits(u, listed, ch)
      BY <1>3, <2>1, <3>1, <3>4, <3>6, <3>8, <3>9, <3>12, <3>13 DEF StripFits, Sounding
    <3>15. Keeps(s, u)
      BY <1>3, <3>1, <3>12 DEF Keeps
    <3> QED
      BY <3>11, <3>12, <3>14, <3>15
  <2> QED
    BY <2>3, <2>4
<1> QED
  BY <1>2, <1>3

(* The synthesizer's voice, ended, with its report.                        *)
Reports(s) == IF mode = "render" THEN s.ended \cup {s.synth.gen} ELSE s.ended

LEMMA EndsIs ==
  ASSUME NEW s \in Strips
  PROVE  LET y == [state |-> "off", gen |-> s.synth.gen, val |-> AllComputed(Defaults)]
         IN /\ y \in SynthRecords /\ y.state = "off" /\ y.gen = s.synth.gen
            /\ Reports(s) \in SUBSET Nat
            /\ Ends(s) = [voice |-> s.voice, mirror |-> s.mirror, synth |-> y,
                          ended |-> Reports(s)]
            /\ Ends(s) \in Strips /\ Ends(s).voice = s.voice /\ Ends(s).mirror = s.mirror
            /\ Ends(s).synth = y /\ Ends(s).ended = Reports(s)
<1> DEFINE y == [state |-> "off", gen |-> s.synth.gen, val |-> AllComputed(Defaults)]
           e == Reports(s)
           u == Ends(s)
<1>1. y \in SynthRecords /\ y.state = "off" /\ y.gen = s.synth.gen
  BY DefaultsIs, StripFields DEF SynthRecords
<1>2. e \in SUBSET Nat
  BY StripFields DEF Reports
<1>3. u = [s EXCEPT !.synth.state = "off", !.synth.val = AllComputed(Defaults), !.ended = e]
  BY DEF Ends, Reports, Strips
<1>4. [s.synth EXCEPT !.state = "off", !.val = AllComputed(Defaults)] = y
  <2> DEFINE z == [s.synth EXCEPT !.state = "off", !.val = AllComputed(Defaults)]
  <2>1. /\ z \in SynthRecords /\ z.state = "off" /\ z.gen = s.synth.gen
        /\ z.val = AllComputed(Defaults)
    BY DefaultsIs, StripFields DEF SynthRecords
  <2> HIDE DEF z
  <2>2. z = [state |-> z.state, gen |-> z.gen, val |-> z.val]
    BY <2>1 DEF SynthRecords
  <2> QED
    BY <2>1, <2>2 DEF z
<1> HIDE DEF y, e, u
<1>5. u = [s EXCEPT !.synth = y, !.ended = e]
  BY <1>3, <1>4 DEF Strips
<1>6. u \in Strips /\ u.voice = s.voice /\ u.mirror = s.mirror /\ u.synth = y /\ u.ended = e
  BY <1>1, <1>2, <1>5 DEF Strips
<1>7. u = [voice |-> s.voice, mirror |-> s.mirror, synth |-> y, ended |-> e]
  BY <1>6, StripIs
<1> QED
  BY <1>1, <1>2, <1>6, <1>7 DEF y, e, u

(* The sample or the release of a voice ends. *)
LEMMA EndsStrip ==
  ASSUME NEW s \in Strips, NEW listed, NEW ch, StripFits(s, listed, ch)
  PROVE  Ends(s) \in Strips /\ StripFits(Ends(s), listed, ch) /\ Keeps(s, Ends(s))
<1> DEFINE u == Ends(s)
<1>1. /\ u \in Strips /\ u.voice = s.voice /\ u.mirror = s.mirror /\ u.synth.state = "off"
      /\ u.synth.gen = s.synth.gen /\ u.ended = Reports(s)
  BY EndsIs
<1> HIDE DEF u
<1>2. Sounding(u) <=> Sounding(s)
  BY <1>1 DEF Sounding
<1>3. s.synth.gen \in Nat
  BY StripFields
<1>4. Reported(u)
  <2>1. \A g \in s.ended : g <= s.synth.gen
    BY DEF StripFits, Reported
  <2>2. \A g \in u.ended : g \in s.ended \/ g = s.synth.gen
    BY <1>1 DEF Reports
  <2>3. \A g \in u.ended : g <= u.synth.gen
    BY <1>1, <1>3, <2>1, <2>2
  <2>4. mode = "render" => u.synth.gen \in u.ended
    BY <1>1 DEF Reports
  <2> QED
    BY <1>1, <2>3, <2>4 DEF Reported
<1>5. StripFits(u, listed, ch)
  BY <1>1, <1>2, <1>4 DEF StripFits
<1> QED
  BY <1>1, <1>2, <1>5 DEF Keeps, u

(* The policy's own part of a voice that it stops or sees end. *)
LEMMA SilencedIs ==
  ASSUME NEW s \in Strips
  PROVE  LET t == Silenced(s)
         IN /\ t \in Strips /\ t.voice.state = "silent" /\ t.voice.gen = s.voice.gen
            /\ t.mirror.active = s.mirror.active /\ t.mirror.gen = s.mirror.gen
            /\ t.synth = s.synth /\ t.ended = s.ended
<1> DEFINE x == [SilentVoice EXCEPT !.gen = s.voice.gen]
           m == [s.mirror EXCEPT !.val = AllComputed(Defaults)]
           t == [s EXCEPT !.voice = x, !.mirror = m]
<1>1. x \in VoiceRecords /\ x.state = "silent" /\ x.gen = s.voice.gen
  <2>1. NoRegion \in Contents
    BY DEF NoRegion, Contents
  <2>2. 1 \in RegionIds
    BY RegionTypes, ModelAssumption
  <2>3. SilentVoice \in VoiceRecords /\ SilentVoice.state = "silent"
    BY <2>1, <2>2, DefaultsIs DEF SilentVoice, VoiceRecords
  <2>4. s.voice.gen \in Nat
    BY StripFields
  <2> QED
    BY <2>3, <2>4 DEF VoiceRecords
<1>2. m \in MirrorRecords /\ m.active = s.mirror.active /\ m.gen = s.mirror.gen
  BY DefaultsIs, StripFields DEF MirrorRecords
<1>3. Silenced(s) = t
  BY DEF Silenced, Strips
<1> HIDE DEF x, m
<1>4. t \in Strips /\ t.voice = x /\ t.mirror = m /\ t.synth = s.synth /\ t.ended = s.ended
  BY <1>1, <1>2 DEF Strips
<1> HIDE DEF t
<1> QED
  BY <1>1, <1>2, <1>3, <1>4

(* CC120: a voice that sounds is stopped and leaves the list. *)
LEMMA StopStrip ==
  ASSUME NEW s \in Strips, NEW listed, NEW ch, StripFits(s, listed, ch), Sounding(s)
  PROVE  /\ StopVoice(s) \in Strips /\ StripFits(StopVoice(s), FALSE, ch)
         /\ Keeps(s, StopVoice(s))
<1> DEFINE t == Silenced(s)
           e == IF Takes(t) THEN Ends(t) ELSE t
           m == [e.mirror EXCEPT !.active = FALSE, !.released = FALSE]
           u == [e EXCEPT !.mirror = m]
<1>1. /\ t \in Strips /\ t.voice.state = "silent" /\ t.voice.gen = s.voice.gen
      /\ t.mirror.active = TRUE /\ t.mirror.gen = s.voice.gen
      /\ t.synth = s.synth /\ t.ended = s.ended /\ t.synth.gen = s.voice.gen
  BY SilencedIs DEF StripFits
<1>2. StopVoice(s) = SendStop(t)
  BY DEF StopVoice
<1> HIDE DEF t
<1>3. Takes(t) <=> s.synth.state # "off"
  BY <1>1 DEF Takes
<1>4. /\ e \in Strips /\ e.voice = t.voice /\ e.mirror = t.mirror /\ e.synth.state = "off"
      /\ e.synth.gen = s.synth.gen
      /\ e.ended = IF Takes(t) THEN Reports(t) ELSE s.ended
  <2>1. CASE Takes(t)
    <3>1. e = Ends(t)
      BY <2>1
    <3> HIDE DEF e
    <3> QED
      BY <1>1, <2>1, <3>1, EndsIs
  <2>2. CASE ~Takes(t)
    BY <1>1, <1>3, <2>2
  <2> QED
    BY <2>1, <2>2
<1>5. SendStop(t) = [e EXCEPT !.mirror.active = FALSE, !.mirror.released = FALSE]
  BY <1>1 DEF SendStop
<1> HIDE DEF e
<1>6. m \in MirrorRecords /\ m.gen = e.mirror.gen
  BY <1>4, StripFields DEF MirrorRecords
<1>7. [e EXCEPT !.mirror.active = FALSE, !.mirror.released = FALSE] = u
  BY <1>4 DEF Strips
<1> HIDE DEF m
<1>8. /\ u \in Strips /\ u.voice = e.voice /\ u.mirror = m /\ u.synth = e.synth
      /\ u.ended = e.ended
  BY <1>4, <1>6 DEF Strips
<1> HIDE DEF u
<1>9. ~Sounding(u)
  BY <1>1, <1>4, <1>8 DEF Sounding
<1>10. Reported(u)
  <2>1. \A g \in s.ended : g <= s.synth.gen
    BY DEF StripFits, Reported
  <2>2. \A g \in u.ended : g \in s.ended \/ g = s.synth.gen
    BY <1>1, <1>4, <1>8 DEF Reports
  <2>3. s.synth.gen \in Nat
    BY StripFields
  <2>4. \A g \in u.ended : g <= u.synth.gen
    BY <1>4, <1>8, <2>1, <2>2, <2>3
  <2> QED
    BY <1>4, <1>8, <1>9, <2>4 DEF Reported
<1>11. StripFits(u, FALSE, ch)
  BY <1>1, <1>4, <1>6, <1>8, <1>9, <1>10 DEF StripFits
<1> QED
  BY <1>2, <1>5, <1>7, <1>8, <1>9, <1>11 DEF Keeps

(* Reports are taken: a voice they are about leaves the list. *)
LEMMA ReportStrip ==
  ASSUME NEW s \in Strips, NEW listed, NEW ch, StripFits(s, listed, ch), mode = "render"
  PROVE  /\ TakeReports(s) \in Strips
         /\ StripFits(TakeReports(s), listed /\ ~Over(s), ch)
         /\ Keeps(s, TakeReports(s))
<1> DEFINE t == IF Over(s) THEN Silenced(s) ELSE s
           u == [t EXCEPT !.ended = {}]
<1>1. TakeReports(s) = u
  BY DEF TakeReports
<1>2. /\ t \in Strips /\ t.voice.gen = s.voice.gen /\ t.mirror.gen = s.mirror.gen
      /\ t.synth = s.synth
  <2>1. CASE Over(s)
    <3>1. t = Silenced(s)
      BY <2>1
    <3> HIDE DEF t
    <3> QED
      BY <3>1, SilencedIs
  <2>2. CASE ~Over(s)
    BY <2>2
  <2> QED
    BY <2>1, <2>2
<1>3. Over(s) => t.voice.state = "silent"
  <2>1. Over(s) => t = Silenced(s)
    OBVIOUS
  <2> HIDE DEF t
  <2> QED
    BY <2>1, SilencedIs
<1>4. ~Over(s) => t = s
  OBVIOUS
<1> HIDE DEF t
<1>5. /\ u \in Strips /\ u.voice = t.voice /\ u.mirror = t.mirror /\ u.synth = t.synth
      /\ u.ended = {}
  BY <1>2 DEF Strips
<1> HIDE DEF u
<1>6. CASE Over(s)
  <2>1. s.synth.state = "off"
    BY <1>6 DEF Over, StripFits, Reported
  <2>2. u.voice.state = "silent" /\ ~Sounding(u)
    BY <1>3, <1>5, <1>6 DEF Sounding
  <2>3. Reported(u)
    BY <1>5, <2>2 DEF Reported
  <2>4. StripFits(u, listed /\ ~Over(s), ch)
    BY <1>2, <1>5, <1>6, <2>1, <2>2, <2>3 DEF StripFits
  <2> QED
    BY <1>1, <1>5, <2>2, <2>4 DEF Keeps
<1>7. CASE ~Over(s)
  <2>1. /\ u.voice = s.voice /\ u.mirror = s.mirror /\ u.synth = s.synth
        /\ (Sounding(u) <=> Sounding(s))
    BY <1>4, <1>5, <1>7 DEF Sounding
  <2>2. Sounding(s) => s.synth.state # "off"
    BY <1>7 DEF Over, StripFits, Reported
  <2>3. Reported(u)
    BY <1>5, <2>1, <2>2 DEF Reported
  <2>4. StripFits(u, listed /\ ~Over(s), ch)
    BY <1>7, <2>1, <2>3 DEF StripFits
  <2> QED
    BY <1>1, <1>5, <2>1, <2>4 DEF Keeps
<1> QED
  BY <1>6, <1>7

(* The voice a layer starts. *)
Restarted(s, x, val) == SendStart([s EXCEPT !.voice = x], val)

LEMMA StartStrip ==
  ASSUME NEW s \in Strips, NEW ch, s.voice.gen = s.synth.gen, s.voice.gen = s.mirror.gen,
         Reported(s), NEW x \in VoiceRecords, x.state = "held", x.gen = s.voice.gen + 1, NEW val \in Values,
         x.last = val, Follows(val, ch)
  PROVE  /\ Restarted(s, x, val) \in Strips /\ StripFits(Restarted(s, x, val), TRUE, ch)
         /\ Restarted(s, x, val).voice = x
<1> DEFINE a == [s EXCEPT !.voice = x]
           g == s.mirror.gen + 1
           m == [active |-> TRUE, released |-> FALSE, gen |-> g, val |-> val]
           y == [state |-> "on", gen |-> g, val |-> val]
           u == [voice |-> x, mirror |-> m, synth |-> y, ended |-> s.ended]
<1>1. a \in Strips /\ a.voice = x /\ a.mirror = s.mirror /\ a.ended = s.ended
  BY VoiceReplaced
<1> HIDE DEF a
<1>2. g \in Nat /\ g = x.gen /\ g = s.synth.gen + 1 /\ s.synth.gen \in Nat
  BY StripFields
<1> HIDE DEF g
<1>3. m \in MirrorRecords /\ y \in SynthRecords
  BY <1>2 DEF MirrorRecords, SynthRecords
<1>4. SendStart(a, val) = [a EXCEPT !.mirror = m, !.synth = y]
  BY <1>1 DEF SendStart, g
<1>5. m.active = TRUE /\ m.released = FALSE /\ m.gen = g /\ m.val = val
  OBVIOUS
<1>6. y.state = "on" /\ y.gen = g /\ y.val = val
  OBVIOUS
<1> HIDE DEF m, y
<1>7. SendStart(a, val) = u
  <2>1. [a EXCEPT !.mirror = m, !.synth = y]
          = [voice |-> a.voice, mirror |-> m, synth |-> y, ended |-> a.ended]
    <3>1. a \in Strips /\ m \in MirrorRecords /\ y \in SynthRecords
      BY <1>1, <1>3
    <3> QED
      BY <3>1, StripRebuilt, Zenon
  <2> QED
    BY <1>1, <1>4, <2>1
<1>8. u \in Strips /\ u.voice = x /\ u.mirror = m /\ u.synth = y /\ u.ended = s.ended
  BY <1>3, StripFields, StripMade
<1> HIDE DEF u
<1>9. Reported(u)
  <2>1. \A e \in s.ended : e \in Nat /\ e <= s.synth.gen
    BY StripFields DEF Reported
  <2>2. \A e \in u.ended : e <= u.synth.gen /\ e # u.synth.gen
    BY <1>2, <1>6, <1>8, <2>1
  <2> QED
    BY <1>6, <1>8, <2>2 DEF Reported
<1>10. StripFits(u, TRUE, ch)
  BY <1>2, <1>5, <1>6, <1>8, <1>9 DEF StripFits, Sounding
<1>11. LET t == SendStart(a, val) IN t \in Strips /\ StripFits(t, TRUE, ch) /\ t.voice = x
  BY <1>7, <1>8, <1>10
<1> QED
  BY <1>11 DEF a, Restarted

-----------------------------------------------------------------------------
(* The active list. *)

(* What is on a list. *)
LEMMA ListRange ==
  ASSUME NEW l \in Seq(ModelVoices)
  PROVE  /\ Len(l) \in Nat /\ DOMAIN l = 1 .. Len(l) /\ Range(l) \subseteq ModelVoices
         /\ \A v : v \in Range(l) <=> \E i \in 1 .. Len(l) : l[i] = v
BY DEF Range

(* activate_voice *)
LEMMA ActivateList ==
  ASSUME NEW l, ListOK(l), NEW v \in ModelVoices
  PROVE  ListOK(Activate(l, v)) /\ Range(Activate(l, v)) = Range(l) \cup {v}
<1>1. l \in Seq(ModelVoices)
  BY DEF ListOK
<1>2. CASE v \in Range(l)
  BY <1>2 DEF Activate
<1>3. CASE v \notin Range(l)
  <2> DEFINE k == Append(l, v)
  <2>1. Activate(l, v) = k
    BY <1>3 DEF Activate
  <2>2. /\ k \in Seq(ModelVoices) /\ Len(k) = Len(l) + 1 /\ Len(l) \in Nat
        /\ \A i \in 1 .. Len(l) : k[i] = l[i]
        /\ k[Len(l) + 1] = v
    BY <1>1, AppendTop
  <2> HIDE DEF k
  <2>3. \A i \in 1 .. Len(l) : l[i] # v
    BY <1>1, <1>3, ListRange
  <2>4. ListOK(k)
    <3>1. ASSUME NEW i \in 1 .. Len(k), NEW j \in 1 .. Len(k), k[i] = k[j] PROVE i = j
      <4>1. i \in 1 .. Len(l) \/ i = Len(l) + 1
        BY <2>2
      <4>2. j \in 1 .. Len(l) \/ j = Len(l) + 1
        BY <2>2
      <4> QED
        BY <2>2, <2>3, <3>1, <4>1, <4>2 DEF ListOK
    <3> QED
      BY <2>2, <3>1 DEF ListOK
  <2>5. ASSUME NEW w PROVE w \in Range(k) <=> w \in Range(l) \cup {v}
    <3>1. w \in Range(k) <=> \E i \in 1 .. Len(k) : k[i] = w
      BY <2>2, ListRange
    <3>2. w \in Range(l) <=> \E i \in 1 .. Len(l) : l[i] = w
      BY <1>1, ListRange
    <3>3. ASSUME NEW i \in 1 .. Len(k), k[i] = w PROVE w \in Range(l) \cup {v}
      <4>1. i \in 1 .. Len(l) \/ i = Len(l) + 1
        BY <2>2
      <4> QED
        BY <2>2, <3>2, <3>3, <4>1
    <3>4. ASSUME NEW i \in 1 .. Len(l), l[i] = w PROVE w \in Range(k)
      BY <2>2, <3>1, <3>4
    <3>5. v \in Range(k)
      <4>1. Len(l) + 1 \in 1 .. Len(k)
        BY <2>2
      <4> QED
        BY <2>2, <4>1, ListRange
    <3> QED
      BY <3>1, <3>2, <3>3, <3>4, <3>5
  <2> QED
    BY <2>1, <2>4, <2>5
<1> QED
  BY <1>2, <1>3

(* deactivate_voice: the last entry fills the hole. *)
LEMMA DeactivateList ==
  ASSUME NEW l, ListOK(l), NEW v
  PROVE  ListOK(Deactivate(l, v)) /\ Range(Deactivate(l, v)) = Range(l) \ {v}
<1>1. l \in Seq(ModelVoices)
  BY DEF ListOK
<1>2. CASE v \notin Range(l)
  BY <1>2 DEF Deactivate
<1>3. CASE v \in Range(l)
  <2> DEFINE i == CHOOSE n \in DOMAIN l : l[n] = v
             m == [l EXCEPT ![i] = Last(l)]
             k == Front(m)
             N == Len(l)
  <2>1. i \in 1 .. N /\ l[i] = v /\ N \in Nat
    BY <1>1, <1>3, ListRange
  <2>2. Deactivate(l, v) = k
    BY <1>3 DEF Deactivate
  <2> HIDE DEF i
  <2>3. l # << >> /\ Last(l) = l[N] /\ l[N] \in ModelVoices
    <3>1. l # << >>
      BY <2>1
    <3> QED
      BY <1>1, <3>1, FrontLast
  <2>4. m \in [1 .. N -> ModelVoices]
    <3>1. l \in [1 .. N -> ModelVoices]
      BY <1>1, ST!LenProperties
    <3> QED
      BY <2>1, <2>3, <3>1
  <2>5. m \in Seq(ModelVoices) /\ Len(m) = N /\ m # << >>
    <3> HIDE DEF m, N
    <3>1. m \in Seq(ModelVoices)
      BY <2>1, <2>4, ST!SeqDef
    <3>2. Len(m) = N
      BY <2>1, <2>4, <3>1, ST!LenProperties
    <3> QED
      BY <2>1, <3>1, <3>2
  <2>6. \A j \in 1 .. N : m[j] = IF j = i THEN l[N] ELSE l[j]
    BY <1>1, <2>3
  <2> HIDE DEF m
  <2>7. /\ k \in Seq(ModelVoices) /\ Len(k) = N - 1
        /\ \A j \in 1 .. N - 1 : k[j] = m[j]
    BY <2>5, FrontLast
  <2> HIDE DEF k
  <2>8. \A j \in 1 .. N - 1 : k[j] = IF j = i THEN l[N] ELSE l[j]
    BY <2>1, <2>6, <2>7
  <2>9. ListOK(k)
    <3>1. ASSUME NEW a \in 1 .. N - 1, NEW b \in 1 .. N - 1, k[a] = k[b] PROVE a = b
      BY <2>1, <2>8, <3>1 DEF ListOK
    <3> QED
      BY <2>7, <3>1 DEF ListOK
  <2>10. ASSUME NEW w PROVE w \in Range(k) <=> w \in Range(l) \ {v}
    <3>1. w \in Range(k) <=> \E j \in 1 .. N - 1 : k[j] = w
      BY <2>7, ListRange
    <3>2. w \in Range(l) <=> \E j \in 1 .. N : l[j] = w
      BY <1>1, ListRange
    <3>3. ASSUME NEW j \in 1 .. N - 1, k[j] = w PROVE w \in Range(l) \ {v}
      <4>1. CASE j = i
        BY <2>1, <2>8, <3>2, <3>3, <4>1 DEF ListOK
      <4>2. CASE j # i
        BY <2>1, <2>8, <3>2, <3>3, <4>2 DEF ListOK
      <4> QED
        BY <4>1, <4>2
    <3>4. ASSUME NEW j \in 1 .. N, l[j] = w, w # v PROVE w \in Range(k)
      <4>1. j # i
        BY <2>1, <3>4
      <4>2. CASE j = N
        <5>1. i \in 1 .. N - 1 /\ k[i] = w
          BY <2>1, <2>8, <3>4, <4>1, <4>2
        <5> QED
          BY <3>1, <5>1
      <4>3. CASE j # N
        <5>1. j \in 1 .. N - 1 /\ k[j] = w
          BY <2>1, <2>8, <3>4, <4>1, <4>3
        <5> QED
          BY <3>1, <5>1
      <4> QED
        BY <4>2, <4>3
    <3> QED
      BY <3>1, <3>2, <3>3, <3>4
  <2> QED
    BY <2>2, <2>9, <2>10
<1> QED
  BY <1>2, <1>3

-----------------------------------------------------------------------------
(* The loops over all voices. *)

(* No voice changed its region or began to sound. *)
KeepsAll(p, q) == \A v \in ModelVoices : Keeps(p.strips[v], q.strips[v])

(* Strips that fit make a policy that fits. *)
LEMMA LoopFits ==
  ASSUME NEW p \in Policies, ListOK(p.active), NEW g \in [ModelVoices -> Strips], NEW ch,
         \A v \in ModelVoices : /\ StripFits(g[v], v \in Range(p.active), ch)
                                /\ Keeps(p.strips[v], g[v])
  PROVE  LET q == [p EXCEPT !.strips = g] IN PolicyFits(q, ch) /\ KeepsAll(p, q)
<1> DEFINE q == [p EXCEPT !.strips = g]
<1>1. q \in Policies /\ q.strips = g /\ q.active = p.active
  BY DEF Policies
<1> HIDE DEF q
<1>2. PolicyFits(q, ch) /\ KeepsAll(p, q)
  BY <1>1 DEF PolicyFits, KeepsAll
<1> QED
  BY <1>2 DEF q

(* Nothing done keeps everything. *)
LEMMA KeepsNothing ==
  ASSUME NEW p
  PROVE  KeepsAll(p, p)
BY DEF KeepsAll, Keeps

(* One loop after another. *)
LEMMA KeepsOn ==
  ASSUME NEW p, NEW q, NEW r, KeepsAll(p, q), KeepsAll(q, r)
  PROVE  KeepsAll(p, r)
BY DEF KeepsAll, Keeps

(* Voices that sound are released. *)
LEMMA ReleaseLoop ==
  ASSUME NEW p, NEW ch, PolicyFits(p, ch), NEW vs \in SUBSET ModelVoices,
         \A v \in vs : Sounding(p.strips[v])
  PROVE  PolicyFits(ForVoices(p, vs, Release), ch) /\ KeepsAll(p, ForVoices(p, vs, Release))
<1> DEFINE g == [v \in ModelVoices |-> IF v \in vs THEN Release(p.strips[v]) ELSE p.strips[v]]
<1>1. p \in Policies /\ ListOK(p.active) /\ p.strips \in [ModelVoices -> Strips]
  BY DEF PolicyFits, Policies
<1>2. ForVoices(p, vs, Release) = [p EXCEPT !.strips = g]
  BY DEF ForVoices
<1>3. ASSUME NEW v \in ModelVoices
      PROVE  /\ g[v] \in Strips /\ StripFits(g[v], v \in Range(p.active), ch)
             /\ Keeps(p.strips[v], g[v])
  <2> DEFINE s == p.strips[v]
             listed == v \in Range(p.active)
  <2>1. s \in Strips /\ StripFits(s, listed, ch)
    BY <1>1 DEF PolicyFits
  <2>2. g[v] = IF v \in vs THEN Release(s) ELSE s
    OBVIOUS
  <2>3. v \in vs => Sounding(s)
    OBVIOUS
  <2> HIDE DEF s, listed, g
  <2>4. Keeps(s, s)
    BY DEF Keeps
  <2>5. v \in vs => /\ Release(s) \in Strips /\ StripFits(Release(s), listed, ch)
                    /\ Keeps(s, Release(s))
    BY <2>1, <2>3, ReleaseStrip
  <2>6. g[v] \in Strips /\ StripFits(g[v], listed, ch) /\ Keeps(s, g[v])
    BY <2>1, <2>2, <2>4, <2>5
  <2> QED
    BY <2>6 DEF s, listed
<1>4. g \in [ModelVoices -> Strips]
  BY <1>3
<1> HIDE DEF g
<1> QED
  BY <1>1, <1>2, <1>3, <1>4, LoopFits

(* The keys of voices that sound come up. *)
LEMMA KeyUpLoop ==
  ASSUME NEW p, NEW ch, PolicyFits(p, ch), NEW vs \in SUBSET ModelVoices,
         \A v \in vs : Sounding(p.strips[v])
  PROVE  PolicyFits(ForVoices(p, vs, KeyUp), ch) /\ KeepsAll(p, ForVoices(p, vs, KeyUp))
<1> DEFINE g == [v \in ModelVoices |-> IF v \in vs THEN KeyUp(p.strips[v]) ELSE p.strips[v]]
<1>1. p \in Policies /\ ListOK(p.active) /\ p.strips \in [ModelVoices -> Strips]
  BY DEF PolicyFits, Policies
<1>2. ForVoices(p, vs, KeyUp) = [p EXCEPT !.strips = g]
  BY DEF ForVoices
<1>3. ASSUME NEW v \in ModelVoices
      PROVE  /\ g[v] \in Strips /\ StripFits(g[v], v \in Range(p.active), ch)
             /\ Keeps(p.strips[v], g[v])
  <2> DEFINE s == p.strips[v]
             listed == v \in Range(p.active)
  <2>1. s \in Strips /\ StripFits(s, listed, ch)
    BY <1>1 DEF PolicyFits
  <2>2. g[v] = IF v \in vs THEN KeyUp(s) ELSE s
    OBVIOUS
  <2>3. v \in vs => Sounding(s)
    OBVIOUS
  <2> HIDE DEF s, listed, g
  <2>4. Keeps(s, s)
    BY DEF Keeps
  <2>5. v \in vs => /\ KeyUp(s) \in Strips /\ StripFits(KeyUp(s), listed, ch)
                    /\ Keeps(s, KeyUp(s))
    BY <2>1, <2>3, KeyUpStrip
  <2>6. g[v] \in Strips /\ StripFits(g[v], listed, ch) /\ Keeps(s, g[v])
    BY <2>1, <2>2, <2>4, <2>5
  <2> QED
    BY <2>6 DEF s, listed
<1>4. g \in [ModelVoices -> Strips]
  BY <1>3
<1> HIDE DEF g
<1> QED
  BY <1>1, <1>2, <1>3, <1>4, LoopFits

(* Sostenuto catches voices. *)
LEMMA MarkedLoop ==
  ASSUME NEW p, NEW ch, PolicyFits(p, ch), NEW vs \in SUBSET ModelVoices
  PROVE  PolicyFits(ForVoices(p, vs, Marked), ch) /\ KeepsAll(p, ForVoices(p, vs, Marked))
<1> DEFINE g == [v \in ModelVoices |-> IF v \in vs THEN Marked(p.strips[v]) ELSE p.strips[v]]
<1>1. p \in Policies /\ ListOK(p.active) /\ p.strips \in [ModelVoices -> Strips]
  BY DEF PolicyFits, Policies
<1>2. ForVoices(p, vs, Marked) = [p EXCEPT !.strips = g]
  BY DEF ForVoices
<1>3. ASSUME NEW v \in ModelVoices
      PROVE  /\ g[v] \in Strips /\ StripFits(g[v], v \in Range(p.active), ch)
             /\ Keeps(p.strips[v], g[v])
  <2> DEFINE s == p.strips[v]
             listed == v \in Range(p.active)
  <2>1. s \in Strips /\ StripFits(s, listed, ch)
    BY <1>1 DEF PolicyFits
  <2>2. g[v] = IF v \in vs THEN Marked(s) ELSE s
    OBVIOUS
  <2> HIDE DEF s, listed, g
  <2>4. Keeps(s, s)
    BY DEF Keeps
  <2>5. v \in vs => /\ Marked(s) \in Strips /\ StripFits(Marked(s), listed, ch)
                    /\ Keeps(s, Marked(s))
    BY <2>1, MarkStrip
  <2>6. g[v] \in Strips /\ StripFits(g[v], listed, ch) /\ Keeps(s, g[v])
    BY <2>1, <2>2, <2>4, <2>5
  <2> QED
    BY <2>6 DEF s, listed
<1>4. g \in [ModelVoices -> Strips]
  BY <1>3
<1> HIDE DEF g
<1> QED
  BY <1>1, <1>2, <1>3, <1>4, LoopFits

(* Sostenuto lets them go. *)
LEMMA UnmarkedLoop ==
  ASSUME NEW p, NEW ch, PolicyFits(p, ch), NEW vs \in SUBSET ModelVoices
  PROVE  PolicyFits(ForVoices(p, vs, Unmarked), ch) /\ KeepsAll(p, ForVoices(p, vs, Unmarked))
<1> DEFINE g == [v \in ModelVoices |-> IF v \in vs THEN Unmarked(p.strips[v]) ELSE p.strips[v]]
<1>1. p \in Policies /\ ListOK(p.active) /\ p.strips \in [ModelVoices -> Strips]
  BY DEF PolicyFits, Policies
<1>2. ForVoices(p, vs, Unmarked) = [p EXCEPT !.strips = g]
  BY DEF ForVoices
<1>3. ASSUME NEW v \in ModelVoices
      PROVE  /\ g[v] \in Strips /\ StripFits(g[v], v \in Range(p.active), ch)
             /\ Keeps(p.strips[v], g[v])
  <2> DEFINE s == p.strips[v]
             listed == v \in Range(p.active)
  <2>1. s \in Strips /\ StripFits(s, listed, ch)
    BY <1>1 DEF PolicyFits
  <2>2. g[v] = IF v \in vs THEN Unmarked(s) ELSE s
    OBVIOUS
  <2> HIDE DEF s, listed, g
  <2>4. Keeps(s, s)
    BY DEF Keeps
  <2>5. v \in vs => /\ Unmarked(s) \in Strips /\ StripFits(Unmarked(s), listed, ch)
                    /\ Keeps(s, Unmarked(s))
    BY <2>1, MarkStrip
  <2>6. g[v] \in Strips /\ StripFits(g[v], listed, ch) /\ Keeps(s, g[v])
    BY <2>1, <2>2, <2>4, <2>5
  <2> QED
    BY <2>6 DEF s, listed
<1>4. g \in [ModelVoices -> Strips]
  BY <1>3
<1> HIDE DEF g
<1> QED
  BY <1>1, <1>2, <1>3, <1>4, LoopFits

(* CC121 takes both pedals away. *)
(* The deferred voices are released. *)
LEMMA DeferredReleased ==
  ASSUME NEW p, NEW ch, PolicyFits(p, ch), NEW pedal
  PROVE  PolicyFits(ReleaseDeferred(p, pedal), ch) /\ KeepsAll(p, ReleaseDeferred(p, pedal))
<1> DEFINE vs == {v \in ModelVoices : /\ Sounding(p.strips[v]) /\ p.strips[v].voice.keyUp
                                      /\ ~pedal /\ ~p.strips[v].voice.sos}
<1>1. vs \in SUBSET ModelVoices /\ \A v \in vs : Sounding(p.strips[v])
  OBVIOUS
<1>2. ReleaseDeferred(p, pedal) = ForVoices(p, vs, Release)
  BY DEF ReleaseDeferred
<1> HIDE DEF vs
<1> QED
  BY <1>1, <1>2, ReleaseLoop

(* The voices of vs bring themselves up to date; any other voice that      *)
(* sounds had nothing to bring up to date.                                 *)
LEMMA UpdateLoop ==
  ASSUME NEW p, NEW old, PolicyFits(p, old), NEW ch \in Channels, NEW dirty, NEW vs,
         Covers(dirty, old, ch),
         \A v \in ModelVoices : v \in vs \/ ~Sounding(p.strips[v]) \/ old = ch
  PROVE  LET q == [p EXCEPT !.strips =
                     [v \in ModelVoices |-> IF v \in vs THEN Updated(p.strips[v], ch, dirty)
                                            ELSE p.strips[v]]]
         IN PolicyFits(q, ch) /\ KeepsAll(p, q)
<1> DEFINE g == [v \in ModelVoices |-> IF v \in vs THEN Updated(p.strips[v], ch, dirty)
                                       ELSE p.strips[v]]
<1>1. p \in Policies /\ ListOK(p.active) /\ p.strips \in [ModelVoices -> Strips]
  BY DEF PolicyFits, Policies
<1>2. ASSUME NEW v \in ModelVoices
      PROVE  /\ g[v] \in Strips /\ StripFits(g[v], v \in Range(p.active), ch)
             /\ Keeps(p.strips[v], g[v])
  <2> DEFINE s == p.strips[v]
             listed == v \in Range(p.active)
  <2>1. s \in Strips /\ StripFits(s, listed, old)
    BY <1>1 DEF PolicyFits
  <2>2. g[v] = IF v \in vs THEN Updated(s, ch, dirty) ELSE s
    OBVIOUS
  <2>3. v \in vs \/ ~Sounding(s) \/ old = ch
    OBVIOUS
  <2> HIDE DEF s, listed, g
  <2>4. CASE v \in vs
    <3>1. /\ Updated(s, ch, dirty) \in Strips /\ StripFits(Updated(s, ch, dirty), listed, ch)
          /\ Keeps(s, Updated(s, ch, dirty))
      BY <2>1, UpdateStrip
    <3> QED
      BY <2>2, <2>4, <3>1 DEF s, listed
  <2>5. CASE v \notin vs
    <3>1. StripFits(s, listed, ch)
      BY <2>1, <2>3, <2>5, SilentFits
    <3>2. Keeps(s, s)
      BY DEF Keeps
    <3> QED
      BY <2>1, <2>2, <2>5, <3>1, <3>2 DEF s, listed
  <2> QED
    BY <2>4, <2>5
<1>3. g \in [ModelVoices -> Strips]
  BY <1>2
<1> DEFINE q == [p EXCEPT !.strips = g]
<1>4. PolicyFits(q, ch) /\ KeepsAll(p, q)
  <2> HIDE DEF g
  <2> QED
    BY <1>1, <1>2, <1>3, LoopFits
<1> QED
  BY <1>4

(* Every voice that sounds follows a changed source. *)
LEMMA ControlsUpdated ==
  ASSUME NEW p, NEW old, PolicyFits(p, old), NEW ch \in Channels, NEW dirty,
         Covers(dirty, old, ch)
  PROVE  /\ PolicyFits(UpdateControls(p, ch, dirty), ch)
         /\ KeepsAll(p, UpdateControls(p, ch, dirty))
<1> DEFINE vs == Range(p.active)
           q == [p EXCEPT !.strips =
                   [v \in ModelVoices |-> IF v \in vs THEN Updated(p.strips[v], ch, dirty)
                                          ELSE p.strips[v]]]
<1>1. UpdateControls(p, ch, dirty) = q
  BY DEF UpdateControls, ForVoices
<1>2. \A v \in ModelVoices : v \in vs \/ ~Sounding(p.strips[v])
  BY DEF PolicyFits, StripFits
<1> HIDE DEF vs
<1>3. PolicyFits(q, ch) /\ KeepsAll(p, q)
  BY <1>2, UpdateLoop
<1> QED
  BY <1>1, <1>3

(* A voice of the synthesizer ends. *)
LEMMA EndsLoop ==
  ASSUME NEW p, NEW ch, PolicyFits(p, ch), NEW vs \in SUBSET ModelVoices
  PROVE  PolicyFits(ForVoices(p, vs, Ends), ch) /\ KeepsAll(p, ForVoices(p, vs, Ends))
<1> DEFINE g == [v \in ModelVoices |-> IF v \in vs THEN Ends(p.strips[v]) ELSE p.strips[v]]
<1>1. p \in Policies /\ ListOK(p.active) /\ p.strips \in [ModelVoices -> Strips]
  BY DEF PolicyFits, Policies
<1>2. ForVoices(p, vs, Ends) = [p EXCEPT !.strips = g]
  BY DEF ForVoices
<1>3. ASSUME NEW v \in ModelVoices
      PROVE  /\ g[v] \in Strips /\ StripFits(g[v], v \in Range(p.active), ch)
             /\ Keeps(p.strips[v], g[v])
  <2> DEFINE s == p.strips[v]
             listed == v \in Range(p.active)
  <2>1. s \in Strips /\ StripFits(s, listed, ch)
    BY <1>1 DEF PolicyFits
  <2>2. g[v] = IF v \in vs THEN Ends(s) ELSE s
    OBVIOUS
  <2> HIDE DEF s, listed, g
  <2>3. Keeps(s, s)
    BY DEF Keeps
  <2>4. Ends(s) \in Strips /\ StripFits(Ends(s), listed, ch) /\ Keeps(s, Ends(s))
    BY <2>1, EndsStrip
  <2>5. g[v] \in Strips /\ StripFits(g[v], listed, ch) /\ Keeps(s, g[v])
    BY <2>1, <2>2, <2>3, <2>4
  <2> QED
    BY <2>5 DEF s, listed
<1>4. g \in [ModelVoices -> Strips]
  BY <1>3
<1> HIDE DEF g
<1> QED
  BY <1>1, <1>2, <1>3, <1>4, LoopFits

(* The voices of a set leave the list one by one. *)
LEMMA AllLeaveList ==
  ASSUME NEW l, ListOK(l), NEW vs \in SUBSET ModelVoices,
         NEW left,
         left = [n \in 0 .. ModelVoiceCount |->
                   IF n = 0 THEN l
                   ELSE IF n - 1 \in vs THEN Deactivate(left[n - 1], n - 1) ELSE left[n - 1]]
  PROVE  /\ ListOK(left[ModelVoiceCount])
         /\ Range(left[ModelVoiceCount]) = Range(l) \ vs
<1> DEFINE V == [k \in 0 .. ModelVoiceCount |->
                   {x \in Seq(ModelVoices) :
                      ListOK(x) /\ Range(x) = Range(l) \ {v \in vs : v < k}}]
<1>1. ModelVoiceCount \in Nat /\ \A v \in vs : v \in Int /\ 0 <= v /\ v < ModelVoiceCount
  BY ModelAssumption DEF ModelVoices
<1>2. left[0] \in V[0]
  <2>1. left[0] = l /\ l \in Seq(ModelVoices)
    BY <1>1 DEF ListOK
  <2>2. {v \in vs : v < 0} = {}
    BY <1>1
  <2> QED
    BY <1>1, <2>1, <2>2
<1>3. ASSUME NEW k \in 1 .. ModelVoiceCount, left[k - 1] \in V[k - 1] PROVE left[k] \in V[k]
  <2> DEFINE x == left[k - 1]
  <2>1. k \in 0 .. ModelVoiceCount /\ k # 0 /\ k - 1 \in 0 .. ModelVoiceCount
    BY <1>1
  <2>2. left[k] = IF k - 1 \in vs THEN Deactivate(x, k - 1) ELSE x
    BY <2>1
  <2>3. ListOK(x) /\ Range(x) = Range(l) \ {v \in vs : v < k - 1}
    BY <1>3, <2>1
  <2> HIDE DEF x
  <2>4. CASE k - 1 \in vs
    <3>1. ListOK(left[k]) /\ Range(left[k]) = Range(x) \ {k - 1}
      BY <2>2, <2>3, <2>4, DeactivateList
    <3>2. {v \in vs : v < k} = {v \in vs : v < k - 1} \cup {k - 1}
      BY <1>1, <2>4
    <3>3. left[k] \in Seq(ModelVoices) /\ Range(left[k]) = Range(l) \ {v \in vs : v < k}
      BY <2>3, <3>1, <3>2 DEF ListOK
    <3> QED
      BY <2>1, <3>1, <3>3
  <2>5. CASE k - 1 \notin vs
    <3>1. {v \in vs : v < k} = {v \in vs : v < k - 1}
      BY <1>1, <2>5
    <3>2. left[k] = x /\ x \in Seq(ModelVoices)
      BY <2>2, <2>3, <2>5 DEF ListOK
    <3> QED
      BY <2>1, <2>3, <3>1, <3>2
  <2> QED
    BY <2>4, <2>5
<1>4. \A k \in 0 .. ModelVoiceCount : left[k] \in V[k]
  <2> HIDE DEF V
  <2> QED
    BY <1>1, <1>2, <1>3, RunStaysIn
<1>5. {v \in vs : v < ModelVoiceCount} = vs
  BY <1>1
<1>6. ModelVoiceCount \in 0 .. ModelVoiceCount
  BY <1>1
<1> QED
  BY <1>4, <1>5, <1>6

(* There is such a list of lists. *)
LEMMA LeavingListExists ==
  ASSUME NEW l, ListOK(l), NEW vs
  PROVE  \E left : left = [n \in 0 .. ModelVoiceCount |->
                             IF n = 0 THEN l
                             ELSE IF n - 1 \in vs THEN Deactivate(left[n - 1], n - 1)
                                  ELSE left[n - 1]]
<1> DEFINE LL == {x \in Seq(ModelVoices) : ListOK(x)}
           V == [k \in 0 .. ModelVoiceCount |-> LL]
           G == [k \in 1 .. ModelVoiceCount |->
                   [x \in LL |-> IF k - 1 \in vs THEN Deactivate(x, k - 1) ELSE x]]
<1>1. ModelVoiceCount \in Nat
  BY ModelAssumption
<1>2. l \in V[0]
  BY <1>1 DEF ListOK
<1>3. ASSUME NEW k \in 1 .. ModelVoiceCount, NEW x \in V[k - 1] PROVE G[k][x] \in V[k]
  <2>1. k - 1 \in 0 .. ModelVoiceCount /\ k \in 0 .. ModelVoiceCount
    BY <1>1
  <2>2. x \in LL
    BY <1>3, <2>1
  <2>3. Deactivate(x, k - 1) \in LL
    BY <2>2, DeactivateList DEF ListOK
  <2> QED
    BY <2>1, <2>2, <2>3
<1>4. PICK f : Runs(f, l, G, ModelVoiceCount) /\ \A k \in 0 .. ModelVoiceCount : f[k] \in V[k]
  <2> HIDE DEF V, G
  <2> QED
    BY <1>1, <1>2, <1>3, RunInExists
<1>5. ASSUME NEW k \in 0 .. ModelVoiceCount
      PROVE  (IF k = 0 THEN l ELSE G[k][f[k - 1]])
               = IF k = 0 THEN l
                 ELSE IF k - 1 \in vs THEN Deactivate(f[k - 1], k - 1) ELSE f[k - 1]
  <2>1. CASE k = 0
    BY <2>1
  <2>2. CASE k # 0
    <3>1. k \in 1 .. ModelVoiceCount /\ k - 1 \in 0 .. ModelVoiceCount
      BY <1>1, <2>2
    <3>2. f[k - 1] \in LL
      BY <1>4, <3>1
    <3> QED
      BY <2>2, <3>1, <3>2
  <2> QED
    BY <2>1, <2>2
<1> HIDE DEF G
<1>6. f = [n \in 0 .. ModelVoiceCount |->
             IF n = 0 THEN l
             ELSE IF n - 1 \in vs THEN Deactivate(f[n - 1], n - 1) ELSE f[n - 1]]
  BY <1>4, <1>5 DEF Runs
<1> QED
  BY <1>6

LEMMA WithoutIs ==
  ASSUME NEW l, ListOK(l), NEW vs \in SUBSET ModelVoices
  PROVE  ListOK(Without(l, vs)) /\ Range(Without(l, vs)) = Range(l) \ vs
<1> DEFINE Made(left) == left = [n \in 0 .. ModelVoiceCount |->
                                   IF n = 0 THEN l
                                   ELSE IF n - 1 \in vs THEN Deactivate(left[n - 1], n - 1)
                                        ELSE left[n - 1]]
           made == CHOOSE x : Made(x)
<1>1. Without(l, vs) = made[ModelVoiceCount]
  BY DEF Without
<1>2. Made(made)
  <2>1. \E left : Made(left)
    BY LeavingListExists
  <2> HIDE DEF Made
  <2> QED
    BY <2>1
<1> HIDE DEF made
<1>3. ListOK(made[ModelVoiceCount]) /\ Range(made[ModelVoiceCount]) = Range(l) \ vs
  BY <1>2, AllLeaveList
<1> QED
  BY <1>1, <1>3

(* Strips that fit with a new list make a policy that fits. *)
LEMMA ListLoopFits ==
  ASSUME NEW p \in Policies, NEW list, ListOK(list), NEW g \in [ModelVoices -> Strips], NEW ch,
         \A v \in ModelVoices : /\ StripFits(g[v], v \in Range(list), ch)
                                /\ Keeps(p.strips[v], g[v])
  PROVE  LET q == [[p EXCEPT !.strips = g] EXCEPT !.active = list]
         IN PolicyFits(q, ch) /\ KeepsAll(p, q)
<1> DEFINE q == [[p EXCEPT !.strips = g] EXCEPT !.active = list]
<1>1. q \in Policies /\ q.strips = g /\ q.active = list
  BY DEF Policies, ListOK
<1> HIDE DEF q
<1>2. PolicyFits(q, ch) /\ KeepsAll(p, q)
  BY <1>1 DEF PolicyFits, KeepsAll
<1> QED
  BY <1>2 DEF q

(* Every voice that sounds is stopped. *)
LEMMA AllStopped ==
  ASSUME NEW p, NEW ch, PolicyFits(p, ch)
  PROVE  PolicyFits(StopAll(p), ch) /\ KeepsAll(p, StopAll(p))
<1> DEFINE vs == {v \in ModelVoices : Sounding(p.strips[v])}
           list == Without(p.active, vs)
           g == [v \in ModelVoices |-> IF v \in vs THEN StopVoice(p.strips[v])
                                       ELSE p.strips[v]]
           q == [[p EXCEPT !.strips = g] EXCEPT !.active = list]
<1>1. /\ p \in Policies /\ ListOK(p.active) /\ p.strips \in [ModelVoices -> Strips]
      /\ vs \in SUBSET ModelVoices
  BY DEF PolicyFits, Policies
<1>2. StopAll(p) = q
  BY <1>1 DEF StopAll, ForVoices, Policies
<1>3. ListOK(list) /\ Range(list) = Range(p.active) \ vs
  <2> HIDE DEF vs
  <2> QED
    BY <1>1, WithoutIs
<1> HIDE DEF list
<1>4. ASSUME NEW v \in ModelVoices
      PROVE  /\ g[v] \in Strips /\ StripFits(g[v], v \in Range(list), ch)
             /\ Keeps(p.strips[v], g[v])
  <2> DEFINE s == p.strips[v]
             listed == v \in Range(p.active)
  <2>1. s \in Strips /\ StripFits(s, listed, ch)
    BY <1>1 DEF PolicyFits
  <2>2. g[v] = (IF v \in vs THEN StopVoice(s) ELSE s) /\ (v \in vs <=> Sounding(s))
    OBVIOUS
  <2>3. v \in Range(list) <=> listed /\ ~(v \in vs)
    BY <1>3
  <2> HIDE DEF s, listed, g, vs
  <2>4. CASE v \in vs
    <3>1. /\ StopVoice(s) \in Strips /\ StripFits(StopVoice(s), FALSE, ch)
          /\ Keeps(s, StopVoice(s))
      BY <2>1, <2>2, <2>4, StopStrip
    <3>2. v \notin Range(list)
      BY <2>3, <2>4
    <3>3. StripFits(StopVoice(s), v \in Range(list), ch)
      BY <3>1, <3>2 DEF StripFits
    <3> QED
      BY <2>2, <2>4, <3>1, <3>3 DEF s
  <2>5. CASE v \notin vs
    <3>1. StripFits(s, v \in Range(list), ch)
      BY <2>1, <2>2, <2>3, <2>5 DEF StripFits
    <3> QED
      BY <2>1, <2>2, <2>5, <3>1 DEF s, Keeps
  <2> QED
    BY <2>4, <2>5
<1>5. g \in [ModelVoices -> Strips]
  BY <1>4
<1> HIDE DEF g
<1>6. PolicyFits(q, ch) /\ KeepsAll(p, q)
  BY <1>1, <1>3, <1>4, <1>5, ListLoopFits
<1> QED
  BY <1>2, <1>6

(* A render takes the reports there are. *)
LEMMA ReportsTaken ==
  ASSUME NEW p, NEW ch, PolicyFits(p, ch), mode = "render"
  PROVE  PolicyFits(Completed(p), ch) /\ KeepsAll(p, Completed(p))
<1> DEFINE vs == {v \in ModelVoices : Over(p.strips[v])}
           list == Without(p.active, vs)
           g == [v \in ModelVoices |-> TakeReports(p.strips[v])]
           q == [[p EXCEPT !.strips = g] EXCEPT !.active = list]
<1>1. /\ p \in Policies /\ ListOK(p.active) /\ p.strips \in [ModelVoices -> Strips]
      /\ vs \in SUBSET ModelVoices
  BY DEF PolicyFits, Policies
<1>2. Completed(p) = q
  <2> HIDE DEF vs
  <2>1. Completed(p) = [ForVoices(p, ModelVoices, TakeReports) EXCEPT !.active = Without(@, vs)]
    BY DEF Completed, vs
  <2>2. ForVoices(p, ModelVoices, TakeReports) = [p EXCEPT !.strips = g]
    BY DEF ForVoices
  <2>3. [p EXCEPT !.strips = g].active = p.active
    BY <1>1 DEF Policies
  <2> HIDE DEF g
  <2> QED
    BY <2>1, <2>2, <2>3
<1>3. ListOK(list) /\ Range(list) = Range(p.active) \ vs
  <2> HIDE DEF vs
  <2> QED
    BY <1>1, WithoutIs
<1> HIDE DEF list
<1>4. ASSUME NEW v \in ModelVoices
      PROVE  /\ g[v] \in Strips /\ StripFits(g[v], v \in Range(list), ch)
             /\ Keeps(p.strips[v], g[v])
  <2> DEFINE s == p.strips[v]
             listed == v \in Range(p.active)
  <2>1. s \in Strips /\ StripFits(s, listed, ch)
    BY <1>1 DEF PolicyFits
  <2>2. g[v] = TakeReports(s) /\ (v \in vs <=> Over(s))
    OBVIOUS
  <2>3. (v \in Range(list)) <=> (listed /\ ~Over(s))
    BY <1>3, <2>2
  <2> HIDE DEF s, listed, g, vs
  <2>4. /\ TakeReports(s) \in Strips
        /\ StripFits(TakeReports(s), listed /\ ~Over(s), ch)
        /\ Keeps(s, TakeReports(s))
    BY <2>1, ReportStrip
  <2>5. StripFits(TakeReports(s), v \in Range(list), ch)
    BY <2>3, <2>4 DEF StripFits
  <2> QED
    BY <2>2, <2>4, <2>5 DEF s
<1>5. g \in [ModelVoices -> Strips]
  BY <1>4
<1> HIDE DEF g
<1>6. PolicyFits(q, ch) /\ KeepsAll(p, q)
  BY <1>1, <1>3, <1>4, <1>5, ListLoopFits
<1> QED
  BY <1>2, <1>6

(* A note starts. *)

(* Policy and regions at once. *)
Fine(p, content, bank) ==
  /\ PolicyFits(p, channel)
  /\ \A v \in ModelVoices : RegionFits(p.strips[v].voice, content, bank)

(* Regions still fit when no voice changed its own. *)
LEMMA KeepsRegions ==
  ASSUME NEW p, NEW q, KeepsAll(p, q), NEW content, NEW bank,
         \A v \in ModelVoices : RegionFits(p.strips[v].voice, content, bank)
  PROVE  \A v \in ModelVoices : RegionFits(q.strips[v].voice, content, bank)
BY DEF KeepsAll, Keeps, RegionFits, Sounding

(* note_on of one layer, of a region an entry of the bank has. *)
LEMMA LayerStarts ==
  ASSUME NEW p, NEW content \in [RegionIds -> Contents], NEW bank, Fine(p, content, bank),
         channel \in Channels, NEW v \in ModelVoices, NEW r \in RegionIds, NEW k \in Keys,
         NEW inst \in Nat, mode = "host" => \E j \in DOMAIN bank : r \in SlotsOf(bank[j])
  PROVE  Fine(StartLayer(p, v, r, content, k, inst), content, bank)
<1> DEFINE vs == {w \in ModelVoices :
                    /\ Sounding(p.strips[w])
                    /\ Excludes(content[r], content[p.strips[w].voice.region])}
           q == ForVoices(p, vs, Release)
           val == AllComputed(channel)
           x == [state |-> "held", key |-> k, region |-> r, of |-> content[r], inst |-> inst,
                 gen |-> q.strips[v].voice.gen + 1, keyUp |-> FALSE,
                 sos |-> FALSE, last |-> val]
           t == SendStart([q.strips[v] EXCEPT !.voice = x], val)
           z == [strips |-> [q.strips EXCEPT ![v] = t], active |-> Activate(q.active, v)]
<1>1. PolicyFits(p, channel) /\ \A w \in ModelVoices : RegionFits(p.strips[w].voice, content, bank)
  BY DEF Fine
<1>2. PolicyFits(q, channel) /\ KeepsAll(p, q)
  <2>1. vs \in SUBSET ModelVoices /\ \A w \in vs : Sounding(p.strips[w])
    OBVIOUS
  <2> HIDE DEF vs
  <2> QED
    BY <1>1, <2>1, ReleaseLoop
<1>3. StartLayer(p, v, r, content, k, inst) = z
  <2>1. q.strips[v] \in Strips
    <3> HIDE DEF q
    <3> QED
      BY <1>2 DEF PolicyFits, Policies
  <2> QED
    BY <2>1 DEF StartLayer, Strips
<1> HIDE DEF q
<1>4. /\ q \in Policies /\ q.strips \in [ModelVoices -> Strips] /\ ListOK(q.active)
      /\ q.strips[v] \in Strips /\ StripFits(q.strips[v], v \in Range(q.active), channel)
  BY <1>2 DEF PolicyFits, Policies
<1>5. x \in VoiceRecords /\ x.state = "held" /\ x.gen = q.strips[v].voice.gen + 1
      /\ x.last = val /\ x.region = r /\ x.of = content[r]
  <2>1. q.strips[v].voice.gen + 1 \in Nat /\ content[r] \in Contents /\ k \in Keys \cup {"none"}
    BY <1>4, StripFields
  <2>2. val \in Values
    BY ComputedIs
  <2> HIDE DEF val
  <2> QED
    BY <2>1, <2>2 DEF VoiceRecords
<1> HIDE DEF x
<1>6. t \in Strips /\ StripFits(t, TRUE, channel) /\ t.voice = x
  <2> DEFINE s == q.strips[v]
  <2>1. val \in Values /\ Follows(val, channel)
    BY ComputedIs
  <2>2. /\ s \in Strips /\ x \in VoiceRecords
        /\ x.state = "held" /\ x.gen = s.voice.gen + 1 /\ x.last = val
        /\ s.voice.gen = s.synth.gen /\ s.voice.gen = s.mirror.gen /\ Reported(s)
    BY <1>4, <1>5 DEF StripFits
  <2>3. t = Restarted(s, x, val)
    BY DEF Restarted
  <2> HIDE DEF val, s, t
  <2> QED
    BY <2>1, <2>2, <2>3, StartStrip
<1> HIDE DEF t
<1>7. /\ ListOK(Activate(q.active, v))
      /\ Range(Activate(q.active, v)) = Range(q.active) \cup {v}
  BY <1>4, ActivateList
<1>8. /\ z \in Policies /\ z.active = Activate(q.active, v)
      /\ \A w \in ModelVoices : z.strips[w] = IF w = v THEN t ELSE q.strips[w]
  BY <1>4, <1>6, <1>7 DEF Policies, ListOK
<1> HIDE DEF z
<1>9. ASSUME NEW w \in ModelVoices
      PROVE  /\ StripFits(z.strips[w], w \in Range(z.active), channel)
             /\ RegionFits(z.strips[w].voice, content, bank)
  <2>1. CASE w = v
    <3>1. z.strips[w] = t /\ (w \in Range(z.active)) = TRUE
      BY <1>7, <1>8, <2>1
    <3>2. RegionFits(x, content, bank)
      BY <1>5 DEF RegionFits
    <3> QED
      BY <1>6, <3>1, <3>2
  <2>2. CASE w # v
    <3>1. z.strips[w] = q.strips[w] /\ (w \in Range(z.active)) = (w \in Range(q.active))
      BY <1>7, <1>8, <2>2
    <3>2. StripFits(q.strips[w], w \in Range(q.active), channel)
      BY <1>2 DEF PolicyFits
    <3>3. RegionFits(q.strips[w].voice, content, bank)
      BY <1>1, <1>2, KeepsRegions
    <3> QED
      BY <3>1, <3>2, <3>3
  <2> QED
    BY <2>1, <2>2
<1> QED
  BY <1>3, <1>7, <1>8, <1>9 DEF Fine, PolicyFits

-----------------------------------------------------------------------------
(* The region bank. *)

(* What is left of the bank after evictions: entries in use all stay. *)
PartOf(bank) ==
  /\ bank \in Banks /\ DOMAIN bank \subseteq DOMAIN entries
  /\ \A k \in DOMAIN bank : bank[k] = entries[k]
  /\ \A k \in DOMAIN entries : InUse(entries[k]) => k \in DOMAIN bank

(* A bank's entries. *)
LEMMA BankFields ==
  ASSUME NEW bank \in Banks
  PROVE  DOMAIN bank \subseteq Keys /\ \A k \in DOMAIN bank : bank[k] \in BankEntry
BY DEF Banks

(* A function on keys with entries for values is a bank. *)
LEMMA BankIs ==
  ASSUME NEW D \in SUBSET Keys, NEW bank \in [D -> BankEntry]
  PROVE  bank \in Banks /\ DOMAIN bank = D
BY DEF Banks

(* evict_one takes an entry nobody uses. *)
LEMMA EvictKeeps ==
  ASSUME NEW bank, PartOf(bank)
  PROVE  PartOf(Evict(bank))
<1>1. /\ bank \in Banks /\ DOMAIN bank \subseteq Keys
      /\ \A k \in DOMAIN bank : bank[k] \in BankEntry
  BY BankFields DEF PartOf
<1>2. CASE Unused(bank) = {}
  BY <1>2 DEF Evict
<1>3. CASE Unused(bank) # {}
  <2> DEFINE Oldest(k) == \A j \in Unused(bank) : bank[k].last_use <= bank[j].last_use
             victim == CHOOSE k \in Unused(bank) : Oldest(k)
             D == DOMAIN bank \ {victim}
             b == [k \in D |-> bank[k]]
             T == {bank[k].last_use : k \in Unused(bank)}
  <2>1. Unused(bank) \subseteq DOMAIN bank /\ \A k \in Unused(bank) : bank[k].last_use \in Nat
    BY <1>1 DEF Unused, BankEntry
  <2>2. \E k \in Unused(bank) : Oldest(k)
    <3>1. T \subseteq Nat /\ T # {}
      BY <1>3, <2>1
    <3> HIDE DEF T
    <3>2. PICK x \in T : \A y \in T : ~(y < x)
      BY <3>1, LeastNatural
    <3>3. PICK k \in Unused(bank) : bank[k].last_use = x
      BY <3>2 DEF T
    <3>4. ASSUME NEW j \in Unused(bank) PROVE bank[k].last_use <= bank[j].last_use
      <4>1. bank[j].last_use \in T
        BY DEF T
      <4> QED
        BY <2>1, <3>2, <3>3, <4>1
    <3> QED
      BY <3>4
  <2>3. victim \in Unused(bank)
    <3> HIDE DEF Oldest
    <3> QED
      BY <2>2
  <2>4. Evict(bank) = b
    BY <1>3 DEF Evict
  <2> HIDE DEF victim
  <2>5. victim \in DOMAIN bank /\ ~InUse(bank[victim])
    BY <2>3 DEF Unused
  <2>6. b \in Banks /\ DOMAIN b = D /\ \A k \in D : b[k] = bank[k]
    <3>1. D \in SUBSET Keys /\ b \in [D -> BankEntry]
      BY <1>1
    <3>2. \A k \in D : b[k] = bank[k]
      OBVIOUS
    <3> HIDE DEF b, D
    <3> QED
      BY <3>1, <3>2, BankIs
  <2> HIDE DEF b
  <2>7. PartOf(b)
    BY <2>5, <2>6 DEF PartOf
  <2> QED
    BY <2>4, <2>7
<1> QED
  BY <1>2, <1>3

(* Any number of evictions. *)
LEMMA AfterKeeps ==
  ASSUME entries \in Banks, NEW n \in Nat
  PROVE  PartOf(After(n))
<1> DEFINE P == {b \in Banks : PartOf(b)}
           V == [i \in 0 .. n |-> P]
           G == [i \in 1 .. n |-> [b \in P |-> Evict(b)]]
           Made(f) == f = [i \in 0 .. n |-> IF i = 0 THEN entries ELSE Evict(f[i - 1])]
           made == CHOOSE f : Made(f)
<1>1. entries \in P
  BY DEF PartOf
<1>2. ASSUME NEW b \in P PROVE Evict(b) \in P
  BY <1>2, EvictKeeps DEF PartOf
<1> HIDE DEF P
<1>3. \A i \in 1 .. n : \A b \in V[i - 1] : G[i][b] \in V[i]
  <2>1. ASSUME NEW i \in 1 .. n PROVE i - 1 \in 0 .. n /\ i \in 0 .. n
    OBVIOUS
  <2> QED
    BY <1>2, <2>1
<1>4. PICK f : Runs(f, entries, G, n) /\ \A i \in 0 .. n : f[i] \in V[i]
  <2>1. entries \in V[0]
    BY <1>1
  <2> HIDE DEF V, G
  <2> QED
    BY <1>3, <2>1, RunInExists
<1>5. Made(f)
  <2>1. ASSUME NEW i \in 0 .. n
        PROVE  (IF i = 0 THEN entries ELSE G[i][f[i - 1]])
                 = IF i = 0 THEN entries ELSE Evict(f[i - 1])
    <3>1. CASE i = 0
      BY <3>1
    <3>2. CASE i # 0
      <4>1. i \in 1 .. n /\ i - 1 \in 0 .. n
        BY <3>2
      <4>2. f[i - 1] \in P
        BY <1>4, <4>1
      <4> QED
        BY <3>2, <4>1, <4>2
    <3> QED
      BY <3>1, <3>2
  <2> HIDE DEF G
  <2> QED
    BY <1>4, <2>1 DEF Runs
<1>6. Made(made)
  BY <1>5
<1>7. After(n) = made[n]
  BY DEF After
<1> HIDE DEF made
<1>8. \A i \in 0 .. n : made[i] \in V[i]
  <2>1. made[0] \in V[0]
    BY <1>1, <1>6
  <2>2. ASSUME NEW i \in 1 .. n, made[i - 1] \in V[i - 1] PROVE made[i] \in V[i]
    <3>1. i \in 0 .. n /\ i # 0 /\ i - 1 \in 0 .. n
      OBVIOUS
    <3>2. made[i] = Evict(made[i - 1])
      BY <1>6, <3>1
    <3> QED
      BY <1>2, <2>2, <3>1, <3>2
  <2> HIDE DEF Made, V
  <2> QED
    BY <2>1, <2>2, RunStaysIn
<1>9. made[n] \in P
  BY <1>8
<1> QED
  BY <1>7, <1>9 DEF P

(* The regions that voices point into outlive any number of evictions. *)
LEMMA RegionsOutlive ==
  ASSUME entries \in Banks, NEW n \in Nat, mode = "host", NEW v \in ModelVoices,
         voices[v].state # "silent", voices[v].region \in RegionIds, v \in Range(active),
         RegionFits(voices[v], regions, entries)
  PROVE  /\ RegionsAfter(n)[voices[v].region] = voices[v].of
         /\ \E k \in DOMAIN After(n) : voices[v].region \in SlotsOf(After(n)[k])
<1> DEFINE r == voices[v].region
<1>1. regions[r] = voices[v].of /\ \E k \in DOMAIN entries : r \in SlotsOf(entries[k])
  BY DEF RegionFits
<1>2. PICK i \in DOMAIN active : active[i] = v
  BY DEF Range
<1>3. \A k \in DOMAIN entries : r \in SlotsOf(entries[k]) => InUse(entries[k])
  BY <1>2 DEF InUse
<1>4. PartOf(After(n))
  BY AfterKeeps
<1>5. RegionsAfter(n)[r] = regions[r]
  BY <1>3, <1>4 DEF RegionsAfter, PartOf
<1>6. \E k \in DOMAIN After(n) : r \in SlotsOf(After(n)[k])
  BY <1>1, <1>3, <1>4 DEF PartOf
<1> QED
  BY <1>1, <1>5, <1>6

(* The least of some numbers. *)
LEMMA LeastIn ==
  ASSUME NEW T, T \subseteq Nat, T # {}
  PROVE  Min(T) \in T /\ \A y \in T : Min(T) <= y
<1> DEFINE Least(x) == \A y \in T : x =< y
<1>1. PICK x \in T : \A y \in T : ~(y < x)
  BY LeastNatural
<1>2. Least(x)
  BY <1>1
<1>3. Min(T) = CHOOSE z \in T : Least(z)
  BY DEF Min
<1>4. Min(T) \in T /\ Least(Min(T))
  <2> HIDE DEF Least
  <2> QED
    BY <1>2, <1>3
<1> QED
  BY <1>4

(* claim_slots takes slots that are free. *)
LEMMA SlotsAreFree ==
  ASSUME NEW free \in SUBSET (1 .. BankSlots), NEW n \in Nat, Cardinality(free) >= n
  PROVE  FirstSlots(free, n) \in [1 .. n -> free]
<1> DEFINE C == Cardinality(free)
           V == [i \in 0 .. n |-> {T \in SUBSET free : Cardinality(T) = C - i}]
           G == [i \in 1 .. n |-> [T \in SUBSET free |-> T \ {Min(T)}]]
           Made(f) == f = [i \in 0 .. n |-> IF i = 0 THEN free ELSE f[i - 1] \ {Min(f[i - 1])}]
           made == CHOOSE f : Made(f)
<1>1. IsFiniteSet(free) /\ C \in Nat /\ free \subseteq Nat
  <2>1. IsFiniteSet(1 .. BankSlots) /\ 1 .. BankSlots \subseteq Nat
    BY ModelAssumption, FS_Interval
  <2> QED
    BY <2>1, FS_Subset, FS_CardinalityType
<1>2. free \in V[0]
  BY <1>1
<1>3. ASSUME NEW i \in 1 .. n, NEW T \in V[i - 1]
      PROVE  T \in SUBSET free /\ Min(T) \in free /\ T \ {Min(T)} \in V[i]
  <2>1. i - 1 \in 0 .. n /\ i \in 0 .. n
    OBVIOUS
  <2>2. T \in SUBSET free /\ Cardinality(T) = C - (i - 1)
    BY <1>3, <2>1
  <2>3. IsFiniteSet(T) /\ T \subseteq Nat
    BY <1>1, <2>2, FS_Subset
  <2>4. T # {}
    BY <1>1, <2>1, <2>2, FS_EmptySet
  <2>5. Min(T) \in T
    BY <2>3, <2>4, LeastIn
  <2>6. Cardinality(T \ {Min(T)}) = Cardinality(T) - 1
    BY <2>3, <2>5, FS_RemoveElement
  <2>7. Cardinality(T \ {Min(T)}) = C - i
    BY <1>1, <2>2, <2>6
  <2> QED
    BY <2>1, <2>2, <2>5, <2>7
<1> HIDE DEF V
<1>4. \A i \in 1 .. n : \A T \in V[i - 1] : G[i][T] \in V[i]
  BY <1>3
<1>5. PICK f : Runs(f, free, G, n) /\ \A i \in 0 .. n : f[i] \in V[i]
  <2> HIDE DEF G
  <2> QED
    BY <1>2, <1>4, RunInExists
<1>6. Made(f)
  <2>1. ASSUME NEW i \in 0 .. n
        PROVE  (IF i = 0 THEN free ELSE G[i][f[i - 1]])
                 = IF i = 0 THEN free ELSE f[i - 1] \ {Min(f[i - 1])}
    <3>1. CASE i = 0
      BY <3>1
    <3>2. CASE i # 0
      <4>1. i \in 1 .. n /\ i - 1 \in 0 .. n
        BY <3>2
      <4>2. f[i - 1] \in V[i - 1]
        BY <1>5, <4>1
      <4>3. f[i - 1] \in SUBSET free
        <5> DEFINE j == i
                   T == f[j - 1]
        <5>1. j \in 1 .. n /\ T \in V[j - 1]
          BY <4>1, <4>2
        <5> HIDE DEF G, T, j
        <5>2. T \in SUBSET free
          BY <1>3, <5>1
        <5> QED
          BY <5>2 DEF T, j
      <4> QED
        BY <3>2, <4>1, <4>3
    <3> QED
      BY <3>1, <3>2
  <2> HIDE DEF G
  <2> QED
    BY <1>5, <2>1 DEF Runs
<1>7. Made(made)
  BY <1>6
<1>8. FirstSlots(free, n) = [i \in 1 .. n |-> Min(made[i - 1])]
  BY DEF FirstSlots
<1> HIDE DEF made
<1>9. \A i \in 0 .. n : made[i] \in V[i]
  <2>1. made[0] \in V[0]
    BY <1>2, <1>7
  <2>2. ASSUME NEW i \in 1 .. n, made[i - 1] \in V[i - 1] PROVE made[i] \in V[i]
    <3>1. i \in 0 .. n /\ i # 0
      OBVIOUS
    <3>2. made[i] = made[i - 1] \ {Min(made[i - 1])}
      BY <1>7, <3>1
    <3> QED
      BY <1>3, <2>2, <3>2
  <2> HIDE DEF Made
  <2> QED
    BY <2>1, <2>2, RunStaysIn
<1>10. ASSUME NEW i \in 1 .. n PROVE Min(made[i - 1]) \in free
  <2>1. i - 1 \in 0 .. n
    OBVIOUS
  <2>2. made[i - 1] \in V[i - 1]
    BY <1>9, <2>1
  <2> QED
    BY <1>3, <2>2
<1> QED
  BY <1>8, <1>10

(* A render finds its regions among the prepared ones. *)
LEMMA PreparedFound ==
  ASSUME NEW k \in Keys
  PROVE  PreparedSlots(k) \in Seq(RegionIds)
<1> DEFINE n == Len(Layers[k])
           Is(r, l) == Prepared[r].key = k /\ Prepared[r].layer = l
<1>1. n \in Nat
  BY ModelAssumption
<1>2. PreparedSlots(k) = [l \in 1 .. n |-> CHOOSE r \in DOMAIN Prepared : Is(r, l)]
  BY DEF PreparedSlots
<1>3. \A l \in 1 .. n : \E r \in DOMAIN Prepared : Is(r, l)
  BY PreparedRegions
<1>4. DOMAIN Prepared \subseteq RegionIds
  BY PreparedRegions, RegionTypes
<1> HIDE DEF Is, n
<1>5. PreparedSlots(k) \in [1 .. n -> RegionIds]
  BY <1>2, <1>3, <1>4
<1> QED
  BY <1>1, <1>5, ST!SeqDef

(* What the lookup of k's regions leaves: a bank and regions that fit every*)
(* voice, and the slots of k in the bank.                                  *)
LookedUp(k, c) ==
  /\ c.entries \in Banks /\ c.regions \in [RegionIds -> Contents]
  /\ c.slots \in Seq(RegionIds)
  /\ mode = "host" => \A i \in 1 .. Len(c.slots) :
                        \E j \in DOMAIN c.entries : c.slots[i] \in SlotsOf(c.entries[j])
  /\ \A v \in ModelVoices : RegionFits(voices[v], c.regions, c.entries)

(* A bank with an entry filled is a bank. *)
LEMMA FilledBank ==
  ASSUME NEW bank \in Banks, NEW k \in Keys, NEW slots \in Seq(1 .. BankSlots), instance \in Nat
  PROVE  /\ Filled(bank, k, slots) \in Banks
         /\ DOMAIN Filled(bank, k, slots) = DOMAIN bank \cup {k}
         /\ SlotsOf(Filled(bank, k, slots)[k]) = Range(slots)
         /\ \A j \in DOMAIN bank : j # k => Filled(bank, k, slots)[j] = bank[j]
<1> DEFINE D == DOMAIN bank \cup {k}
           e == [slots |-> slots, last_use |-> instance + 1]
           f == [j \in D |-> IF j = k THEN e ELSE bank[j]]
<1>1. Filled(bank, k, slots) = f
  BY DEF Filled
<1>2. DOMAIN bank \subseteq Keys /\ \A j \in DOMAIN bank : bank[j] \in BankEntry
  BY BankFields
<1>3. e \in BankEntry /\ e.slots = slots
  BY DEF BankEntry
<1> HIDE DEF e
<1>4. D \in SUBSET Keys /\ f \in [D -> BankEntry] /\ f[k] = e
  BY <1>2, <1>3
<1>5. \A j \in DOMAIN bank : j # k => f[j] = bank[j]
  OBVIOUS
<1> HIDE DEF f
<1>6. f \in Banks /\ DOMAIN f = D
  <2> HIDE DEF D
  <2> QED
    BY <1>4, BankIs
<1> QED
  BY <1>1, <1>3, <1>4, <1>5, <1>6 DEF SlotsOf

(* Evictions leave regions, and slots that no entry has. *)
LEMMA AfterTypes ==
  ASSUME entries \in Banks, regions \in [RegionIds -> Contents], NEW n \in Nat
  PROVE  /\ After(n) \in Banks /\ DOMAIN After(n) \subseteq DOMAIN entries
         /\ RegionsAfter(n) \in [RegionIds -> Contents]
         /\ FreeAfter(n) \in SUBSET (1 .. BankSlots)
         /\ \A k \in DOMAIN After(n) : SlotsOf(After(n)[k]) \cap FreeAfter(n) = {}
<1>1. PartOf(After(n))
  BY AfterKeeps
<1>2. RegionsAfter(n) \in [RegionIds -> Contents]
  BY RegionTypes DEF RegionsAfter
<1>3. /\ FreeAfter(n) \in SUBSET (1 .. BankSlots)
      /\ \A k \in DOMAIN After(n) : SlotsOf(After(n)[k]) \cap FreeAfter(n) = {}
  BY DEF FreeAfter
<1> QED
  BY <1>1, <1>2, <1>3 DEF PartOf

(* The voices still find their regions after any number of evictions. *)
LEMMA VoicesAfter ==
  ASSUME ModelInv, mode = "host", NEW n \in Nat, NEW v \in ModelVoices
  PROVE  RegionFits(voices[v], RegionsAfter(n), After(n))
<1> SUFFICES ASSUME voices[v].state # "silent"
             PROVE  /\ RegionsAfter(n)[voices[v].region] = voices[v].of
                    /\ \E k \in DOMAIN After(n) : voices[v].region \in SlotsOf(After(n)[k])
  BY DEF RegionFits
<1>1. entries \in Banks /\ voices[v] \in VoiceRecords /\ RegionFits(voices[v], regions, entries)
  BY DEF ModelInv
<1>2. voices[v].region \in RegionIds
  BY <1>1 DEF VoiceRecords
<1>3. v \in Range(active)
  <2>1. StripFits(Policy.strips[v], v \in Range(Policy.active), channel)
    BY DEF ModelInv, PolicyFits
  <2>2. Policy.strips[v].voice = voices[v] /\ Policy.active = active
    BY DEF Policy
  <2> QED
    BY <2>1, <2>2 DEF StripFits, Sounding
<1> QED
  BY <1>1, <1>2, <1>3, RegionsOutlive

(* A list of slots is a list of regions. *)
LEMMA SlotsAreRegions ==
  ASSUME NEW s \in Seq(1 .. BankSlots)
  PROVE  s \in Seq(RegionIds)
<1>1. Len(s) \in Nat /\ s \in [1 .. Len(s) -> 1 .. BankSlots]
  BY ST!LenProperties
<1>2. s \in [1 .. Len(s) -> RegionIds]
  BY <1>1, RegionTypes
<1> QED
  BY <1>1, <1>2, ST!SeqDef

(* A hit: the entry is only marked as used. *)
LEMMA LookupHits ==
  ASSUME ModelInv, NEW k \in Keys, Hit(k)
  PROVE  LookedUp(k, Claimed(k))
<1> DEFINE slots == entries[k].slots
           bank == Filled(entries, k, slots)
           c == [entries |-> bank, regions |-> regions, slots |-> slots]
<1>1. entries \in Banks /\ regions \in [RegionIds -> Contents] /\ instance \in Nat
  BY DEF ModelInv
<1>2. k \in DOMAIN entries /\ slots \in Seq(1 .. BankSlots) /\ SlotsOf(entries[k]) = Range(slots)
  BY <1>1, BankFields DEF Hit, BankEntry, SlotsOf
<1>3. Claimed(k) = c
  BY DEF Claimed
<1> HIDE DEF slots
<1>4. /\ bank \in Banks /\ DOMAIN bank = DOMAIN entries
      /\ \A j \in DOMAIN entries : SlotsOf(bank[j]) = SlotsOf(entries[j])
  <2>1. /\ bank \in Banks /\ DOMAIN bank = DOMAIN entries \cup {k}
        /\ SlotsOf(bank[k]) = Range(slots)
        /\ \A j \in DOMAIN entries : j # k => bank[j] = entries[j]
    BY <1>1, <1>2, FilledBank
  <2> HIDE DEF bank
  <2>2. DOMAIN entries \cup {k} = DOMAIN entries
    BY <1>2
  <2>3. ASSUME NEW j \in DOMAIN entries PROVE SlotsOf(bank[j]) = SlotsOf(entries[j])
    <3>1. CASE j = k
      BY <1>2, <2>1, <3>1
    <3>2. CASE j # k
      BY <2>1, <3>2
    <3> QED
      BY <3>1, <3>2
  <2> QED
    BY <2>1, <2>2, <2>3
<1> HIDE DEF bank
<1>5. c.entries = bank /\ c.regions = regions /\ c.slots = slots
  OBVIOUS
<1> HIDE DEF c
<1>6. slots \in Seq(RegionIds)
  BY <1>2, SlotsAreRegions
<1>7. \A i \in 1 .. Len(slots) : slots[i] \in SlotsOf(bank[k])
  BY <1>2, <1>4 DEF Range
<1>8. \A v \in ModelVoices : RegionFits(voices[v], regions, bank)
  BY <1>4 DEF ModelInv, RegionFits
<1> QED
  BY <1>1, <1>2, <1>3, <1>4, <1>5, <1>6, <1>7, <1>8 DEF LookedUp

(* A miss: what no voice uses is evicted until k fits. *)
LEMMA LookupMisses ==
  ASSUME ModelInv, mode = "host", NEW k \in Keys, ~Hit(k), Fits(Len(Layers[k]))
  PROVE  LookedUp(k, Claimed(k))
<1> DEFINE need == Len(Layers[k])
           n == Evictions(need)
           free == FreeAfter(n)
           slots == FirstSlots(free, need)
           bank == Filled(After(n), k, slots)
           content == [r \in RegionIds |->
             IF r \in Range(slots)
             THEN LET l == CHOOSE i \in DOMAIN slots : slots[i] = r
                  IN RegionOf(k, l)
             ELSE RegionsAfter(n)[r]]
           c == [entries |-> bank, regions |-> content, slots |-> slots]
<1>1. entries \in Banks /\ regions \in [RegionIds -> Contents] /\ instance \in Nat
  BY DEF ModelInv
<1>2. need \in Nat
  BY ModelAssumption
<1>3. Claimed(k) = c
  BY DEF Claimed
<1> HIDE DEF need
<1>4. n \in Nat /\ Enough(n, need)
  <2> DEFINE T == {m \in 0 .. BankEntries : Enough(m, need)}
  <2>1. T \subseteq Nat /\ T # {}
    BY ModelAssumption DEF Fits, need
  <2>2. n = Min(T)
    BY DEF Evictions
  <2>3. Min(T) \in T
    <3> HIDE DEF T
    <3> QED
      BY <2>1, LeastIn
  <2> QED
    BY <2>1, <2>2, <2>3
<1> HIDE DEF n
<1>5. /\ After(n) \in Banks /\ DOMAIN After(n) \subseteq DOMAIN entries
      /\ RegionsAfter(n) \in [RegionIds -> Contents] /\ free \in SUBSET (1 .. BankSlots)
      /\ \A j \in DOMAIN After(n) : SlotsOf(After(n)[j]) \cap free = {}
  BY <1>1, <1>4, AfterTypes
<1>6. Cardinality(free) >= need
  BY <1>4 DEF Enough
<1> HIDE DEF free
<1>7. slots \in [1 .. need -> free]
  BY <1>2, <1>5, <1>6, SlotsAreFree
<1> HIDE DEF slots
<1>8. /\ slots \in Seq(1 .. BankSlots) /\ slots \in Seq(RegionIds) /\ DOMAIN slots = 1 .. need
      /\ Range(slots) \subseteq free /\ Len(slots) = need
  <2>1. slots \in [1 .. need -> 1 .. BankSlots]
    BY <1>5, <1>7
  <2>2. slots \in Seq(1 .. BankSlots)
    BY <1>2, <2>1, ST!SeqDef
  <2>3. slots \in Seq(RegionIds)
    BY <2>2, SlotsAreRegions
  <2>4. Range(slots) \subseteq free /\ DOMAIN slots = 1 .. need
    BY <1>7 DEF Range
  <2>5. Len(slots) = need
    BY <1>2, <2>1, <2>2, ST!LenProperties
  <2> QED
    BY <2>2, <2>3, <2>4, <2>5
<1>9. /\ bank \in Banks /\ DOMAIN bank = DOMAIN After(n) \cup {k}
      /\ SlotsOf(bank[k]) = Range(slots)
      /\ \A j \in DOMAIN After(n) : bank[j] = After(n)[j]
  <2>1. k \notin DOMAIN After(n)
    BY <1>5 DEF Hit
  <2>2. /\ bank \in Banks /\ DOMAIN bank = DOMAIN After(n) \cup {k}
        /\ SlotsOf(bank[k]) = Range(slots)
        /\ \A j \in DOMAIN After(n) : j # k => bank[j] = After(n)[j]
    BY <1>1, <1>5, <1>8, FilledBank
  <2> QED
    BY <2>1, <2>2
<1> HIDE DEF bank
<1>10. content \in [RegionIds -> Contents]
  <2>1. ASSUME NEW r \in RegionIds PROVE content[r] \in Contents
    <3>1. CASE r \in Range(slots)
      <4> DEFINE l == CHOOSE i \in DOMAIN slots : slots[i] = r
      <4>1. l \in 1 .. need
        BY <1>8, <3>1 DEF Range
      <4>2. content[r] = RegionOf(k, l)
        BY <3>1
      <4> HIDE DEF l, content
      <4> QED
        BY <4>1, <4>2, RegionOfIs DEF need
    <3>2. CASE r \notin Range(slots)
      BY <1>5, <3>2
    <3> QED
      BY <3>1, <3>2
  <2> QED
    BY <2>1
<1>11. \A r \in RegionIds : r \notin Range(slots) => content[r] = RegionsAfter(n)[r]
  OBVIOUS
<1> HIDE DEF content
<1>12. c.entries = bank /\ c.regions = content /\ c.slots = slots
  OBVIOUS
<1> HIDE DEF c
<1>13. ASSUME NEW v \in ModelVoices PROVE RegionFits(voices[v], content, bank)
  <2> SUFFICES ASSUME voices[v].state # "silent"
               PROVE  /\ content[voices[v].region] = voices[v].of
                      /\ \E j \in DOMAIN bank : voices[v].region \in SlotsOf(bank[j])
    BY DEF RegionFits
  <2>1. voices[v].region \in RegionIds
    BY DEF ModelInv, VoiceRecords
  <2>2. /\ RegionsAfter(n)[voices[v].region] = voices[v].of
        /\ \E j \in DOMAIN After(n) : voices[v].region \in SlotsOf(After(n)[j])
    BY <1>4, VoicesAfter DEF RegionFits
  <2>3. voices[v].region \notin Range(slots)
    BY <1>5, <1>8, <2>2
  <2> QED
    BY <1>9, <1>11, <2>1, <2>2, <2>3
<1>14. \A i \in 1 .. Len(slots) : slots[i] \in SlotsOf(bank[k])
  BY <1>8, <1>9 DEF Range
<1> QED
  BY <1>3, <1>8, <1>9, <1>10, <1>12, <1>13, <1>14 DEF LookedUp

(* In a render the lookup changes nothing. *)
LEMMA LookupPrepared ==
  ASSUME ModelInv, mode = "render", NEW k \in Keys
  PROVE  LookedUp(k, [entries |-> entries, regions |-> regions, slots |-> PreparedSlots(k)])
BY PreparedFound DEF LookedUp, ModelInv

-----------------------------------------------------------------------------
(* The events. *)

(* The layers of a note start one after another. *)
LEMMA LayersStart ==
  ASSUME NEW k \in Keys, NEW c, LookedUp(k, c), Fine(Policy, c.regions, c.entries),
         channel \in Channels, instance \in Nat, NEW chosen \in [1 .. Len(c.slots) -> ModelVoices]
  PROVE  Fine(Layered(c, k, chosen)[Len(c.slots)], c.regions, c.entries)
<1> DEFINE n == Len(c.slots)
           P == {p \in Policies : Fine(p, c.regions, c.entries)}
           Start(p, i) == StartLayer(p, chosen[i], c.slots[i], c.regions, k, instance + 1)
           V == [i \in 0 .. n |-> P]
           G == [i \in 1 .. n |-> [p \in P |-> Start(p, i)]]
           Made(f) == f = [i \in 0 .. n |-> IF i = 0 THEN Policy ELSE Start(f[i - 1], i)]
           made == CHOOSE f : Made(f)
<1>1. n \in Nat /\ Policy \in P
  BY DEF LookedUp, Fine, PolicyFits
<1>2. ASSUME NEW i \in 1 .. n, NEW p \in P PROVE Start(p, i) \in P
  <2>1. /\ chosen[i] \in ModelVoices /\ c.slots[i] \in RegionIds /\ instance + 1 \in Nat
        /\ c.regions \in [RegionIds -> Contents]
        /\ mode = "host" => \E j \in DOMAIN c.entries : c.slots[i] \in SlotsOf(c.entries[j])
    BY DEF LookedUp
  <2>2. Fine(Start(p, i), c.regions, c.entries)
    BY <2>1, LayerStarts
  <2> HIDE DEF Start
  <2> QED
    BY <2>2 DEF Fine, PolicyFits
<1>3. Layered(c, k, chosen) = made
  BY DEF Layered
<1> HIDE DEF P, n, Start
<1>4. \A i \in 1 .. n : \A p \in V[i - 1] : G[i][p] \in V[i]
  <2>1. ASSUME NEW i \in 1 .. n PROVE i - 1 \in 0 .. n /\ i \in 0 .. n
    BY <1>1
  <2> QED
    BY <1>2, <2>1
<1>5. PICK f : Runs(f, Policy, G, n) /\ \A i \in 0 .. n : f[i] \in V[i]
  <2>1. Policy \in V[0]
    BY <1>1
  <2> HIDE DEF V, G
  <2> QED
    BY <1>1, <1>4, <2>1, RunInExists
<1>6. Made(f)
  <2>1. ASSUME NEW i \in 0 .. n
        PROVE  (IF i = 0 THEN Policy ELSE G[i][f[i - 1]])
                 = IF i = 0 THEN Policy ELSE Start(f[i - 1], i)
    <3>1. CASE i = 0
      BY <3>1
    <3>2. CASE i # 0
      <4>1. i \in 1 .. n /\ i - 1 \in 0 .. n
        BY <1>1, <3>2
      <4>2. f[i - 1] \in P
        BY <1>5, <4>1
      <4> QED
        BY <3>2, <4>1, <4>2
    <3> QED
      BY <3>1, <3>2
  <2> HIDE DEF G
  <2> QED
    BY <1>5, <2>1 DEF Runs
<1>7. Made(made)
  BY <1>6
<1> HIDE DEF made
<1>8. \A i \in 0 .. n : made[i] \in V[i]
  <2>1. made[0] \in V[0]
    BY <1>1, <1>7
  <2>2. ASSUME NEW i \in 1 .. n, made[i - 1] \in V[i - 1] PROVE made[i] \in V[i]
    <3>1. i \in 0 .. n /\ i # 0 /\ i - 1 \in 0 .. n
      BY <1>1
    <3>2. made[i] = Start(made[i - 1], i)
      BY <1>7, <3>1
    <3>3. made[i - 1] \in P
      BY <2>2, <3>1
    <3> QED
      BY <1>2, <3>1, <3>2, <3>3
  <2> HIDE DEF Made, V
  <2> QED
    BY <1>1, <2>1, <2>2, RunStaysIn
<1>9. made[n] \in P
  BY <1>1, <1>8
<1> QED
  BY <1>3, <1>9 DEF P, n

(* The policy, taken apart. *)
LEMMA PolicyIs ==
  /\ Policy.active = active
  /\ \A v \in ModelVoices : /\ Policy.strips[v].voice = voices[v]
                            /\ Policy.strips[v].mirror = mirror[v]
                            /\ Policy.strips[v].synth = synth[v]
                            /\ Policy.strips[v].ended = ended[v]
BY DEF Policy

(* Regions of the policy's voices. *)
LEMMA PolicyFine ==
  ASSUME ModelInv
  PROVE  Fine(Policy, regions, entries)
BY PolicyIs DEF Fine, ModelInv

(* An event leaves policy p. *)
LEMMA NewPolicy ==
  ASSUME NEW p, PolicyFits(p, channel'), Became(p), channel' \in Channels,
         mode' \in {"host", "render"}, sustain' \in BOOLEAN, sostenuto' \in BOOLEAN,
         instance' \in Nat, regions' \in [RegionIds -> Contents], entries' \in Banks,
         mode' = mode, \A v \in ModelVoices : RegionFits(p.strips[v].voice, regions', entries')
  PROVE  ModelInv'
<1>1. p \in Policies /\ p.strips \in [ModelVoices -> Strips]
  BY DEF PolicyFits, Policies
<1>2. ASSUME NEW v \in ModelVoices
      PROVE  /\ p.strips[v].voice \in VoiceRecords /\ p.strips[v].mirror \in MirrorRecords
             /\ p.strips[v].synth \in SynthRecords /\ p.strips[v].ended \in SUBSET Nat
             /\ p.strips[v] = [voice |-> p.strips[v].voice, mirror |-> p.strips[v].mirror,
                               synth |-> p.strips[v].synth, ended |-> p.strips[v].ended]
  <2> DEFINE s == p.strips[v]
  <2>1. s \in Strips
    BY <1>1
  <2> HIDE DEF s
  <2>2. /\ s.voice \in VoiceRecords /\ s.mirror \in MirrorRecords /\ s.synth \in SynthRecords
        /\ s.ended \in SUBSET Nat
        /\ s = [voice |-> s.voice, mirror |-> s.mirror, synth |-> s.synth, ended |-> s.ended]
    BY <2>1, StripFields, StripIs
  <2> QED
    BY <2>2 DEF s
<1>3. /\ voices' \in [ModelVoices -> VoiceRecords] /\ mirror' \in [ModelVoices -> MirrorRecords]
      /\ synth' \in [ModelVoices -> SynthRecords] /\ ended' \in [ModelVoices -> SUBSET Nat]
      /\ \A v \in ModelVoices : voices'[v] = p.strips[v].voice
  BY <1>2 DEF Became
<1>4. Policy' = p
  <2> DEFINE g == [v \in ModelVoices |->
                     [voice |-> voices'[v], mirror |-> mirror'[v], synth |-> synth'[v],
                      ended |-> ended'[v]]]
  <2>1. Policy' = [strips |-> g, active |-> p.active]
    BY DEF Policy, Became
  <2>2. g = p.strips
    <3>1. \A v \in ModelVoices : g[v] = p.strips[v]
      BY <1>2 DEF Became
    <3> QED
      BY <1>1, <3>1
  <2> HIDE DEF g
  <2>3. p = [strips |-> p.strips, active |-> p.active]
    BY <1>1 DEF Policies
  <2> QED
    BY <2>1, <2>2, <2>3
<1>5. PolicyFits(Policy, channel)'
  BY <1>4 DEF PolicyFits, StripFits, Reported
<1>6. \A v \in ModelVoices : RegionFits(voices'[v], regions', entries')
  BY <1>3
<1> QED
  BY <1>3, <1>5, <1>6 DEF ModelInv, RegionFits

(* An event that leaves the bank alone. *)
LEMMA BankAlone ==
  ASSUME ModelInv, NEW p, PolicyFits(p, channel'), KeepsAll(Policy, p), Became(p),
         channel' \in Channels, sustain' \in BOOLEAN, sostenuto' \in BOOLEAN,
         instance' \in Nat, UNCHANGED <<mode, entries, regions>>
  PROVE  ModelInv'
<1>1. \A v \in ModelVoices : RegionFits(Policy.strips[v].voice, regions, entries)
  BY PolicyFine DEF Fine
<1>2. \A v \in ModelVoices : RegionFits(p.strips[v].voice, regions, entries)
  BY <1>1, KeepsRegions
<1>3. /\ mode' \in {"host", "render"} /\ mode' = mode
      /\ regions' \in [RegionIds -> Contents] /\ entries' \in Banks
      /\ \A v \in ModelVoices : RegionFits(p.strips[v].voice, regions', entries')
  BY <1>2 DEF ModelInv
<1> QED
  BY <1>3, NewPolicy

(* Note On. *)
LEMMA NoteOnKeeps ==
  ASSUME ModelInv, NEW k \in Keys, NoteOn(k)
  PROVE  ModelInv'
<1> DEFINE known == mode = "render" \/ Hit(k) \/ Fits(Len(Layers[k]))
           c == IF mode = "render"
                THEN [entries |-> entries, regions |-> regions, slots |-> PreparedSlots(k)]
                ELSE Claimed(k)
<1>1. /\ instance \in Nat /\ channel \in Channels /\ sustain \in BOOLEAN /\ sostenuto \in BOOLEAN
      /\ mode \in {"host", "render"} /\ PolicyFits(Policy, channel)
  BY DEF ModelInv
<1>2. /\ channel' = channel /\ sustain' = sustain /\ sostenuto' = sostenuto /\ mode' = mode
      /\ instance' = instance + 1
  BY DEF NoteOn
<1>3. CASE known
  <2>1. LookedUp(k, c)
    BY <1>1, <1>3, LookupHits, LookupMisses, LookupPrepared
  <2>2. /\ entries' = c.entries /\ regions' = c.regions
        /\ \E chosen \in [1 .. Len(c.slots) -> ModelVoices] :
             Became(Layered(c, k, chosen)[Len(c.slots)])
    BY <1>3 DEF NoteOn
  <2> HIDE DEF c
  <2>3. PICK chosen \in [1 .. Len(c.slots) -> ModelVoices] :
          Became(Layered(c, k, chosen)[Len(c.slots)])
    BY <2>2
  <2> DEFINE p == Layered(c, k, chosen)[Len(c.slots)]
  <2>4. Fine(Policy, c.regions, c.entries)
    BY <1>1, <2>1, PolicyIs DEF Fine, LookedUp
  <2>5. Fine(p, c.regions, c.entries)
    BY <1>1, <2>1, <2>4, LayersStart
  <2>6. Became(p)
    BY <2>3
  <2> HIDE DEF p
  <2>7. PolicyFits(p, channel')
    BY <1>2, <2>5 DEF Fine
  <2>8. \A v \in ModelVoices : RegionFits(p.strips[v].voice, regions', entries')
    BY <2>2, <2>5 DEF Fine
  <2>9. instance' \in Nat /\ regions' \in [RegionIds -> Contents] /\ entries' \in Banks
    BY <1>1, <1>2, <2>1, <2>2 DEF LookedUp
  <2> QED
    BY <1>1, <1>2, <2>6, <2>7, <2>8, <2>9, NewPolicy
<1>4. CASE ~known
  <2>1. /\ mode = "host" /\ entries' = After(BankEntries) /\ regions' = RegionsAfter(BankEntries)
        /\ UNCHANGED policyVars
    BY <1>1, <1>4 DEF NoteOn
  <2>2. BankEntries \in Nat /\ entries \in Banks /\ regions \in [RegionIds -> Contents]
    BY ModelAssumption DEF ModelInv
  <2>3. entries' \in Banks /\ regions' \in [RegionIds -> Contents] /\ instance' \in Nat
    BY <1>1, <1>2, <2>1, <2>2, AfterTypes
  <2>4. Became(Policy)
    <3>1. /\ voices \in [ModelVoices -> VoiceRecords] /\ mirror \in [ModelVoices -> MirrorRecords]
          /\ synth \in [ModelVoices -> SynthRecords] /\ ended \in [ModelVoices -> SUBSET Nat]
      BY DEF ModelInv
    <3> QED
      BY <2>1, <3>1, PolicyIs DEF Became, policyVars
  <2>5. \A v \in ModelVoices : RegionFits(Policy.strips[v].voice, regions', entries')
    BY <2>1, <2>2, PolicyIs, VoicesAfter
  <2>6. PolicyFits(Policy, channel')
    BY <1>1, <1>2
  <2> QED
    BY <1>1, <1>2, <2>3, <2>4, <2>5, <2>6, NewPolicy
<1> QED
  BY <1>3, <1>4

(* Note Off. *)
LEMMA NoteOffKeeps ==
  ASSUME ModelInv, NEW k \in Keys, NoteOff(k)
  PROVE  ModelInv'
<1> DEFINE note == IF mode = "host" THEN Min({voices[w].inst : w \in StillDown(k)})
                   ELSE IF pending[k] = << >> THEN instance + 1 ELSE Head(pending[k])
           vs == {v \in StillDown(k) : voices[v].inst = note}
<1>1. /\ vs \in SUBSET ModelVoices /\ \A v \in vs : Sounding(Policy.strips[v])
  BY DEF StillDown
<1>2. Became(ForVoices(Policy, vs, KeyUp))
  BY DEF NoteOff
<1>3. /\ channel' = channel /\ sustain' = sustain /\ sostenuto' = sostenuto
      /\ instance' \in Nat /\ UNCHANGED <<mode, entries, regions>>
  <2>1. instance \in Nat
    BY DEF ModelInv
  <2>2. instance' = instance \/ instance' = instance + 1
    BY DEF NoteOff
  <2> QED
    BY <2>1, <2>2 DEF NoteOff
<1> HIDE DEF vs
<1>4. channel \in Channels /\ sustain \in BOOLEAN /\ sostenuto \in BOOLEAN /\ PolicyFits(Policy, channel)
  BY DEF ModelInv
<1> DEFINE p == ForVoices(Policy, vs, KeyUp)
<1>5. PolicyFits(p, channel) /\ KeepsAll(Policy, p)
  BY <1>1, <1>4, KeyUpLoop
<1> HIDE DEF p
<1> QED
  BY <1>2, <1>3, <1>4, <1>5, BankAlone DEF p

(* CC123 to CC127. *)
LEMMA AllNotesOffKeeps ==
  ASSUME ModelInv, AllNotesOff
  PROVE  ModelInv'
<1> DEFINE p == ForVoices(Policy, KeysDown, KeyUp)
<1>1. KeysDown \in SUBSET ModelVoices /\ \A v \in KeysDown : Sounding(Policy.strips[v])
  BY DEF KeysDown
<1>2. /\ Became(p) /\ channel' = channel /\ sustain' = sustain /\ sostenuto' = sostenuto
      /\ instance' \in Nat /\ UNCHANGED <<mode, entries, regions>>
  BY DEF ModelInv, AllNotesOff
<1>3. channel \in Channels /\ sustain \in BOOLEAN /\ sostenuto \in BOOLEAN /\ PolicyFits(Policy, channel)
  BY DEF ModelInv
<1>4. PolicyFits(p, channel) /\ KeepsAll(Policy, p)
  BY <1>1, <1>3, KeyUpLoop
<1> HIDE DEF p
<1> QED
  BY <1>2, <1>3, <1>4, BankAlone

(* The sustain pedal. *)
LEMMA SustainKeeps ==
  ASSUME ModelInv, NEW down \in BOOLEAN, Sustain(down)
  PROVE  ModelInv'
<1> DEFINE p == IF down THEN Policy ELSE ReleaseDeferred(Policy, FALSE)
<1>1. /\ Became(p) /\ channel' = channel /\ sustain' = down /\ sostenuto' = sostenuto
      /\ instance' \in Nat /\ UNCHANGED <<mode, entries, regions>>
  BY DEF ModelInv, Sustain
<1>2. channel \in Channels /\ sostenuto \in BOOLEAN /\ PolicyFits(Policy, channel)
  BY DEF ModelInv
<1>3. PolicyFits(p, channel) /\ KeepsAll(Policy, p)
  BY <1>2, DeferredReleased, KeepsNothing
<1> HIDE DEF p
<1> QED
  BY <1>1, <1>2, <1>3, BankAlone

(* The sostenuto pedal. *)
LEMMA SostenutoKeeps ==
  ASSUME ModelInv, NEW down \in BOOLEAN, Sostenuto(down)
  PROVE  ModelInv'
<1> DEFINE a == ForVoices(Policy, KeysDown, Marked)
           b == ForVoices(Policy, ModelVoices, Unmarked)
           p == IF down THEN a ELSE ReleaseDeferred(b, sustain)
<1>1. /\ Became(p) /\ channel' = channel /\ sostenuto' = down /\ sustain' = sustain
      /\ instance' \in Nat /\ UNCHANGED <<mode, entries, regions>>
  BY DEF ModelInv, Sostenuto
<1>2. channel \in Channels /\ sustain \in BOOLEAN /\ PolicyFits(Policy, channel)
  BY DEF ModelInv
<1>3. PolicyFits(a, channel) /\ KeepsAll(Policy, a)
  <2>1. KeysDown \in SUBSET ModelVoices
    BY DEF KeysDown
  <2> QED
    BY <1>2, <2>1, MarkedLoop
<1>4. PolicyFits(b, channel) /\ KeepsAll(Policy, b)
  BY <1>2, UnmarkedLoop
<1> HIDE DEF a, b
<1>5. PolicyFits(p, channel) /\ KeepsAll(Policy, p)
  BY <1>3, <1>4, DeferredReleased, KeepsOn
<1> HIDE DEF p
<1> QED
  BY <1>1, <1>2, <1>5, BankAlone

(* A controller, bend or pressure: only the groups it marks can be behind. *)
LEMMA ControlChangeKeeps ==
  ASSUME ModelInv, NEW source \in Sources, NEW val \in {0, 1}, ControlChange(source, val)
  PROVE  ModelInv'
<1> DEFINE ch == [channel EXCEPT ![source] = val]
           p == UpdateControls(Policy, ch, Marks[source])
<1>1. /\ Became(p) /\ channel' = ch /\ sostenuto' = sostenuto /\ sustain' = sustain
      /\ instance' \in Nat /\ UNCHANGED <<mode, entries, regions>>
  BY DEF ModelInv, ControlChange
<1>2. /\ channel \in Channels /\ sustain \in BOOLEAN /\ sostenuto \in BOOLEAN
      /\ PolicyFits(Policy, channel)
  BY DEF ModelInv
<1>3. ch \in Channels /\ \A s \in Sources : s # source => ch[s] = channel[s]
  BY <1>2 DEF Channels
<1> HIDE DEF ch
<1>4. Covers(Marks[source], channel, ch)
  BY <1>3 DEF Covers
<1>5. PolicyFits(p, ch) /\ KeepsAll(Policy, p)
  BY <1>2, <1>3, <1>4, ControlsUpdated
<1> HIDE DEF p
<1> QED
  BY <1>1, <1>2, <1>3, <1>5, BankAlone

(* A control tick finds the channel as it was. *)
LEMMA ControlTickKeeps ==
  ASSUME ModelInv, NEW filterToo \in BOOLEAN, ControlTick(filterToo)
  PROVE  ModelInv'
<1> DEFINE due == IF filterToo THEN Groups ELSE {"gain", "pitch"}
           vs == {v \in Range(active) : voices[v].state # "release"}
           p == [Policy EXCEPT !.strips =
                   [v \in ModelVoices |-> IF v \in vs
                                          THEN Updated(Policy.strips[v], channel, due)
                                          ELSE Policy.strips[v]]]
<1>1. /\ Became(p) /\ channel' = channel /\ sostenuto' = sostenuto /\ sustain' = sustain
      /\ instance' \in Nat /\ UNCHANGED <<mode, entries, regions>>
  BY DEF ModelInv, ControlTick, ForVoices
<1>2. /\ channel \in Channels /\ sustain \in BOOLEAN /\ sostenuto \in BOOLEAN
      /\ PolicyFits(Policy, channel)
  BY DEF ModelInv
<1> HIDE DEF due, vs
<1>3. Covers(due, channel, channel)
  BY DEF Covers
<1>4. PolicyFits(p, channel) /\ KeepsAll(Policy, p)
  BY <1>2, <1>3, UpdateLoop
<1> HIDE DEF p
<1> QED
  BY <1>1, <1>2, <1>4, BankAlone

(* CC121. *)
LEMMA ResetControllersKeeps ==
  ASSUME ModelInv, ResetControllers
  PROVE  ModelInv'
<1> DEFINE a == ForVoices(Policy, ModelVoices, Unmarked)
           b == UpdateControls(a, Defaults, Groups)
           p == ReleaseDeferred(b, FALSE)
<1>1. /\ Became(p) /\ channel' = Defaults /\ sostenuto' = FALSE /\ sustain' = FALSE
      /\ instance' \in Nat /\ UNCHANGED <<mode, entries, regions>>
  BY DEF ModelInv, ResetControllers
<1>2. PolicyFits(Policy, channel) /\ Defaults \in Channels
  BY DefaultsIs DEF ModelInv
<1>3. PolicyFits(a, channel) /\ KeepsAll(Policy, a)
  BY <1>2, UnmarkedLoop
<1> HIDE DEF a
<1>4. PolicyFits(b, Defaults) /\ KeepsAll(a, b)
  <2>1. Covers(Groups, channel, Defaults)
    BY ModelAssumption DEF Covers
  <2> QED
    BY <1>2, <1>3, <2>1, ControlsUpdated
<1> HIDE DEF b
<1>5. PolicyFits(p, Defaults) /\ KeepsAll(b, p)
  BY <1>4, DeferredReleased
<1> HIDE DEF p
<1>6. KeepsAll(Policy, p)
  BY <1>3, <1>4, <1>5, KeepsOn
<1> QED
  BY <1>1, <1>2, <1>5, <1>6, BankAlone

(* CC120. *)
LEMMA AllSoundOffKeeps ==
  ASSUME ModelInv, AllSoundOff
  PROVE  ModelInv'
<1> DEFINE p == StopAll(Policy)
<1>1. /\ Became(p) /\ channel' = channel /\ sostenuto' = sostenuto /\ sustain' = sustain
      /\ instance' \in Nat /\ UNCHANGED <<mode, entries, regions>>
  BY DEF ModelInv, AllSoundOff
<1>2. channel \in Channels /\ sustain \in BOOLEAN /\ sostenuto \in BOOLEAN /\ PolicyFits(Policy, channel)
  BY DEF ModelInv
<1>3. PolicyFits(p, channel) /\ KeepsAll(Policy, p)
  BY <1>2, AllStopped
<1> HIDE DEF p
<1> QED
  BY <1>1, <1>2, <1>3, BankAlone

(* A completion is always of the generation that sounds: voice, mirror and *)

(* A voice of the synthesizer ends. *)
LEMMA VoiceEndsKeeps ==
  ASSUME ModelInv, NEW v \in ModelVoices, VoiceEnds(v)
  PROVE  ModelInv'
<1> DEFINE p == ForVoices(Policy, {v}, Ends)
<1>1. /\ Became(p) /\ channel' = channel /\ sostenuto' = sostenuto /\ sustain' = sustain
      /\ instance' \in Nat /\ UNCHANGED <<mode, entries, regions>>
  BY DEF ModelInv, VoiceEnds
<1>2. /\ channel \in Channels /\ sustain \in BOOLEAN /\ sostenuto \in BOOLEAN
      /\ PolicyFits(Policy, channel)
  BY DEF ModelInv
<1>3. PolicyFits(p, channel) /\ KeepsAll(Policy, p)
  BY <1>2, EndsLoop
<1> HIDE DEF p
<1> QED
  BY <1>1, <1>2, <1>3, BankAlone

(* A render takes its completions. *)
LEMMA ConsumeCompletionsKeeps ==
  ASSUME ModelInv, ConsumeCompletions
  PROVE  ModelInv'
<1> DEFINE p == Completed(Policy)
<1>1. /\ Became(p) /\ channel' = channel /\ sostenuto' = sostenuto /\ sustain' = sustain
      /\ instance' \in Nat /\ UNCHANGED <<mode, entries, regions>> /\ mode = "render"
  BY DEF ModelInv, ConsumeCompletions
<1>2. /\ channel \in Channels /\ sustain \in BOOLEAN /\ sostenuto \in BOOLEAN
      /\ PolicyFits(Policy, channel)
  BY DEF ModelInv
<1>3. PolicyFits(p, channel) /\ KeepsAll(Policy, p)
  BY <1>1, <1>2, ReportsTaken
<1> HIDE DEF p
<1> QED
  BY <1>1, <1>2, <1>3, BankAlone

(* A step that changes nothing. *)
LEMMA ModelStutter ==
  ASSUME ModelInv, UNCHANGED modelVars
  PROVE  ModelInv'
<1>1. Policy' = Policy
  BY DEF Policy, modelVars, policyVars
<1>2. mode' = mode /\ channel' = channel
  BY DEF modelVars
<1>3. PolicyFits(Policy, channel)'
  BY <1>1, <1>2 DEF ModelInv, PolicyFits, StripFits, Reported
<1> QED
  BY <1>3 DEF ModelInv, modelVars, policyVars, RegionFits

(* Nothing sounds at the start. *)
LEMMA ModelStarts ==
  ASSUME ModelInit
  PROVE  ModelInv
<1> DEFINE m == [active |-> FALSE, released |-> FALSE, gen |-> 0, val |-> AllComputed(Defaults)]
           y == [state |-> "off", gen |-> 0, val |-> AllComputed(Defaults)]
           s == [voice |-> SilentVoice, mirror |-> m, synth |-> y, ended |-> {}]
<1>1. SilentVoice \in VoiceRecords /\ SilentVoice.state = "silent" /\ SilentVoice.gen = 0
  <2>1. 1 \in RegionIds /\ NoRegion \in Contents
    BY RegionTypes, ModelAssumption
  <2> QED
    BY <2>1, DefaultsIs DEF SilentVoice, VoiceRecords
<1>2. m \in MirrorRecords /\ m.gen = 0 /\ m.active = FALSE
  BY DefaultsIs DEF MirrorRecords
<1>3. y \in SynthRecords /\ y.gen = 0 /\ y.state = "off"
  BY DefaultsIs DEF SynthRecords
<1>4. /\ voices = [v \in ModelVoices |-> SilentVoice] /\ mirror = [v \in ModelVoices |-> m]
      /\ synth = [v \in ModelVoices |-> y] /\ active = << >>
      /\ ended = [v \in ModelVoices |-> {}]
  BY DEF ModelInit
<1> HIDE DEF m, y
<1>5. s \in Strips /\ StripFits(s, FALSE, channel)
  <2>1. s \in Strips /\ s.voice = SilentVoice /\ s.mirror = m /\ s.synth = y /\ s.ended = {}
    BY <1>1, <1>2, <1>3, StripMade
  <2> HIDE DEF s
  <2>2. ~Sounding(s) /\ Reported(s)
    BY <1>1, <1>3, <2>1 DEF Sounding, Reported
  <2> QED
    BY <1>1, <1>2, <1>3, <2>1, <2>2 DEF StripFits
<1> HIDE DEF s
<1>6. Policy.active = << >> /\ \A v \in ModelVoices : Policy.strips[v] = s
  BY <1>4 DEF Policy, s
<1>7. PolicyFits(Policy, channel)
  <2>1. << >> \in Seq(ModelVoices) /\ ListOK(<< >>) /\ \A v : v \notin Range(<< >>)
    BY DEF ListOK, Range
  <2>2. Policy \in Policies
    BY <1>5, <1>6, <2>1 DEF Policy, Policies
  <2>3. ASSUME NEW v \in ModelVoices
        PROVE  StripFits(Policy.strips[v], v \in Range(Policy.active), channel)
    <3>1. (v \in Range(Policy.active)) = FALSE /\ Policy.strips[v] = s
      BY <1>6, <2>1
    <3> QED
      BY <1>5, <3>1
  <2> QED
    BY <1>6, <2>1, <2>2, <2>3 DEF PolicyFits
<1>8. \A v \in ModelVoices : RegionFits(voices[v], regions, entries)
  BY <1>1, <1>4 DEF RegionFits
<1>9. regions \in [RegionIds -> Contents]
  <2>1. \A r \in RegionIds : r <= Len(Prepared) => Prepared[r] \in Contents
    <3>1. Prepared \in Seq(Contents) /\ Len(Prepared) \in Nat
      BY PreparedRegions
    <3>2. \A r \in RegionIds : r <= Len(Prepared) => r \in 1 .. Len(Prepared)
      BY <3>1, ModelAssumption DEF RegionIds
    <3> QED
      BY <3>1, <3>2
  <2> QED
    BY <2>1, RegionTypes DEF ModelInit
<1>10. entries \in Banks
  <2>1. entries \in [{} -> BankEntry] /\ {} \in SUBSET Keys
    BY DEF ModelInit
  <2> QED
    BY <2>1 DEF Banks
<1>11. /\ voices \in [ModelVoices -> VoiceRecords] /\ mirror \in [ModelVoices -> MirrorRecords]
       /\ synth \in [ModelVoices -> SynthRecords] /\ ended \in [ModelVoices -> SUBSET Nat]
  BY <1>1, <1>2, <1>3, <1>4
<1>12. /\ mode \in {"host", "render"} /\ sustain \in BOOLEAN /\ sostenuto \in BOOLEAN
       /\ channel \in Channels /\ instance \in Nat
  BY DefaultsIs DEF ModelInit
<1> QED
  BY <1>7, <1>8, <1>9, <1>10, <1>11, <1>12 DEF ModelInv

(* The invariant holds throughout. *)

(* The invariant holds throughout. *)
LEMMA ModelInvariant == ModelSpec => []ModelInv
<1>1. ModelInit => ModelInv
  BY ModelStarts
<1>2. ModelInv /\ [ModelNext]_modelVars => ModelInv'
  <2> SUFFICES ASSUME ModelInv, [ModelNext]_modelVars PROVE ModelInv'
    OBVIOUS
  <2>1. CASE \E k \in Keys : NoteOn(k) \/ NoteOff(k)
    BY <2>1, NoteOnKeeps, NoteOffKeeps
  <2>2. CASE \E down \in BOOLEAN : Sustain(down) \/ Sostenuto(down)
    BY <2>2, SustainKeeps, SostenutoKeeps
  <2>3. CASE \E source \in Sources, val \in {0, 1} : ControlChange(source, val)
    BY <2>3, ControlChangeKeeps
  <2>4. CASE ResetControllers \/ AllNotesOff \/ AllSoundOff
    BY <2>4, ResetControllersKeeps, AllNotesOffKeeps, AllSoundOffKeeps
  <2>5. CASE \E filterToo \in BOOLEAN : ControlTick(filterToo)
    BY <2>5, ControlTickKeeps
  <2>6. CASE \E v \in ModelVoices : VoiceEnds(v)
    BY <2>6, VoiceEndsKeeps
  <2>7. CASE ConsumeCompletions
    BY <2>7, ConsumeCompletionsKeeps
  <2>8. CASE UNCHANGED modelVars
    BY <2>8, ModelStutter
  <2> QED
    BY <2>1, <2>2, <2>3, <2>4, <2>5, <2>6, <2>7, <2>8 DEF ModelNext
<1> QED
  BY <1>1, <1>2, PTL DEF ModelSpec

(* Whatever notes, pedals and controllers come, and however the bank evicts*)
(* to make room (realtime_region_bank.cpp, evict_one), a voice that sounds *)
(* finds the region it was started with.                                   *)
THEOREM RegionsNeverMove == ModelSpec => []RegionsStayPut
<1>1. ModelInv => RegionsStayPut
  BY DEF ModelInv, RegionFits, RegionsStayPut
<1> QED
  BY <1>1, ModelInvariant, PTL

(* Policy, mirror (command_control.cpp) and synthesizer never lose each    *)
(* other, however many commands the mirror suppresses and however late the *)
(* completions of a render are taken (render_support.cpp,                  *)
(* consume_voice_completions): a voice the policy holds sounds as held, or *)
(* has ended with its report still waiting, a report never names what      *)
(* plays, and what plays has the value of every source in the groups that  *)
(* the source's change marks.                                              *)
THEOREM MirrorTellsTheVoice == ModelSpec => []MirrorFollows
<1>1. ASSUME ModelInv PROVE MirrorFollows
  <2>1. ASSUME NEW v \in ModelVoices
        PROVE  LET s == voices[v].state
                   off == synth[v].state = "off"
               IN /\ voices[v].gen = synth[v].gen
                  /\ s = "held" => off \/ synth[v].state = "on"
                  /\ s = "release" => off \/ synth[v].state = "released"
                  /\ s = "silent" => off
                  /\ mode = "render" /\ s # "silent" /\ off => voices[v].gen \in ended[v]
                  /\ synth[v].gen \in ended[v] => off
                  /\ ~off => \A source \in Sources : \A g \in Marks[source] \cap Feeds[source] :
                               synth[v].val[g][source] = channel[source]
                  /\ (s # "silent") = (v \in Range(active))
    <3> DEFINE p == Policy.strips[v]
    <3>1. StripFits(p, v \in Range(active), channel) /\ p \in Strips
      BY <1>1, PolicyIs DEF ModelInv, PolicyFits, Policies
    <3>2. p.voice = voices[v] /\ p.synth = synth[v] /\ p.ended = ended[v]
      BY PolicyIs
    <3> HIDE DEF p
    <3>3. (voices[v].state # "silent") = (v \in Range(active))
      BY <3>1, <3>2 DEF StripFits, Sounding
    <3>4. /\ voices[v].state \in {"silent", "held", "release"}
          /\ synth[v].state \in {"off", "on", "released"}
      BY <3>1, <3>2, StripFields
    <3>5. /\ voices[v].gen = synth[v].gen
          /\ voices[v].state = "held" => synth[v].state # "released"
          /\ voices[v].state = "release" => synth[v].state # "on"
          /\ voices[v].state = "silent" => synth[v].state = "off"
      BY <3>1, <3>2 DEF StripFits
    <3>6. /\ mode = "render" /\ voices[v].state # "silent" /\ synth[v].state = "off"
               => synth[v].gen \in ended[v]
          /\ synth[v].gen \in ended[v] => synth[v].state = "off"
      BY <3>1, <3>2 DEF StripFits, Reported, Sounding
    <3>7. synth[v].state # "off" => Follows(synth[v].val, channel)
      BY <3>1, <3>2, <3>5 DEF StripFits, Sounding
    <3> QED
      BY <3>3, <3>4, <3>5, <3>6, <3>7 DEF Follows
  <2> QED
    BY <2>1 DEF MirrorFollows
<1> QED
  BY <1>1, ModelInvariant, PTL
=============================================================================
