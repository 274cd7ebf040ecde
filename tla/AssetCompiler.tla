---------------------------- MODULE AssetCompiler ----------------------------
(***************************************************************************)
(* From a SoundFont to the layers a note plays.                            *)
(*                                                                         *)
(*   src/sim/harness/formats/sf2_loader.cpp    load and compile a font     *)
(*   src/sim/harness/formats/mcu_sf2_asset.cpp flatten it into an image    *)
(*   src/mcu/msf2.c                            read the image on the MCU   *)
(*                                                                         *)
(* The loader merges global and local zones, multiplies preset by          *)
(* instrument zones and indexes the candidates by key; the asset builder   *)
(* flattens the candidates of the selected presets into sections joined by *)
(* offsets, with renumbered samples, presence bits and interned modulation *)
(* programs; the firmware finds its way back through the offsets.          *)
(*                                                                         *)
(* Operators and modulator sources keep their SoundFont numbers.  A range  *)
(* amount is a pair, every other amount an integer that saturates at       *)
(* AmountMax (16 bits in the code).  Amount sources and transforms, and    *)
(* the conversion of a generator value into hardware units, are left out.  *)
(***************************************************************************)
EXTENDS Integers, FiniteSets, SequencesExt

CONSTANTS
  PresetChoices,      \* the bag sequences a preset may have
  InstrumentChoices,  \* the bag sequences an instrument may have
  SampleChoices,      \* the sequences of sample headers
  PoolWords,          \* smpl_word_count
  MaxKey,             \* 127
  MaxVelocity,        \* 127
  AmountMax,          \* 32767
  DefaultCutoff,      \* 13500
  CoarseWords,        \* 32768, the words of a coarse address offset
  OperLimit,          \* 61, the operators an image has presence bits for
  MaxPrograms,        \* 255, the modulation programs an image may hold
  MaxLayers           \* MSF2_MAX_LAYERS

ASSUME AssetAssumption ==
  /\ {PoolWords, MaxKey, MaxVelocity, AmountMax, DefaultCutoff} \subseteq Nat
  /\ {CoarseWords, OperLimit, MaxPrograms} \subseteq Nat
  /\ MaxLayers \in Nat \ {0}

VARIABLES
  font,       \* the parsed tables: presets, instruments, samples
  compiled,   \* Sf2Data::compiled
  image,      \* the MSF2 image
  view        \* what msf2_view_init said of it, or the builder refused to make it

assetVars == <<font, compiled, image, view>>

StartOffset == 0
EndOffset == 1
LoopStartOffset == 2
LoopEndOffset == 3
FilterFc == 8
Pan == 17
InstrumentRef == 41
KeyRange == 43
VelRange == 44
SampleId == 53
ExclusiveClass == 57

(* The coarse operator that goes with each fine one *)
Coarse == StartOffset :> 4 @@ EndOffset :> 12 @@ LoopStartOffset :> 45 @@ LoopEndOffset :> 50

OffsetOpers == DOMAIN Coarse \cup {Coarse[o] : o \in DOMAIN Coarse}
PlayedOpers == OffsetOpers \cup {FilterFc, Pan, ExclusiveClass}
IllegalAtPreset == OffsetOpers \cup {SampleId, ExclusiveClass}
Additive(oper) == oper \notin {KeyRange, VelRange, InstrumentRef} \cup IllegalAtPreset
DefaultAmount(oper) == IF oper = FilterFc THEN DefaultCutoff ELSE 0

Saturated(n) == IF n > AmountMax THEN AmountMax ELSE IF n < -AmountMax - 1 THEN -AmountMax - 1 ELSE n
Clamp(n, low, high) == IF n < low THEN low ELSE IF n > high THEN high ELSE n
Least(a, b) == IF a < b THEN a ELSE b
Greatest(a, b) == IF a > b THEN a ELSE b

(***************************************************************************)
(* load_sf2: reading a bag                                                 *)
(***************************************************************************)
(* The first terminal generator ends a bag. *)
BagEnd(gens, terminal) ==
  LET ends == {i \in DOMAIN gens : gens[i].oper = terminal}
  IN IF ends = {} THEN Len(gens) ELSE Min(ends)

(* A range counts only in its place, and a preset may not hold everything. *)
Accepted(gens, i, atPreset) ==
  /\ gens[i].oper = KeyRange => i = 1
  /\ gens[i].oper = VelRange => i = 1 \/ (i = 2 /\ gens[1].oper = KeyRange)
  /\ ~(atPreset /\ gens[i].oper \in IllegalAtPreset)

(* generators_for_zone_checked *)
BagGenerators(gens, terminal, atPreset) ==
  LET kept == {i \in 1 .. BagEnd(gens, terminal) : Accepted(gens, i, atPreset)}
  IN [o \in {gens[i].oper : i \in kept} |->
        gens[Max({i \in kept : gens[i].oper = o})].amount]

ValidSource(s) ==
  IF s >= 128 THEN s - 128 \notin {0, 6, 32, 38} \cup 98 .. 101 \cup 120 .. 127
              ELSE s \in {0, 2, 3, 10, 13, 14, 16, 127}

ValidDestination(d, count) ==
  IF d >= 32768 THEN d - 32768 < count
                ELSE d \in {0, 15, 16, 17, 48, 51, 52} \cup 5 .. 11 \cup {13}

(* modulators_for_zone_checked: by source and destination, the last wins. *)
BagModulators(mods) ==
  LET kept == {i \in DOMAIN mods :
                 /\ ~(mods[i].src = 0 /\ mods[i].dest = 0 /\ mods[i].amount = 0)
                 /\ ValidSource(mods[i].src)
                 /\ ValidDestination(mods[i].dest, Len(mods))}
      KeyOf(i) == <<mods[i].src, mods[i].dest>>
  IN [k \in {KeyOf(i) : i \in kept} |->
        mods[Max({i \in kept : KeyOf(i) = k})].amount]

(* default_modulators: velocity to attenuation and to filter cutoff, the   *)
(* modulation wheel to vibrato and the pitch wheel to pitch stand for all. *)
DefaultModulators == <<2, 48>> :> 1 @@ <<2, 8>> :> -1 @@ <<129, 6>> :> 1 @@ <<14, 0>> :> 2

NoZone == [gens |-> << >>, mods |-> << >>]

(* instrument_zones and preset_zones: the first bag without a terminal is  *)
(* global, later ones are ignored, and each bag with one is a zone.        *)
ZonesOf(bags, terminal, atPreset, base) ==
  LET Read(b) == [gens |-> BagGenerators(bags[b].gens, terminal, atPreset),
                  mods |-> BagModulators(bags[b].mods)]
      HasTerminal(b) == terminal \in DOMAIN Read(b).gens
      global == IF bags # << >> /\ ~HasTerminal(1) THEN Read(1) ELSE NoZone
      Merged(b) == [gens |-> Read(b).gens @@ global.gens,
                    mods |-> Read(b).mods @@ global.mods @@ base]
      local == SelectSeq([b \in DOMAIN bags |-> b], HasTerminal)
  IN [i \in DOMAIN local |-> Merged(local[i])]

RangeOf(gens, oper, high) == IF oper \in DOMAIN gens THEN gens[oper] ELSE <<0, high>>
Meet(r, s) == <<Greatest(r[1], s[1]), Least(r[2], s[2])>>
Within(n, r) == r[1] <= n /\ n <= r[2]

(* combine_preset_and_instrument_zones and _modulators *)
CombineGenerators(preset, instrument) ==
  LET added == {o \in DOMAIN preset : Additive(o)}
  IN [o \in DOMAIN instrument \cup added |->
        IF o \notin added THEN instrument[o]
        ELSE Saturated(preset[o] + IF o \in DOMAIN instrument THEN instrument[o]
                                                              ELSE DefaultAmount(o))]

CombineModulators(preset, instrument) ==
  [k \in DOMAIN preset \cup DOMAIN instrument |->
     IF k \notin DOMAIN instrument THEN preset[k]
     ELSE IF k \notin DOMAIN preset THEN instrument[k]
     ELSE Saturated(instrument[k] + preset[k])]

(* add_compiled_candidate, with the ranges narrowed to where both zones play *)
CandidateOf(pz, iz) ==
  LET keys == Meet(RangeOf(pz.gens, KeyRange, MaxKey), RangeOf(iz.gens, KeyRange, MaxKey))
      vels == Meet(RangeOf(pz.gens, VelRange, MaxVelocity), RangeOf(iz.gens, VelRange, MaxVelocity))
  IN [keys |-> keys, vels |-> vels,
      gens |-> KeyRange :> keys @@ VelRange :> vels @@ CombineGenerators(pz.gens, iz.gens),
      mods |-> CombineModulators(pz.mods, iz.mods)]

(* compile_sf2_data for one preset: its candidates, and by key which play. *)
CompileTarget(f, p) ==
  LET presetZones == ZonesOf(f.presets[p].bags, InstrumentRef, TRUE, << >>)
      Instrument(pz) == ZonesOf(f.instruments[pz.gens[InstrumentRef] + 1], SampleId, FALSE,
                                DefaultModulators)
      PairsOf(pz) == [i \in DOMAIN Instrument(pz) |-> CandidateOf(pz, Instrument(pz)[i])]
      all == FlattenSeq([z \in DOMAIN presetZones |-> PairsOf(presetZones[z])])
      candidates == SelectSeq(all, LAMBDA c : c.keys[1] <= c.keys[2] /\ c.vels[1] <= c.vels[2])
      indices == [i \in DOMAIN candidates |-> i]
  IN [candidates |-> candidates,
      byKey |-> [k \in 0 .. MaxKey |->
                   SelectSeq(indices, LAMBDA i : Within(k, candidates[i].keys))]]

(* validate_parsed_tables: a loop outside its sample becomes the sample. *)
Normalised(s) ==
  IF s.start <= s.loopStart /\ s.loopStart <= s.loopEnd /\ s.loopEnd <= s.end THEN s
  ELSE [s EXCEPT !.loopStart = s.start, !.loopEnd = s.end]

(* select_preset: the bank, then bank 0, then program 0, then the first. *)
SelectPreset(f, program, bank) ==
  LET Find(b, p) == {i \in DOMAIN f.presets : f.presets[i].bank = b /\ f.presets[i].program = p}
      tries == <<Find(bank, program), Find(0, program), Find(0, 0), {1}>>
  IN CHOOSE i \in tries[Min({n \in DOMAIN tries : tries[n] # {}})] : TRUE

(***************************************************************************)
(* What a layer is: where its sample plays, its generators, its modulators *)
(***************************************************************************)
AmountOr0(gens, oper) == IF oper \in DOMAIN gens THEN gens[oper] ELSE 0
Effective(gens) == [o \in PlayedOpers |-> IF o \in DOMAIN gens THEN gens[o] ELSE DefaultAmount(o)]

(* sample_offset *)
OffsetOf(gens, oper) == AmountOr0(gens, oper) + CoarseWords * AmountOr0(gens, Coarse[oper])

(* The loader will not make a region of ROM data or of a linkedSample. *)
Refused(s) == s.type \in {"rom", "linked"}

(* sample_window and fill_region_addresses_from_sample *)
LoaderWindow(s, gens) ==
  LET low == Least(s.start, PoolWords)
      high == Greatest(low, Least(s.end, PoolWords))
      start == Clamp(s.start + OffsetOf(gens, StartOffset), low, high)
      end == Clamp(s.end + OffsetOf(gens, EndOffset), start, high)
      loopStart == Clamp(s.loopStart + OffsetOf(gens, LoopStartOffset), start, end)
      loopEnd == Clamp(s.loopEnd + OffsetOf(gens, LoopEndOffset), loopStart, end)
      frames == end - start
      first == Least(loopStart - start, IF frames # 0 THEN frames - 1 ELSE 0)
      last == Greatest(first + 1, Least(loopEnd - start, frames))
      whole == last > frames
  IN [base |-> start, length |-> frames,
      loop |-> IF whole THEN <<0, frames>> ELSE <<first, last>>]

Families == <<{13, 17, 48}, {0, 5, 6, 7}, {8, 10, 11}>>
NoteSource(s) == s \in {2, 3}
(* Neither a controller nor pressure, pitch wheel or its range moves a     *)
(* note-static term: that of the note itself, and of the constant source 0.*)
NoteStatic(s) == s < 128 /\ s \notin {10, 13, 14, 16}
(* Velocity and key reach attenuation and pan only when the note starts. *)
Summed(src, dest) == dest \in {48, 17} => ~NoteSource(src)

(* The modulator_sum_q16 calls: the terms that count toward each destination. *)
LoaderTerms(mods) ==
  {<<k[1], k[2], mods[k]>> : k \in {j \in DOMAIN mods :
     mods[j] # 0 /\ j[2] \in UNION ToSet(Families) /\ Summed(j[1], j[2])}}

LayerOf(f, c) ==
  [window |-> LoaderWindow(f.samples[c.gens[SampleId] + 1], c.gens),
   gens |-> Effective(c.gens), terms |-> LoaderTerms(c.mods)]

NoRegions == <<"refused">>

(* make_regions_for_preset and regions_from_compiled_target: one sample    *)
(* the loader refuses costs the note all its layers.                       *)
LoaderLayers(program, bank, key, velocity) ==
  LET target == compiled[SelectPreset(font, program, bank)]
      hits == SelectSeq(target.byKey[key], LAMBDA i : Within(velocity, target.candidates[i].vels))
      sampleOf(i) == font.samples[target.candidates[i].gens[SampleId] + 1]
  IN IF \E i \in ToSet(hits) : Refused(sampleOf(i)) THEN NoRegions
     ELSE [i \in DOMAIN hits |-> LayerOf(font, target.candidates[hits[i]])]

(***************************************************************************)
(* build_mcu_sf2_asset                                                     *)
(***************************************************************************)
ModOrder(j, k) == j[2] < k[2] \/ (j[2] = k[2] /\ j[1] < k[1])
Total(counts) == FoldLeft(LAMBDA a, b : a + b, 0, counts)
(* The offset of item i in the concatenation of sequences of these lengths *)
OffsetAt(counts, i) == Total(SubSeq(counts, 1, i - 1))

(* compile_sf2_semantics and select_semantics: the candidates of the       *)
(* selected presets, in font order.  No selection keeps every preset.      *)
Chosen(f, selection) ==
  SelectSeq([i \in DOMAIN f.presets |-> i],
            LAMBDA i : selection = {} \/ <<f.presets[i].bank, f.presets[i].program>> \in selection)

(* The samples kept, with the links of those the candidates use, in order. *)
RetainedSamples(f, used, selection) ==
  LET linked == {f.samples[n + 1].link : n \in used}
  IN SetToSortSeq(IF selection = {} THEN 0 .. Len(f.samples) - 1 ELSE used \cup linked, <)

(* Mutant of SampleIndex: the index in the font is kept. *)
SampleIndexUnmapped(retained, n) == n

SampleIndex(retained, n) == (CHOOSE i \in DOMAIN retained : retained[i] = n) - 1

ZoneOpers(gens) == DOMAIN gens \ {SampleId, KeyRange, VelRange}

(* The terms of one family of a candidate: those fixed by the note first. *)
FamilyTerms(mods, family) ==
  LET keys == SetToSortSeq({k \in DOMAIN mods : mods[k] # 0 /\ k[2] \in Families[family]}, ModOrder)
      Static(k) == NoteStatic(k[1])
      ordered == SelectSeq(keys, Static) \o SelectSeq(keys, LAMBDA k : ~Static(k))
  IN [i \in DOMAIN ordered |-> [src |-> ordered[i][1], dest |-> ordered[i][2],
                                amount |-> mods[ordered[i]]]]

StaticCount(terms) == Len(SelectSeq(terms, LAMBDA t : NoteStatic(t.src)))

NoProgram == -1

(* build_modulation: equal programs of a family are shared. *)
Interned(programs, family, terms) ==
  LET program == [family |-> family, terms |-> terms]
      found == {i \in DOMAIN programs : programs[i] = program}
  IN CASE terms = << >> -> [programs |-> programs, ref |-> NoProgram]
       [] terms # << >> /\ found # {} -> [programs |-> programs, ref |-> Min(found) - 1]
       [] OTHER -> [programs |-> Append(programs, program), ref |-> Len(programs)]

BuildModulation(candidates) ==
  LET Family(state, mods, family) ==
        LET i == Interned(state.programs, family, FamilyTerms(mods, family))
        IN [state EXCEPT !.programs = i.programs, !.row = Append(@, i.ref)]
      Candidate(state, c) ==
        LET done == FoldLeft(LAMBDA s, family : Family(s, c.mods, family),
                             [programs |-> state.programs, row |-> << >>], <<1, 2, 3>>)
        IN [programs |-> done.programs, refs |-> Append(state.refs, done.row)]
  IN FoldLeft(Candidate, [programs |-> << >>, refs |-> << >>], candidates)

PresetRecords(f, chosen, counts) ==
  [i \in DOMAIN chosen |-> [program |-> f.presets[chosen[i]].program,
                            bank |-> f.presets[chosen[i]].bank,
                            first |-> OffsetAt(counts, i), count |-> counts[i]]]

(* What makes the builder throw: a preset the font lacks, an operator      *)
(* without a presence bit, and more programs than 8-bit numbers name.      *)
BuilderThrows(f, c, selection) ==
  LET chosen == Chosen(f, selection)
      candidates == FlattenSeq([i \in DOMAIN chosen |-> c[chosen[i]].candidates])
  IN \/ selection # {} /\ Len(chosen) # Cardinality(selection)
     \/ \E x \in ToSet(candidates) : \E o \in ZoneOpers(x.gens) : o >= OperLimit
     \/ Len(BuildModulation(candidates).programs) > MaxPrograms

(* What an image keeps of a sample header; its type is not in it. *)
SampleRecord(s) == [start |-> s.start, end |-> s.end, loopStart |-> s.loopStart, loopEnd |-> s.loopEnd]

AssetImage(f, c, selection) ==
  LET chosen == Chosen(f, selection)
      perPreset == [i \in DOMAIN chosen |-> c[chosen[i]].candidates]
      candidates == FlattenSeq(perPreset)
      retained == RetainedSamples(f, {candidates[i].gens[SampleId] : i \in DOMAIN candidates},
                                  selection)
      amounts == [i \in DOMAIN candidates |->
                    LET opers == SetToSortSeq(ZoneOpers(candidates[i].gens), <)
                    IN [j \in DOMAIN opers |-> candidates[i].gens[opers[j]]]]
      amountCounts == [i \in DOMAIN amounts |-> Len(amounts[i])]
      modulation == BuildModulation(candidates)
      termCounts == [i \in DOMAIN modulation.programs |-> Len(modulation.programs[i].terms)]
  IN [presets |-> PresetRecords(f, chosen, [i \in DOMAIN perPreset |-> Len(perPreset[i])]),
      zones |-> [i \in DOMAIN candidates |->
        [keys |-> candidates[i].keys, vels |-> candidates[i].vels,
         first |-> OffsetAt(amountCounts, i), presence |-> ZoneOpers(candidates[i].gens),
         sample |-> SampleIndex(retained, candidates[i].gens[SampleId])]],
      amounts |-> FlattenSeq(amounts),
      samples |-> [i \in DOMAIN retained |-> SampleRecord(f.samples[retained[i] + 1])],
      refs |-> modulation.refs,
      programs |-> [i \in DOMAIN modulation.programs |->
        [first |-> OffsetAt(termCounts, i), count |-> termCounts[i],
         static |-> StaticCount(modulation.programs[i].terms),
         family |-> modulation.programs[i].family]],
      terms |-> FlattenSeq([i \in DOMAIN modulation.programs |-> modulation.programs[i].terms])]

(***************************************************************************)
(* The firmware's view of the image                                        *)
(***************************************************************************)
RangeFits(first, count, section) == first + count <= Len(section)

(* msf2_view_init, less the header and the checksum *)
ViewAccepts(m) ==
  /\ Len(m.refs) = Len(m.zones)
  /\ \A i \in DOMAIN m.presets : RangeFits(m.presets[i].first, m.presets[i].count, m.zones)
  /\ \A i \in DOMAIN m.zones :
       /\ m.zones[i].keys[1] <= m.zones[i].keys[2] /\ m.zones[i].keys[2] <= MaxKey
       /\ m.zones[i].vels[1] <= m.zones[i].vels[2] /\ m.zones[i].vels[2] <= MaxVelocity
       /\ m.zones[i].sample < Len(m.samples)
       /\ RangeFits(m.zones[i].first, Cardinality(m.zones[i].presence), m.amounts)
       /\ \A o \in m.zones[i].presence : o < OperLimit /\ o \notin {KeyRange, VelRange, SampleId}
  /\ \A i \in DOMAIN m.samples :
       LET s == m.samples[i]
       IN /\ s.start <= s.loopStart /\ s.loopStart <= s.loopEnd /\ s.loopEnd <= s.end
          /\ s.end <= PoolWords
  /\ \A i \in DOMAIN m.refs : \A n \in 1 .. 3 : m.refs[i][n] < Len(m.programs)
  /\ \A i \in DOMAIN m.programs :
       LET p == m.programs[i]
       IN /\ p.static <= p.count
          /\ RangeFits(p.first, p.count, m.terms)
          /\ \A n \in 1 .. p.count :
               /\ m.terms[p.first + n].dest \in Families[p.family]
               /\ n <= p.static => NoteStatic(m.terms[p.first + n].src)

(* msf2_find_preset: 0 when there is none *)
FindPreset(m, program, bank) ==
  LET found == {i \in DOMAIN m.presets : m.presets[i].program = program /\ m.presets[i].bank = bank}
  IN IF found = {} THEN 0 ELSE Min(found)

(* msf2_decode_generators: the amounts follow the presence bits upwards. *)
DecodeGenerators(m, z) ==
  [o \in z.presence |-> m.amounts[z.first + Cardinality({q \in z.presence : q <= o})]]

(* materialize_note_decoded *)
FirmwareWindow(s, gens) ==
  LET start == Clamp(s.start + OffsetOf(gens, StartOffset), s.start, s.end)
      end == Clamp(s.end + OffsetOf(gens, EndOffset), start, s.end)
      loopStart == Clamp(s.loopStart + OffsetOf(gens, LoopStartOffset), start, end)
      loopEnd == Clamp(s.loopEnd + OffsetOf(gens, LoopEndOffset), loopStart, end)
      length == end - start
      first == IF loopStart - start >= length /\ length # 0 THEN length - 1 ELSE loopStart - start
      last == Greatest(first + 1, Least(loopEnd - start, length))
  IN [base |-> start, length |-> length,
      loop |-> IF first >= last \/ last > length THEN <<0, length>> ELSE <<first, last>>]

(* cache_candidate_programs, cache_note_static_modulation and              *)
(* destination_sums_q16: the static terms once, the others on every sum.   *)
FirmwareTerms(m, refs) ==
  LET Slot(n) == IF refs[n] = NoProgram THEN {}
                 ELSE LET p == m.programs[refs[n] + 1]
                      IN {m.terms[p.first + i] : i \in 1 .. p.static}
                         \cup {m.terms[p.first + i] : i \in p.static + 1 .. p.count}
  IN {<<t.src, t.dest, t.amount>> : t \in {u \in UNION {Slot(n) : n \in 1 .. 3} :
        Summed(u.src, u.dest)}}

TooManyLayers == <<"capacity">>

(* msf2_collect_layers and the layers note_on starts from them *)
FirmwareLayers(m, p, key, velocity) ==
  LET preset == m.presets[p]
      Matches(z) == Within(key, m.zones[z].keys) /\ Within(velocity, m.zones[z].vels)
      hits == SelectSeq([i \in 1 .. preset.count |-> preset.first + i], Matches)
      Layer(z) == LET gens == DecodeGenerators(m, m.zones[z])
                  IN [window |-> FirmwareWindow(m.samples[m.zones[z].sample + 1], gens),
                      gens |-> Effective(gens), terms |-> FirmwareTerms(m, m.refs[z])]
  IN IF Len(hits) > MaxLayers THEN TooManyLayers ELSE [i \in DOMAIN hits |-> Layer(hits[i])]

(***************************************************************************)
(* Behaviour                                                               *)
(***************************************************************************)
NotYet == << >>

AssetInit == font = NotYet /\ compiled = NotYet /\ image = NotYet /\ view = "none"

(* Two presets, in bank 0 and bank 1, that share the instruments. *)
LoadFont(first, second, instruments, samples) ==
  /\ font = NotYet
  /\ LET f == [presets |-> <<[bank |-> 0, program |-> 1, bags |-> first],
                             [bank |-> 1, program |-> 0, bags |-> second]>>,
               instruments |-> instruments,
               samples |-> [i \in DOMAIN samples |-> Normalised(samples[i])]]
     IN font' = f /\ compiled' = [p \in DOMAIN f.presets |-> CompileTarget(f, p)]
  /\ UNCHANGED <<image, view>>

BuildAsset(selection) ==
  /\ compiled # NotYet /\ image = NotYet /\ view = "none"
  /\ IF BuilderThrows(font, compiled, selection)
     THEN view' = "unbuilt" /\ UNCHANGED image
     ELSE image' = AssetImage(font, compiled, selection) /\ UNCHANGED view
  /\ UNCHANGED <<font, compiled>>

OpenView ==
  /\ image # NotYet /\ view = "none"
  /\ view' = IF ViewAccepts(image) THEN "ok" ELSE "rejected"
  /\ UNCHANGED <<font, compiled, image>>

AssetNext ==
  \/ \E first, second \in PresetChoices, i, j \in InstrumentChoices, s \in SampleChoices :
       LoadFont(first, second, <<i, j>>, s)
  \/ \E selection \in {{}, {<<0, 1>>}, {<<1, 0>>}, {<<0, 1>>, <<1, 1>>}} : BuildAsset(selection)
  \/ OpenView

AssetSpec == AssetInit /\ [][AssetNext]_assetVars

(***************************************************************************)
(* Properties                                                              *)
(***************************************************************************)
(* What the SoundFont says of one note, zone by zone and without merging:  *)
(* a bag's value, else its global bag's, else the default, plus what the   *)
(* preset adds to it.                                                      *)
FontLayers(f, p, key, velocity) ==
  LET bags == f.presets[p].bags
      Gens(bs, b, terminal, atPreset) == BagGenerators(bs[b].gens, terminal, atPreset)
      Global(bs, terminal, atPreset) ==
        IF terminal \in DOMAIN Gens(bs, 1, terminal, atPreset) THEN {} ELSE {1}
      Value(bs, b, terminal, atPreset, oper, default) ==
        LET says == {n \in {b} \cup Global(bs, terminal, atPreset) :
                       oper \in DOMAIN Gens(bs, n, terminal, atPreset)}
        IN IF says = {} THEN default ELSE Gens(bs, Max(says), terminal, atPreset)[oper]
      Mods(bs, b, terminal, atPreset, base) ==
        LET says == {b} \cup Global(bs, terminal, atPreset)
            keys == DOMAIN base \cup UNION {DOMAIN BagModulators(bs[n].mods) : n \in says}
        IN [k \in keys |->
              LET at == {n \in says : k \in DOMAIN BagModulators(bs[n].mods)}
              IN IF at = {} THEN base[k] ELSE BagModulators(bs[Max(at)].mods)[k]]
      Plays(bs, b, terminal, atPreset) ==
        /\ terminal \in DOMAIN Gens(bs, b, terminal, atPreset)
        /\ Within(key, Value(bs, b, terminal, atPreset, KeyRange, <<0, MaxKey>>))
        /\ Within(velocity, Value(bs, b, terminal, atPreset, VelRange, <<0, MaxVelocity>>))
      InstrumentOf(b) == f.instruments[Gens(bags, b, InstrumentRef, TRUE)[InstrumentRef] + 1]
      pairs == {<<b, c>> \in (DOMAIN bags) \X (1 .. Max({Len(i) : i \in ToSet(f.instruments)})) :
                  /\ Plays(bags, b, InstrumentRef, TRUE)
                  /\ c \in DOMAIN InstrumentOf(b)
                  /\ Plays(InstrumentOf(b), c, SampleId, FALSE)}
      order == SetToSortSeq(pairs, LAMBDA x, y : x[1] < y[1] \/ (x[1] = y[1] /\ x[2] < y[2]))
      Layer(b, c) ==
        LET inst == InstrumentOf(b)
            gens == [o \in PlayedOpers |->
                       LET own == Value(inst, c, SampleId, FALSE, o, DefaultAmount(o))
                       IN IF Additive(o) THEN Saturated(own + Value(bags, b, InstrumentRef, TRUE, o, 0))
                                         ELSE own]
            added == Mods(bags, b, InstrumentRef, TRUE, << >>)
            own == Mods(inst, c, SampleId, FALSE, DefaultModulators)
            mods == [k \in DOMAIN added \cup DOMAIN own |->
                       Saturated((IF k \in DOMAIN own THEN own[k] ELSE 0)
                                 + (IF k \in DOMAIN added THEN added[k] ELSE 0))]
        IN [window |-> LoaderWindow(f.samples[Gens(inst, c, SampleId, FALSE)[SampleId] + 1], gens),
            gens |-> gens, terms |-> LoaderTerms(mods)]
  IN [i \in DOMAIN order |-> Layer(order[i][1], order[i][2])]

(* Whether a note of a preset plays a sample the loader refuses *)
PlaysRefused(f, p, key, velocity) ==
  \E c \in ToSet(CompileTarget(f, p).candidates) :
    Within(key, c.keys) /\ Within(velocity, c.vels) /\ Refused(f.samples[c.gens[SampleId] + 1])

(* The firmware accepts every image the builder makes (msf2_view_init      *)
(* against build_mcu_sf2_asset) and, although it sees nothing else, plays  *)
(* for every note of every selected preset exactly the layers the          *)
(* SoundFont describes, in their order.  The host's loader plays the same  *)
(* ones, with one difference: a note with a ROM sample or a linkedSample   *)
(* among its layers it refuses as a whole, while the image does not hold   *)
(* sample types and the firmware plays it like any other.                  *)
FontIsPlayed ==
  view \in {"ok", "rejected"} =>
    /\ view = "ok"
    /\ \A key \in 0 .. MaxKey, velocity \in 0 .. MaxVelocity, p \in DOMAIN font.presets :
         LET wanted == FontLayers(font, p, key, velocity)
             program == font.presets[p].program
             bank == font.presets[p].bank
             found == FindPreset(image, program, bank)
         IN /\ LoaderLayers(program, bank, key, velocity)
                 = IF PlaysRefused(font, p, key, velocity) THEN NoRegions ELSE wanted
            /\ found # 0 => FirmwareLayers(image, found, key, velocity)
                             = IF Len(wanted) > MaxLayers THEN TooManyLayers ELSE wanted
==============================================================================
