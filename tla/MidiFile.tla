------------------------------- MODULE MidiFile -------------------------------
(***************************************************************************)
(* Reading a standard MIDI file and preparing it for a render.             *)
(*                                                                         *)
(*   src/sim/harness/formats/midi_parser.cpp    parse_midi                 *)
(*   src/sim/harness/render/render_support.cpp  prepare_events_and_regions *)
(*                                                                         *)
(* The tracks are read one after the other and their events merged by tick *)
(* and, within a tick, by the order in which they were read; one walk over *)
(* the merged list then applies programs and the tempo map.  The renderer  *)
(* pairs note-offs with note-ons, keeps the window it was asked for, and   *)
(* makes one note-on of each layer its program has for the note.           *)
(*                                                                         *)
(* One channel and one key.  A tick at tempo n lasts n units of time       *)
(* (division 1), a sample is SampleUnits of them.  The reader of the bytes *)
(* keeps only what may go wrong in it: running status.  "control" is every *)
(* channel event that is neither a note nor a program change; no instrument*)
(* is forced, and the regions lie within the wave memory.                  *)
(***************************************************************************)
EXTENDS Integers, FiniteSets, SequencesExt

CONSTANTS
  MaxDelta,      \* bound on a delta time
  TempoValues,   \* tempos a Set Tempo event may carry; 1 is the default
  Programs,      \* programs a file may select
  TrackCount,    \* tracks of the file
  MaxFileEvents, \* bound on the events of the file
  SampleUnits,   \* time units of one output sample
  WindowStart,   \* args.start_seconds, in time units
  SampleCount,   \* output samples of the render
  LayerCount     \* the zones each program has for the note; 0: it is not mapped

ASSUME MidiFileAssumption ==
  /\ {MaxDelta, MaxFileEvents, WindowStart, SampleCount} \subseteq Nat
  /\ LayerCount \in [Programs \cup {0} -> Nat]
  /\ TempoValues \subseteq Nat /\ {TrackCount, SampleUnits} \subseteq Nat \ {0}

VARIABLES
  track,       \* the track being read, from 1; beyond TrackCount: all are
  tick,        \* the absolute tick within it
  running,     \* the running status, or "none"
  order,       \* event_order
  raw,         \* raw_events, as read
  tempos,      \* the tempo events, as read, after the implicit first one
  filePhase,   \* reading, failed, parsed or prepared
  parsed,      \* what parse_midi returned
  prepared     \* what prepare_events_and_regions made of it

fileVars == <<track, tick, running, order, raw, tempos, filePhase, parsed, prepared>>

Statuses == {"on", "off", "control", "program"}

(* A note-on of velocity 0 is a note-off. *)
ValuesOf(status) ==
  CASE status = "on" -> {0, 1} [] status \in {"off", "control"} -> {0} [] OTHER -> Programs

EventKind(e) == IF e.kind = "on" /\ e.value = 0 THEN "off" ELSE e.kind

FileInit ==
  /\ track = 1 /\ tick = 0 /\ running = "none" /\ order = 1
  /\ raw = << >> /\ tempos = <<[tick |-> 0, order |-> 0, tempo |-> 1]>>
  /\ filePhase = "reading" /\ parsed = << >> /\ prepared = << >>

Reading == filePhase = "reading" /\ track <= TrackCount /\ order <= MaxFileEvents

(* A channel event, with its status byte or under running status. *)
ReadChannelEvent(delta, status, value) ==
  /\ Reading
  /\ tick' = tick + delta
  /\ running' = status
  /\ raw' = Append(raw, [tick |-> tick + delta, order |-> order, kind |-> status, value |-> value])
  /\ order' = order + 1
  /\ UNCHANGED <<track, tempos, filePhase, parsed, prepared>>

ReadRunningEvent(delta, value) ==
  /\ Reading
  /\ \/ running # "none" /\ value \in ValuesOf(running) /\ ReadChannelEvent(delta, running, value)
     \/ running = "none" /\ filePhase' = "failed"
        /\ UNCHANGED <<track, tick, running, order, raw, tempos, parsed, prepared>>

(* A meta or system exclusive event ends running status. *)
ReadMeta(delta) ==
  /\ Reading
  /\ tick' = tick + delta /\ running' = "none" /\ order' = order + 1
  /\ UNCHANGED <<track, raw, tempos, filePhase, parsed, prepared>>

ReadTempo(delta, tempo) ==
  /\ Reading
  /\ tick' = tick + delta /\ running' = "none" /\ order' = order + 1
  /\ tempos' = Append(tempos, [tick |-> tick + delta, order |-> order, tempo |-> tempo])
  /\ UNCHANGED <<track, raw, filePhase, parsed, prepared>>

EndTrack ==
  /\ filePhase = "reading" /\ track <= TrackCount
  /\ track' = track + 1 /\ tick' = 0 /\ running' = "none" /\ order' = order + 1
  /\ UNCHANGED <<raw, tempos, filePhase, parsed, prepared>>

(***************************************************************************)
(* The merge, the walk over it and the tempo map                           *)
(***************************************************************************)
Earlier(a, b) == a.tick < b.tick \/ (a.tick = b.tick /\ a.order < b.order)
Merged(events) == SortSeq(events, Earlier)

(* The program in force at each event; a program change is no event itself. *)
WithPrograms(events) ==
  LET Step(s, e) ==
        IF e.kind = "program" THEN [s EXCEPT !.program = e.value]
        ELSE [s EXCEPT !.out = Append(@, [tick |-> e.tick, order |-> e.order, kind |-> EventKind(e),
                                          program |-> s.program])]
  IN FoldLeft(Step, [program |-> 0, out |-> << >>], events).out

TimeAt(clock, t) == clock.time + (t - clock.tick) * clock.tempo

(* The tempo events up to a tick move the clock along, each at most once. *)
Due(clock, map, i, t) == i > clock.index /\ map[i].tick <= t

Moved(clock, map, i) ==
  [time |-> TimeAt(clock, map[i].tick), tick |-> map[i].tick, tempo |-> map[i].tempo, index |-> i]

AdvanceClock(clock, map, t) ==
  FoldLeft(LAMBDA c, i : IF Due(c, map, i, t) THEN Moved(c, map, i) ELSE c,
           clock, [i \in DOMAIN map |-> i])

WithTimes(events, map) ==
  LET Step(s, e) ==
        LET clock == AdvanceClock(s.clock, map, e.tick)
        IN [clock |-> clock, out |-> Append(s.out, [kind |-> e.kind, program |-> e.program, order |-> e.order,
                                                    time |-> TimeAt(clock, e.tick)])]
      start == [time |-> 0, tick |-> 0, tempo |-> map[1].tempo, index |-> 1]
  IN FoldLeft(Step, [clock |-> start, out |-> << >>], events).out

ParseMidi ==
  /\ filePhase = "reading" /\ track > TrackCount
  /\ filePhase' = "parsed"
  /\ parsed' = WithTimes(WithPrograms(Merged(raw)), Merged(tempos))
  /\ UNCHANGED <<track, tick, running, order, raw, tempos, prepared>>

(***************************************************************************)
(* prepare_events_and_regions                                              *)
(***************************************************************************)
StableBy(events, keys) ==
  LET before(i, j) == keys[i] < keys[j] \/ (keys[i] = keys[j] /\ i < j)
      places == SortSeq([i \in DOMAIN events |-> i], before)
  IN [i \in DOMAIN events |-> events[places[i]]]

Field(e, name, value) == [k \in DOMAIN e \cup {name} |-> IF k = name THEN value ELSE e[k]]

(* Mutant of WithInstances: a note-off takes the newest pending note-on. *)
WithInstancesNewest(events) ==
  LET Numbered(s, e, instance, pending, next) ==
        [pending |-> pending, next |-> next, out |-> Append(s.out, Field(e, "instance", instance))]
      Step(s, e) ==
        CASE e.kind = "control" -> Numbered(s, e, 0, s.pending, s.next)
          [] e.kind = "on" -> Numbered(s, e, s.next, Append(s.pending, s.next), s.next + 1)
          [] e.kind = "off" /\ s.pending # << >> -> Numbered(s, e, Last(s.pending), Front(s.pending), s.next)
          [] OTHER -> Numbered(s, e, s.next, << >>, s.next + 1)
  IN FoldLeft(Step, [pending |-> << >>, next |-> 1, out |-> << >>], events).out

(* A note-off takes the oldest pending note-on, or a number of its own. *)
WithInstances(events) ==
  LET Numbered(s, e, instance, pending, next) ==
        [pending |-> pending, next |-> next, out |-> Append(s.out, Field(e, "instance", instance))]
      Step(s, e) ==
        CASE e.kind = "control" -> Numbered(s, e, 0, s.pending, s.next)
          [] e.kind = "on" -> Numbered(s, e, s.next, Append(s.pending, s.next), s.next + 1)
          [] e.kind = "off" /\ s.pending # << >> -> Numbered(s, e, Head(s.pending), Tail(s.pending), s.next)
          [] OTHER -> Numbered(s, e, s.next, << >>, s.next + 1)
  IN FoldLeft(Step, [pending |-> << >>, next |-> 1, out |-> << >>], events).out

WindowEnd == WindowStart + SampleCount * SampleUnits

(* Of what precedes the window the controls stay, at its start; what       *)
(* follows it is dropped.                                                  *)
Windowed(events) ==
  LET kept == SelectSeq(events, LAMBDA e : e.time < WindowEnd /\ (e.time >= WindowStart \/ e.kind = "control"))
      moved(time) == IF time < WindowStart THEN 0 ELSE time - WindowStart
  IN [i \in DOMAIN kept |-> [kept[i] EXCEPT !.time = moved(@)]]

(* One note-on for each layer of its program, none where there is no zone *)
WithLayers(events) ==
  LET copies(e) == IF e.kind = "on" THEN LayerCount[e.program] ELSE 1
  IN FlattenSeq([i \in DOMAIN events |-> [l \in 1 .. copies(events[i]) |-> Field(events[i], "layer", l)]])

Rounded(time) == (2 * time + SampleUnits) \div (2 * SampleUnits)

SampleOf(time) == IF Rounded(time) > SampleCount THEN SampleCount ELSE Rounded(time)

WithSamples(events) ==
  LET placed == [i \in DOMAIN events |-> Field(events[i], "at", SampleOf(events[i].time))]
  IN StableBy(placed, [i \in DOMAIN placed |-> placed[i].at])

(* A window with no event, or with no note-on that has a region, is an     *)
(* error; the second covers the first.                                     *)
PrepareEvents ==
  /\ filePhase = "parsed"
  /\ LET sorted == StableBy(parsed, [i \in DOMAIN parsed |-> parsed[i].time])
         layered == WithLayers(Windowed(WithInstances(sorted)))
     IN IF \E i \in DOMAIN layered : layered[i].kind = "on"
        THEN filePhase' = "prepared" /\ prepared' = WithSamples(layered)
        ELSE filePhase' = "failed" /\ UNCHANGED prepared
  /\ UNCHANGED <<track, tick, running, order, raw, tempos, parsed>>

FileNext ==
  \/ \E delta \in 0 .. MaxDelta :
       \/ ReadMeta(delta)
       \/ \E tempo \in TempoValues : ReadTempo(delta, tempo)
       \/ \E value \in UNION {ValuesOf(s) : s \in Statuses} : ReadRunningEvent(delta, value)
       \/ \E status \in Statuses : \E value \in ValuesOf(status) : ReadChannelEvent(delta, status, value)
  \/ EndTrack \/ ParseMidi \/ PrepareEvents

FileSpec == FileInit /\ [][FileNext]_fileVars

(***************************************************************************)
(* Properties                                                              *)
(***************************************************************************)
(* When a tick begins: every tick before it lasts what the tempo in force  *)
(* then says, the latest of the tempo events at or before it.              *)
TempoAt(t) ==
  LET past == {i \in DOMAIN tempos : tempos[i].tick <= t}
  IN tempos[CHOOSE i \in past : \A j \in past \ {i} : Earlier(tempos[j], tempos[i])].tempo
StartOf(t) == FoldLeft(LAMBDA time, u : time + TempoAt(u - 1), 0, [u \in 1 .. t |-> u])

ProgramAt(e) ==
  LET past == {i \in DOMAIN raw : raw[i].kind = "program" /\ Earlier(raw[i], e)}
  IN IF past = {} THEN 0
     ELSE raw[CHOOSE i \in past : \A j \in past \ {i} : Earlier(raw[j], raw[i])].value

(* The first-come first-served partner of a note-off.  Note-offs that met  *)
(* no pending note-on took none: as many as the offs ever outran the ons.  *)
Ons(e) == Cardinality({r \in ToSet(raw) : EventKind(r) = "on" /\ Earlier(r, e)})
Offs(e) == Cardinality({r \in ToSet(raw) : EventKind(r) = "off" /\ Earlier(r, e)})
Outrun(e) == Max({0} \cup {Offs(r) + 1 - Ons(r) : r \in {r \in ToSet(raw) : EventKind(r) = "off" /\ Earlier(r, e)}})
Answers(off, on) ==
  /\ EventKind(off) = "off" /\ EventKind(on) = "on" /\ Earlier(on, off)
  /\ Ons(on) = Offs(off) - Outrun(off)

InWindow(r) == StartOf(r.tick) >= WindowStart /\ StartOf(r.tick) < WindowEnd
CopiesOf(r) ==
  CASE r.kind = "program" -> 0
    [] r.kind = "control" -> IF StartOf(r.tick) < WindowEnd THEN 1 ELSE 0
    [] EventKind(r) = "on" /\ InWindow(r) -> LayerCount[ProgramAt(r)]
    [] EventKind(r) = "off" /\ InWindow(r) -> 1
    [] OTHER -> 0
PlaceOf(r) == IF InWindow(r) THEN Rounded(StartOf(r.tick) - WindowStart) ELSE 0

RawOf(e) == CHOOSE r \in ToSet(raw) : r.order = e.order

(* Whatever the tracks interleave, each note of the file that falls in the *)
(* window is played once in each layer its program has for it, at the      *)
(* sample its tick and the tempo map give, with the program in force at    *)
(* that place of the file; the controls before the window are in force at  *)
(* its start, nothing after it is left; events are in the order of their   *)
(* samples, those of one sample in the order of the file; and a note-off   *)
(* and a note-on share a number exactly when the note-off answers that     *)
(* note-on: the oldest one no note-off has answered.  Only a file with no  *)
(* playable note in the window is refused.  (parse_midi,                   *)
(* prepare_events_and_regions)                                             *)
FileIsPlayed ==
  /\ filePhase = "failed" /\ track > TrackCount =>
       \A r \in ToSet(raw) : EventKind(r) = "on" => CopiesOf(r) = 0
  /\ filePhase = "prepared" =>
       /\ \A r \in ToSet(raw) : {e.layer : e \in {e \in ToSet(prepared) : e.order = r.order}} = 1 .. CopiesOf(r)
       /\ Len(prepared) = FoldLeft(LAMBDA n, r : n + CopiesOf(r), 0, raw)
       /\ \A e \in ToSet(prepared) :
            /\ e.kind = EventKind(RawOf(e)) /\ e.program = ProgramAt(RawOf(e))
            /\ e.at = PlaceOf(RawOf(e))
       /\ \A i, j \in DOMAIN prepared : i < j =>
            LET a == RawOf(prepared[i]) b == RawOf(prepared[j])
            IN /\ prepared[i].at <= prepared[j].at
               /\ prepared[i].at = prepared[j].at => ~Earlier(b, a)
               /\ (a # b /\ "control" \notin {a.kind, b.kind}) =>
                    (prepared[i].instance = prepared[j].instance <=> Answers(b, a) \/ Answers(a, b))
===============================================================================
