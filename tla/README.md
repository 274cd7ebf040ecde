# Music Box FPGA: TLA+ verification project

Music Box FPGA is a 512-voice wavetable synthesizer: a SystemVerilog render core
on an FPGA, driven over SPI by RP2040 firmware that turns MIDI into a command
stream. A PC can play the firmware's part (`host/`), and a C++ harness
(`sim/harness/`) compiles SoundFonts, parses MIDI files and renders the
reference that the hardware is compared with. This directory holds TLA+ modules
for the parts where order, interleaving and failure matter, TLC configurations
that check them on small instances, and TLAPS proofs. Paths below are relative
to the repository's root.

Contents: [the system](#the-system), [modules](#the-modules-and-the-code),
[runs](#the-runs), [bounds](#bounds), [fairness and deadlock](#fairness-and-deadlock),
[proofs](#what-is-proved), [disagreements found](#disagreements-between-code-and-documentation),
[not modelled](#what-is-not-modelled), [plan](#plan).

## The system

### How the parts interact

```
 MIDI -> RP2040 core 0 (USB, UART, I2S capture)
           |  midi_ingress_queue
         RP2040 core 1: synth_controller, msf2, command_batch, SPI DMA queue
           |  SPI:  a5 commands  a6 flush  a7 session reset
           |        5a/5b register mailbox  5d completion query
         spi_register_bridge ---- spi_completion_log <------------------+
           | command words             ^ clear                          |
         control_word_fifo         render_session_reset_controller      |
           |                           | core reset, epoch              |
         voice_major_command_plane     v                                |
           | START / STOP / RELEASE  block_voice_state_store -----------+
           +----------------------->   ^ snapshot   ^ write-back     completions
                                       |            |
 block_output_manager ----block------> block_controller -> voice renderer
           ^                                                | contributions
           +---- published bank ---- block_mix_buffer <-----+
           |
        audio effects -> output FIFO -> I2S
```

Everything on the FPGA moves on one clock; the bridge also sees the SPI clock.
The firmware's two cores share a MIDI ring, a few flags and a capture ring that
DMA fills, all without locks. The MCU and the FPGA share no memory: they agree through sequence numbers, a
session epoch and CRC-checked frames, on a link that can corrupt a frame and
between two machines that can be restarted independently.

On a PC the same roles are threads: an input thread, a main loop with a voice
policy, and the worker of a command scheduler that writes to a CH347 adapter.
Two voice policies exist there, `McuModel` (regions prepared by the SoundFont
loader) and `McuSf2AssetRuntime` (the compiled MSF2 asset the firmware uses).

### Inventory

| component | state | operations | what makes it correct |
|---|---|---|---|
| completion log (`fpga/common/rtl/spi_completion_log.sv`) | ring, write and acknowledge sequence, sticky overflow, latched response | take an event, answer a query, clear | an unacknowledged entry is never overwritten; a drop is reported until cleared |
| session reset controller (`render_session_reset_controller.sv`, `voice_major_system.sv`) | pending request, epoch, memory drain | assert, drain, acknowledge | a new epoch means a new session, with nothing of the old one in it |
| SPI register bridge (`spi_register_bridge.sv`) | receive FSM, staging RAM, commit engine, mailbox, response streamer | 0xa5, 0xa6, 0xa7, 0x5a/0x5b, 0x5d | a command transaction is published whole or not at all |
| poller, session reset, monitor (`mcu/synth_controller.c`, `fpga_spi_transport.c`, `transport_health_policy.c`) | session ready flag, epoch, next sequence, fault latch | poll, retry, reset, 100 ms monitor, operator panic | each completion is consumed once, in order, from the right session |
| command plane and FIFO (`rtl/control/voice_major_command_plane.sv`, `control_word_fifo.sv`) | parser FSM, command registers, word FIFO | parse, dispatch, wait, flush | every command reaches its end; none acts on a block in progress |
| voice state store (`rtl/control/block_voice_state_store.sv`) | valid bits, dynamic memory, one read register, control and write-back FSMs, completion port | install, control event, snapshot, write back | three clients share a read register; each ended generation is reported once |
| block controller, render core (`rtl/voice/voice_major_block_controller.sv`, `rtl/top/voice_major_render_core.sv`) | FSM, scan position, outstanding count | scan, dispatch, drain, finish | a block is finished when all of its voices are |
| mix buffer (`rtl/voice/block_mix_buffer.sv`) | two banks with owner state, clear index | clear, accumulate, publish, read, release | a published bank is frozen; no residue of an older block |
| output scheduler and manager (`voice_major_output_scheduler.sv`, `voice_major_block_output_manager.sv`) | request flag, start frame, output FSM | request a block, drain it, release it | frames are played in order, none twice, none skipped |
| voice renderer, envelope, sample window (`rtl/voice/block_interleaved_voice_renderer.sv`, `block_interleaved_envelope_frontend.sv`, `rtl/memory/voice_sample_window.sv`) | job ring, envelope state, line reads | render a voice's frames | every accepted voice is returned once |
| audio effects, output FIFO, I2S | filters, FIFO | process, play | fixed-point bounds, underrun behaviour |
| registers and status fabric | mailbox, status | fetch, read | a response belongs to its request |
| SD reader, asset loader, DDR3 subsystem (`fpga/smart_artix/rtl`) | card FSM, load progress, arbiter | load, read lines | loaded flag only after a full load |
| MSF2 runtime, voice allocator (`mcu/msf2.c`) | voice table, free and active lists, channel state with dirty revisions, modulation envelopes and LFOs | note on and off, pedals, modes, sliced control job, completion | a slot has one owner, freed by its own completion only; no note hangs; every change reaches every voice |
| command batch, SPI DMA queue (`mcu/command_batch.c`, `spi_dma_queue.c`, `rp2040_spi_dma_transport.c`) | batch buffer, frame ring | append, flush, enqueue, interrupt, exchange | no command is lost, split, repeated or reordered on the way to the bus; all of it is sent |
| MIDI ingress, policy, SysEx (`mcu/midi_*.c`) | two-core queue, matcher, channel selections | push, pop, discard, data entry | every packet is accounted for; panic stops the stream; both policies agree |
| I2S capture and USB audio (`mcu/i2s_*.c`, `usb_audio_rate_match.c`) | DMA ring, clock monitor, stream state | tick, measure, restart, fill a packet | packets fit; a restart follows each FPGA reset; a steady clock plays |
| firmware main loop (`mcu/main.c`) | fault latch, panic flags, watchdog | service order of both cores | the control core recovers what it can |
| host scheduler, MIDI input, main loop (`host/command_scheduler.cpp`, `realtime_midi*.cpp`, `ch347_transport.cpp`) | event queue, lifecycle queue, coalesced updates, worker state | push, batch, gather, write, retry, shut down | the FPGA ends up with what the main thread meant; the program ends, silently |
| region bank and compiled runtime (`host/realtime_region_bank.cpp`, `mcu_sf2_asset_runtime.cpp`) | cache entries; voice array, exclusive bitmaps | evict, claim; allocate, choke, tick | no region changes under a voice; bitmaps follow voices |
| policy model and command mirror (`sim/harness/render/render_support.cpp`, `control/command_control.cpp`) | voices, pedals, parameters; last command per voice | notes, controllers, completions | suppressed commands change nothing |
| MIDI file parser (`sim/harness/formats/midi_parser.cpp`) | raw events, tempo map | read, merge, time | each note at its sample, with its program |
| SoundFont loader, asset compiler (`sim/harness/formats/sf2_loader.cpp`, `mcu_sf2_asset.cpp`) | zones, candidates; image sections | compile, select, remap, share | firmware and loader play the font's layers |
| reference renderer (`sim/harness/render/reference_synth.cpp`) | voice, envelope, phase | command, render a sample | one completion per generation; reads stay inside |
| descriptors, diagnostics, console; effect models, reports, test benches | tables, counters | | |

The hard behaviours: the interleaving of events, queries and streaming at the
log; wrap-around of sequence numbers and ring counters; retries of a query whose
answer was lost after it had already acknowledged; an FPGA power cycle that
restarts the epoch at zero; a watchdog reboot in the middle of a session; a
flush that arrives while a control event is in the store; three clients sharing
one read register; a staged commit draining while the next transaction arrives;
a sink that refuses a command half way through a chord; a control job whose
slices are interleaved with notes, completions and resets; two cores and DMA
around rings without locks; a USB write that failed but was delivered; ticks
folded across the end of an envelope stage. `PROJECT.json` lists each one at its
line under `hazards`, with the properties that would notice it going wrong. Three are
covered in part: when the sink refuses a START after a steal, the lists stay right but
the victim may go on sounding, and the control core has stopped (`msf2.c:1183`); a loop
that wraps more than once in a step is assumed away (`reference_synth.cpp:346`); and a
command frame the FPGA refuses is lost without anybody knowing
(`fpga_spi_transport.c:131`).

## The modules and the code

| module | models | composes |
|---|---|---|
| `CompletionLog` | the completion log and the streaming side of a 0x5d transaction | |
| `CompletionSession` | log, bridge mailbox, reset controller, SPI link, and the firmware's poller, reset sequence, monitor, panic and restart | extends `CompletionLog` |
| `CompletionChannel` | abstract: what the transport promises | instantiated by `CompletionSession` |
| `CompletionSession_proofs` | theorems about the log, the session and the channel | extends `CompletionSession` |
| `BlockPipeline` | mix buffer, output scheduler and manager, with an abstract renderer | |
| `BlockPipeline_proofs` | theorems about it | extends `BlockPipeline` |
| `RenderCore` | command plane, voice state store, block controller, voice engine | instantiates `BlockPipeline`, whose renderer it refines |
| `RenderCore_proofs` | theorems about it | extends `RenderCore`, instantiates `BlockPipeline_proofs` |
| `SpiBridge`, `MCSpiBridge` | command ingress of the bridge; the word shapes used for TLC | |
| `VoiceRuntime`, `MCVoiceRuntime` | the voice table of `msf2.c`, the control job of `synth_controller.c`, and the FPGA's slots as the commands change them | |
| `VoiceRuntime_proofs` | theorems about it | extends `VoiceRuntime` |
| `ModulationClock` | modulation envelope and LFO of a voice: the host's tick-by-tick replay and the firmware's fold of elapsed ticks, side by side, with what gain, pitch and filter are computed from | |
| `CommandPath` | command batch, DMA ring and interrupt, blocking exchanges, count of malformed commands, reset with its frame of audio defaults | |
| `MidiIngress` | both cores' ends of the MIDI ring, panic, off-line discards, SysEx matcher | |
| `AudioCapture` | DMA ring, clock monitor, restart and resync request, USB packet policy | |
| `Queues_proofs` | theorems about the three modules above and `SpiBridge` | extends all four |
| `CommonLemmas` | facts several proofs need: remainders, rings of slots as sequences, flattened sequences, induction | extended by the proofs that use it |
| `ChannelPolicy` | bank, program, RPN and NRPN of a channel in `midi_policy.c` and in `McuModel` | |
| `HostPlayer` | input thread, main loop and scheduler worker of the host program | |
| `McuModel` | the harness and host policy, the command mirror and the region bank | |
| `McuModel_proofs` | theorems about it | extends `McuModel` |
| `CompiledRuntime` | the voice array and exclusive bitmaps of `McuSf2AssetRuntime` | |
| `MidiStream`, `MidiFile` | byte-stream decoder; file parser and event preparation | |
| `AssetCompiler` | loader, asset builder and the firmware's reader of the image | |
| `ReferenceVoice` | one voice of the reference renderer | |
| `Host_proofs` | theorems about the reference voice, the stream decoder, the channel policies, the compiled runtime, the modulation clock and the host player | extends `ReferenceVoice`, `MidiStream`, `ChannelPolicy`, `CompiledRuntime`, `ModulationClock`, `HostPlayer` |
| `MCRendering`, `MCHost`, `MCQueues` | instances of several of the above in one run | |

State and actions keep the source's names. Conventions:

- **An RTL module is one action per clock edge.** Every register gets its next
  value on the same edge, from the values before it: `LogCycle(event, q)`,
  `Cycle(...)`, `CommitRuns(cmd_ready)`. Inputs that come from outside (an event,
  FIFO room, chip select) are quantified.
- **Firmware is one action per step another actor can see**: a transaction
  started, its header latched, each item shifted, and then one action per outcome
  of the code that examines it; in the rings of two cores, one action per atomic
  load or store. A handler nobody can interrupt is one action, however long:
  `VoiceRuntime`'s are chains of functions on the runtime record, as the code's
  are on `msf2_runtime`, and stop at the first command the sink refuses. A loop that
  sends at most one command per voice (a refresh: one per control group), and decides
  about each by what the loop itself does not change, is stated for all its voices at
  once: the sink takes the first of the commands in the order of the loop (`EmitEach`).
- **A thread of the host** takes one step per lock it holds.
- **Corruption** is a nondeterministic outcome of a frame check (CRC). Corrupt
  bytes that pass the CRC are not modelled.
- **History variables** (`accepted`, `session`, `received`, `played`, `mixed` tags,
  `installed`/`superseded`/`completed`, `keys`, `drift`, `young`, `resets`, `aba`, `admitted`,
  `delivered`, `fresh`, `aligned`, `crossed`, `reports` and the like) exist for the
  properties; no guard of the system reads them, except that bounds do.
- **Sides.** `MCRendering`, `MCHost` and `MCQueues` check several parts that share
  no modelled state in one run: a behaviour picks a `side` and runs that part's
  `Next` alone, the other parts staying in their initial states. The states of
  the run are the sum, not the product, of the parts'.
- **Mutants.** Definitions introduced by a comment `Mutant of X` are altered forms
  of the definition that follows. They are unused, and show that a property is
  sensitive to the code: replacing X by its mutant makes TLC report a violation.

What each module abstracts:

- `CompletionLog`: an event is its number in order of arrival. The CDC between
  the SPI clock and the system clock is the possibility of any number of edges
  between query, header latch and items. The status byte is left out.
- `CompletionSession`: the register mailbox is reduced to the epoch register.
  `PLATFORM_STATUS` and `VERSION` are read by the monitor as `asset_loaded` and
  "unreachable". Session resets from the completion poll, the monitor, the
  operator console and SysEx are distinguished. `FpgaRestart` is a power cycle;
  `McuRestart` is the watchdog reboot. That the load after a power cycle lasts
  longer than a monitor period is built in (`load_monitored`): the SD load
  of an image takes seconds (`docs/board/asset_loading.md:300`), the monitor period
  is 100 ms. Without it an
  epoch that restarts at zero could be taken for the old one.
- `BlockPipeline`: samples are sets of (voice, block) tags instead of sums, so
  residue and incompleteness are visible. The renderer is four states.
- `RenderCore`: a command is one FIFO element, its payload words a wait. A voice
  is its active flag and generation. The engine is a set of jobs of which at most
  one mixes and one ends per edge.
- `SpiBridge`: a word is its frame, its position and the low byte that the
  payload length is read from. A step has at most one SPI event, because the
  oversampled SPI clock leaves idle edges between two. The constant `FifoKeepsUp`
  says whether a new 0xa5 may arrive while a commit still drains.
- `VoiceRuntime`: gain, pitch and filter are control groups with a dirty mark each.
  What a voice was last sent for a group is the channel's controllers (one value `cc`
  for all controllers, pressures and generator offsets, whose changes mark every
  group), the bend (the wheel and its range, whose changes mark the pitch alone) if
  the group's sum has a term of it (`BendFeeds`), and whether periodic modulation
  moves the group. A refresh sends pitch, gain and filter in this order, each only if
  its value changed. The sink takes a number of commands of a handler (`Limits`) and
  refuses the next; the control core then latches a fault. A job has at least two
  ticks to catch up on (`Elapsed`), because `APP_CONTROL_UPDATE_PERIOD_MS` is 5
  (`mcu/synth_controller.c:28`), so it refreshes a periodic filter on every visit; the
  cadence of single ticks is in `ModulationClock`. The number of an exclusive class
  stands for the pair of preset and class. Generations, stamps and note instances
  do not wrap.
- `ModulationClock`: levels and phases on a small scale; one LFO stands for both. What
  a group is computed from is the envelope level and the LFO, if the group is
  periodic. The host refreshes the filter on every fourth tick; the firmware on each
  visit of more than one tick and on every fourth. Of a voice without a periodic
  group the firmware refreshes the dirty groups only; envelope and LFO stand still. A visit whose command is refused
  (`VisitFails`) publishes the groups before it and stops the control core. Only
  the firmware has a switch for periodic modulation.
- `CommandPath`: a command is its number and length. A frame is taken whole; or the
  bridge refuses it, which lights `spi_error` and is counted nowhere; or it reaches the
  parser as something malformed and is counted. Nothing tells the firmware of a
  refused frame, so `NothingLost` speaks of sessions without one, and no property says that a
  loss is noticed. A reset sends the audio defaults past the batch; the
  count the monitor compares with is read again after an offline recovery only.
- `MidiIngress`: four kinds of packets are told apart, those of the reset SysEx and
  everything else.
- `AudioCapture`: time is milliseconds; a tick brings a nominal number of frames,
  one more, or none. That an FPGA reset does not fall between the last register
  write of a capture restart and the two stores after it is built in
  (`FpgaReset`): the reset and its epoch poll are SPI transfers, the stores a few
  instructions with interrupts off. Nor is an FPGA reset modelled that the firmware
  did not ask for and does not see: each is followed by a request.
- `HostPlayer`: which voice a note gets is a free choice; a command carries one
  value per update kind. A failed write may have reached the FPGA.
- `McuModel`: one model, two programs. In the host regions come from the bank and
  nobody reads completions, so a voice can have ended and still be held by the policy. In a
  render all regions are prepared, Note Offs name the note they were paired with, and
  what ends is queued (`VoiceEnds`) and taken once a millisecond
  (`ConsumeCompletions`), where a report of an older generation is passed over. Sources are
  three classes by the groups their change marks (`Marks`); what they feed is a
  parameter (`Feeds`). A group that a source feeds and does not mark keeps its old
  value until a control tick or another source marks it; a released voice gets no
  ticks. An exclusive class is one of its preset (`PresetOf`). What envelopes and LFOs add over
  time is left out, and the steal score is a free choice among the voices of the class
  the code compares first. A START is never refused for its region.
- `CompiledRuntime`, `ChannelPolicy`: one channel; a data byte has a small range.
- `MidiStream`: one channel. A torn SysEx leaves the decoder deaf to everything up to the next F7,
  because it ignores status bytes inside one and nothing calls its `reset()`; `sent`
  leaves out what is sent in between, so `DecodesWhatWasSent` says exactly what is lost.
- `MidiFile`: one channel, one key. A program has a number of layers for it, none if
  the note is unmapped. The render keeps a window of the file: notes before it are
  dropped, controls before it move to its start, everything from its end on is dropped, and a
  window without a playable note fails. A Note Off is paired with the oldest Note On
  that has none.
- `AssetCompiler`: operators keep their SoundFont numbers, amounts are small
  integers that saturate, a coarse offset is `CoarseWords` words; chunk reading and
  unit conversions are left out. The builder refuses operators from `OperLimit` on
  and more than `MaxPrograms` modulation programs. The loader refuses a note that has
  a ROM or linked sample among its layers; the image keeps no sample type, and the firmware plays
  it. `FontIsPlayed` states this difference and that it is the only one.
- `ReferenceVoice`: mono; the envelope command 0x13 is left out because nothing
  in the repository sends it.

## The runs

| run | specification | shows |
|---|---|---|
| `session_restart` | `SessionSpec` | `ConsumesOwnLog`: the MCU consumed a prefix of the log of the session it opened, whatever was retried, reset or power-cycled. `ImplementsChannel`: the transport refines `CompletionChannel`. |
| `session_wrap` | `FairSessionSpec` | `EventuallyConsumed`: with overflow and wrap-around, each logged event reaches the MCU unless the session is given up |
| `rendering` | `MCRendering!MCSpec` | `BanksInOrder`, `BlockTimelineAdvances`: the banks carry the timeline, and it moves on once resets stop. `CommandBoundary`, `CommitDrains`: a transaction enters the FIFO at command boundaries and drains. `EndsOnce`, `ReadsInside`: a reference voice reports once and reads within its sample. `FoldIsReplay`: late visits leave envelope, LFO, gain and pitch as replayed ticks do. `FontIsPlayed`: loader and firmware play the layers a direct reading of the font gives, ROM and linked samples apart, which only the firmware plays. |
| `core_scan` | `CoreSpec` | `ScanUndisturbed`: a block renders one settled state, its read register is never somebody else's, its results find their generation, and it ends complete |
| `core_generations` | `FairCoreSpec` | `GenerationsAccounted`: each installed generation sounds, was replaced, or was reported once. `ImplementsPipeline`: the core refines `BlockPipeline`. `CommandsAndBlocksEnd`. |
| `voice_runtime` | `VoiceRuntime!Spec` | `SlotsAccounted`, `NoHungNote`, `ControllersReachVoices`, `AdvancedOnce`: slots, notes, controller values and modulation time survive stealing, refusals, pedals and sliced jobs |
| `queues` | `MCQueues!MCSpec` | the completion log (`TypeOK`, `WindowIntact`, `StreamFaithful`); the command path (`NothingLost`, `EverythingSent`); the capture (`PacketFits`, `ResyncCoversReset`, `PlaysWhenSteady`); the MIDI ring (`EveryPacketAccounted`, `AtMostOneCrossesPanic`, `IngressDrains`) |
| `host` | `MCHost!MCSpec` | `HostAgrees`, `SilentAtExit`, `HostExits` for the player; `RegionsStayPut`, `MirrorFollows` for policy, mirror and cache; `ExclusiveIndexExact`; `PoliciesAgree`; `DecodesWhatWasSent`; `FileIsPlayed` |
| `bridge_busy`, `voice_reset`, `voice_bend`, `capture_restart` | violations | see the disagreements below |

Run one with `tlc -workers 2 -config <cfg> <module>`; the pairs are in
`PROJECT.json`. Each takes one to three minutes.

### Bounds

| run | bound | why it is enough |
|---|---|---|
| `session_restart` | ring 2, batch 1, 3 events, 4 sessions, 2 attempts, 2 epoch polls, 2 restarts | two sessions on each side of a power cycle make epochs repeat; two attempts make a retry and a give-up; a reboot can follow a power cycle |
| `session_wrap` | ring 2, batch 2, modulo 4, 5 events, 1 restart | a drop, an event accepted after it, and a wrap in one session |
| `rendering`, block side | 1 voice, 2 frames, 4 blocks | both banks are reused, so a bank's third owner can meet residue of its first |
| `rendering`, bridge side; `bridge_busy` | 3 staging words, payload limit 1, 2 frames | one- and two-word commands, two commands in one frame, a cut-off and an oversized one, declared lengths from 0 to one too many |
| `rendering`, reference side | samples of 3 frames in each loop mode and with an empty loop, 2 phase steps per frame, 2 STARTs | a voice ends by its sample, its envelope, a STOP and a replacement, at every stage |
| `rendering`, modulation side | stages of 0 and 2 ticks, notes with and without periodic groups, visits of 1 to 4 ticks, 6 ticks | a visit spans several stage ends and skips or hits a fourth tick; modulation is switched between visits |
| `rendering`, asset side | 2 presets, 2 instruments, 3 samples, coarse offsets of 2 words, 61 operators, 7 modulation programs, the bags of `MCRendering` | global zones, misplaced ranges, saturation, modulators that replace and cancel, dropped, ROM and linked samples, an operator and a number of programs the builder refuses |
| `core_scan` | 2 voices, 2 slots, RELEASE_NOW and UPDATE beside START | an event for a voice other than the one scanned |
| `core_generations` | 1 voice, 2 generations, 1 block at a time, STOP, RELEASE, AUDIO and a format error | a START that replaces a sounding generation, a completion of each, and each wait of the parser |
| `voice_runtime`, `voice_reset`, `voice_bend` | 2 voices, slices of 1, visits of 5 ticks, a two-layer chord with an exclusive class, one layer with periodic pitch and filter, and a bass note; a wheel that feeds pitch and filter; 2 notes, 2 controls, a refusal after the first or the fourth command | a chord steals both voices; a note, a completion or a control falls between the slices of a job; a refresh is cut between two groups |
| `queues` | log: ring 4, batch 2, modulo 8, 10 events; path: frames of 3 words, ring of 2 frames, 4 commands, 1 error, 2 resets; capture: ring 3, modulo 12, 1 FPGA reset; MIDI: ring 2, modulo 4, 3 packets, 1 panic, 1 outage | every ring fills, and its indices wrap; the MIDI ring's modulo-4 counters do not with 3 packets (`IngressLosesNothing` covers that) |
| `capture_restart` | ring 8, target 3, 1 FPGA reset | a restart with a count that is not a multiple of the ring |
| `host` | player: 2 voices, 3 lifecycle slots, 3 words a transaction, 3 events, 1 tolerated error; policy: 2 voices, 2 slots and 2 entries in the bank, 2 note numbers, 1 change of a source; compiled: 3 voices, 3 notes; channel: 4 controllers; cable: 4 messages; file: 2 tracks, 4 events, a window of 2 samples that starts at unit 1, a program with two layers and one with none | queues overflow into the reserve and the throw; a note evicts another's regions; a report waits while its voice is restarted; a stolen voice had a class; a tempo change falls between and onto notes of another track; a Note Off falls in the window and its Note On before it |

Constants named `Max...`, and `FifoDepth`, only bound exploration (`WORD_FIFO_DEPTH`
is 1024 words); the others are the code's parameters, made small, with the code's
name beside them where they are declared.

### Fairness and deadlock

- `SessionFairness`: core 1's loop always runs again (weak fairness of each poll
  step; `app_control_core_main` is an endless loop of services, watched by a
  heartbeat and the watchdog), the reset controller and the SD load finish, and a
  started SPI transaction ends. Strong fairness of `RequestAccepted` says that the
  link does not corrupt every request for ever. Nothing is assumed of restarts,
  panics or the monitor.
- `BlockPipeline!Fairness`: the clock runs, the output FIFO is drained at the
  sample rate and so keeps getting room and taking samples, commands do not hold
  a block back for ever, the renderer ends each block. These are separate
  conditions and need not hold on the same edge. Resets may come at any time;
  `TimelineAdvances` speaks of behaviours where they eventually stop.
- `CoreFairness`: the clock runs, the payload of a begun command arrives (the
  bridge publishes whole transactions), the effects take samples, memory answers,
  a session reset that began ends.
- `FairBridgeSpec`: edges without an SPI event keep happening, and with room
  in the FIFO, because the command plane keeps reading.
- `PathFairness`: core 1 flushes and enqueues in its loop, a started DMA transfer
  ends in its interrupt, a blocking exchange ends.
- `CaptureFairness`: both cores' loops go on and the external clock ticks at its
  rate. `PlaysWhenSteady` speaks of behaviours that become steady.
- `IngressFairness`: both cores' loops go on.
- `HostSpec`: the main thread and the worker are scheduled. Nothing is assumed of
  the transport: `HostExits` holds although every write may fail.

Deadlock is checked in the two core runs, `bridge_busy` and `capture_restart`. In
the others the system may stop: a latched control fault ends core 1's services, a
program exits, a file or a font has been read, and the bounds on events,
packets and sessions end the rest.

## What is proved

TLC checks the runs' instances. The theorems below hold for every value of the
constants that satisfies the named assumption of the module, so for the sizes of
the build too. `tlapm <module>` checks them.

| module | theorem | states |
|---|---|---|
| `CompletionSession_proofs` | `TypeCorrect` | `Spec => []TypeOK`, of the log |
| | `UnacknowledgedKept` | `Spec => [](WindowBounded /\ WindowIntact)`: at most `Depth` entries are unacknowledged, and each is in its ring slot |
| | `StreamedAsAccepted` | `Spec => []StreamFaithful`: items read one by one from the live ring are those of the snapshot at the query |
| | `OwnLogConsumed` | `SessionSpec => []ConsumesOwnLog` |
| | `TransportIsChannel` | `SessionSpec => ImplementsChannel`: log, link, reset controller and poller refine `CompletionChannel` |
| `BlockPipeline_proofs` | `PipelineInvariant` | `Spec => []PipeInv` |
| | `BlocksPlayInOrder` | `Spec => []BanksInOrder` |
| `RenderCore_proofs` | `CoreInvariant` | `CoreSpec => []ScanInv` |
| | `BlockSeesOneState` | `CoreSpec => []ScanUndisturbed` |
| | `CoreImplementsPipeline` | `CoreSpec => ImplementsPipeline`: the core refines `BlockPipeline!Spec` |
| | `CorePlaysInOrder` | `CoreSpec => []Pipe!BanksInOrder` |
| | `EveryGenerationAccounted` | `CoreSpec => []GenerationsAccounted` |
| `VoiceRuntime_proofs` | `TableInvariant` | `Spec => []RuntimeInv` |
| | `SlotsStayAccounted` | `Spec => []SlotsAccounted` |
| | `NoNoteHangs` | `Spec => []NoHungNote` |
| | `ChangesReachVoices` | `Spec => []ControllersReachVoices`: every group's controllers, and the bend of the pitch alone |
| | `JobsAgeOnce` | `Spec => []AdvancedOnce` |
| `Queues_proofs` | `CommandsNeitherLostNorReordered` | `FairPathSpec => []NothingLost` |
| | `IngressLosesNothing` | `IngressSpec => []EveryPacketAccounted` |
| | `PanicStopsTheStream` | `IngressSpec => []AtMostOneCrossesPanic` |
| | `NoRequestLost` | `CaptureSpec => []ResyncCoversReset` |
| | `PacketsAreWhole` | `CaptureSpec => PacketFits`, an action property |
| | `CommandsArriveWhole` | `FifoKeepsUp => (BridgeSpec => [](PublishedWhole /\ CommandBoundary))` |
| `Host_proofs` | `VoiceEndsOnce` | `ReferenceSpec => []EndsOnce` |
| | `VoiceReadsInside` | `ReferenceSpec => []ReadsInside`, for phase steps shorter than the loop (`RegionAssumption`) |
| | `StreamDecoded` | `StreamSpec => []DecodesWhatWasSent`: all that is sent outside a torn SysEx |
| | `PoliciesStayTogether` | `PolicySpec => []PoliciesAgree`: the parameter of the last data-entry MSB |
| | `BitmapsFollowVoices` | `CompiledSpec => []ExclusiveIndexExact` |
| | `FoldingIsReplaying` | `ModulationSpec => []FoldIsReplay`: envelope, LFO, gain and pitch, not the filter |
| | `HostAndFpgaAgree` | `HostSpec => []HostAgrees` |
| | `ExitsSilent` | `HostSpec => []SilentAtExit` |
| `McuModel_proofs` | `RegionsNeverMove` | `ModelSpec => []RegionsStayPut` |
| | `MirrorTellsTheVoice` | `ModelSpec => []MirrorFollows`, with completions queued and taken later |

Each proof has one lemma per action, or per part of an edge for the RTL modules,
and under it one step for each conjunct of the inductive invariant that the
action can disturb. The inductive invariants were checked by TLC on the runs'
instances before they were proved.

**Completion log.** `LogAssumption` asks that the batch is not empty and fits the
ring and that the ring divides the sequence range with at least two laps. The
build has 16, 512 and 2^16. The two laps matter: with one, a full and an empty
window have the same distance. `WindowIntact` is not inductive: nothing in it
says that the window is no longer than the ring, so the next write could hit an
entry of it. `LogInv` adds `WindowBounded`; `ResponseInWindow` (the latched
response answers from entries still unacknowledged, because only the next query
acknowledges), and `StreamInWindow` (so do the items still to be shifted), from
which `StreamFaithful` follows. The core lemma is `AddressDistinct`: two sequence
numbers less than a ring apart have different slots, across the wrap too. It is
where the divisibility assumption is used.

**Completion session.** The two machines share no memory and either may restart
alone, so what the MCU believes of the FPGA is only true under conditions, and
`SessionInv` spells them out. It has `LogInv` as a conjunct and two halves.
*Who owns the session*: requests, polls and resets do not overlap
(`ControlConsistent`); each header in a register or on the wire is of the current
session, since a clear blanks the response and only a power cycle, which ends the
transaction, clears under a stream (`HeadersCurrent`); the mailbox can repeat the
epoch a reset compares with but never show a false change (`StaleEpochHarmless`);
a session is adopted at most once (`OpenedOnce`); and the session core 1 serves is
the FPGA's, or the FPGA has just restarted and logs nothing before the monitor
looked (`ServedIsOwned`, which is where the length of the asset load is used).
*What was consumed*: nothing is acknowledged that was not consumed
(`AcknowledgedConsumed`), so a repeated query gets the same events; and while the
sticky flag was low when a header was built, the events up to its end are
consecutive (`DropsFlagged`). The refinement maps the log to the channel's queue and
the pair of session and adopted session to its lease; each step is a step of the
channel or leaves it unchanged. The assumptions are those of the log.

**Block pipeline.** `BanksInOrder` says who owns which bank and what it holds, not
which block may be in which place. `PipeInv` adds `OneUnfinished` (the renderer and
the completion register never hold a block each, since a published bank holds the
next admission back), `TimelinePositions` (the unfinished block is the last one
admitted and the one being drained the one before it, so two banks are enough)
and `ClearedSoFar` (a bank being cleared is clean up to the index). The only
assumption is a block length of at least one.

**Render core.** `ScanInv` is one invariant of five state machines, because none of
them is right alone. Its parts: `PhaseInv` (which client of the store may be active
in which phase of a block; a control event orphaned by a flush may be applied one
edge after the next admission, and only because the bank is then still being
cleared), `SnapshotInv` (a snapshot is in one register at a time), `FlightInv`
(between snapshot and write-back a voice is in one place and what is known of it
there is still so in the store), `OutstandingInv` (the counter is the number of
voices in the engine and at the result port), `MixInv` (what is due in a frame is
in the mix or still in the engine, and not both). It has `PipeInv` of the abstract
pipeline, at the core's renderer, as a conjunct: the phases depend on the state
of the bank and the bank on the contribution the engine offers, so the two are
proved by one induction. The refinement needs `ScanInv` for the step from DRAIN to
FINISH and for the contribution, which the abstract renderer may only offer while
a bank fills. `CorePlaysInOrder` is the pipeline's guarantee stated of the core. For
generations `GenerationInv` adds `FreshInv`: STARTs in the parser and the FIFO are
in the order of their generations and newer than what is installed. Without it
an old START could install a generation a second time, and it would be reported
twice. `FreshInv` rests on the sender numbering STARTs of a voice upwards, as
`msf2.c` does; in the model generations do not wrap.

**SPI bridge.** The theorem is conditional on `FifoKeepsUp`, that a commit has drained
when the next 0xa5 opcode is decoded. Without that it is false, as `bridge_busy`
shows. `BridgeInv` says that no commit runs while words arrive, that what has
arrived is in the staging RAM together with the parser's count of words still
missing (`ReceiveInv`), and that the words not yet taken are those of the RAM from
`commit_index` on, the word on offer the first of them and the read-ahead the
second (`CommitInv`). That the accepted words split into whole commands is a fact
about the recursive function `Missing`, by induction over the words.

**Voice runtime.** The four properties are proved together, from `RuntimeInv`, since
a handler disturbs all of its parts: `ListsOK` (each voice that is not free knows its
place in the list, the free stack repeats no slot), which holds after a fault too;
`SoundOK`, which adds to `FreeIsSilent` that no completion in the log is of a
generation that still sounds or is yet to come, so that the slot a completion frees
is silent; `NotesOK` (a voice whose key is up is held by a pedal that is down, and
`SUSTAIN_HELD` is exactly that); `KeysOK`, a count: of each key, at most as many notes
sound with the key down as there are keys down. With `NotesOK` alone a Note Off could
end the wrong note; that it ends the oldest, with all its layers, takes one note off
the count for one key. `JobAt` is about the job between its slices: the voices
before the cursor have their ticks and the others not (`DriftOK`); a group of a voice was
told its value (`Told`), or its mark is set and the voice is still to be visited, or the
channel's revision has moved, or the channel was reset under the job (`StillDue`, both in
`ValuesOK`); and revisions only grow, resets apart (`RevisionsOK`). `Told` asks the
controllers of every group and the bend of the pitch alone, since a bend marks nothing
else: a message that moves only the bend (`BendMoved`) leaves gain and filter as told as
they were, and `voice_bend` shows that no more is true. That the slots restarted under the job are those whose generation
differs from the snapshot (`SnapshotOK`) is why a job neither ages nor misses them. A
handler's loops are lemmas about its record: what ends voices at most (`Fades`),
what only moves them in the list (`Moved`), what starts them (`Newborn`). The
exclusive classes, layers and channels that a handler goes through one after another
are recursive functions, as below. `RuntimeAssumption` asks for at least one voice,
channel and note and a slice of 1 to all voices.

**Command path.** `PathInv` adds that the producer's index is `count` slots ahead of
the consumer's and that a transfer runs exactly while a frame waits (`RingShape`). A
reset finds the ring empty and starts with the frame of defaults as the only command
admitted and, unless it was refused, delivered. `PathAssumption` asks that every command
fits a frame.

**MIDI ingress.** `EveryPacketAccounted` is not inductive: the room core 0 saw must
still be there when it publishes, and what the control core discards must still
be there when it has read the count (`ProducerInv`, `ConsumerInv`). Both hold since
each counter has one writer. `IngressAssumption` asks that the counter's range is a
larger multiple of the capacity, as 2^32 is. `PanicInv` follows a panic through its
two discards: after the second at most the packet in core 0's hand is left, and
with the flag down again such a packet is the first of the ring or still in hand.

**Audio capture.** `ResyncCoversReset` needs one fact more, that the restart whose
stores are still to come has aligned the PIO (`RequestInv`). `PacketsAreWhole` is
proved from the packet policy and the types of the cursors alone.

**Reference voice.** For `EndsOnce`, `ReportInv` adds that reports and replacements
are of generations already started and that a sounding voice was not replaced.
For `ReadsInside`, `LoopInv` adds that a loop still followed is one, that the
phase has not left it, and that no phase step is as long as the loop: with a
longer step one subtraction would not bring the phase back. `RegionAssumption`
states that last condition of the regions and pitch commands; it is the
requirement of `docs/design/renderer/pipeline.md:426`, which neither the reference
renderer nor the command plane checks. A loop that wraps more than once in a step is
assumed away, not shown to be harmless.

**MIDI stream.** `StreamInv` relates decoder and cable: between messages the decoder
holds no partial message and awaits the data of the running status
(`BetweenMessages`), in a channel message it has the bytes already sent
(`InChannelMessage`), in a system message it skips what is still to come
(`InSystemMessage`). Real-time bytes leave all of it alone. That is half of the
invariant (`HearsInv`); the other half is about a SysEx that lost its end: the decoder
is inside it whatever the sender goes on with, and takes nothing in (`DeafInv`), until
the F7 of a later one.

**Channel policies.** `PoliciesAgree` speaks of the moment after a data entry.
Inductive is that the two selections agree in every field but the high half of the
value (`SelectionsAgree`), which the firmware's increments move and the harness
does not have; a data-entry MSB writes that half and so makes them equal.

**Compiled runtime.** Besides the types `RuntimeExact` says what `ExclusiveIndexExact`
says of the bitmaps and the stack, for a runtime in the middle of a handler too. A
Note On with several layers allocates, steals and marks once a layer, so the layers
are a recursive function whose every value is exact; and while they start, the
only open voices of the note's classes are those of the note itself (`OnlyNote`),
since the classes were released before the first layer. The victim scan only has
to return a voice.

**Modulation clock.** To be inductive `FoldIsReplay` needs types, and that gain and pitch
of a voice were computed from nothing that moves where they are not periodic (`Quiet`), so
that a visit may pass over them (`ModulationInv`). A voice without any periodic group is
compared in what it publishes only: the firmware's clock stands still there. The work is in
one visit of the others. The host's ticks of the envelope are a recursive function
(`Ticking`), and each round of the firmware's loop is some of them: a wait counted down
at once (`WaitRun`), a ramp whose level depends on the tick it has reached and not on the
level before (`RampRun`), a sustain that lasts (`SustainRun`). So the loop is at one of the
host's voices after every round, with the ticks it still owes (`FoldStepTicks`), and every
round takes a tick at least, from which `ElapsedIsTicking`. The LFO leaves the envelope
alone (`OverTick`) and its phase after `k` ticks is a sum modulo `PhaseMod` (`OverLfo`), so
advancing it by all but the last tick, publishing and then advancing it once is what the
last of the host's ticks does (`FoldedIs`, `ReplayedIs`). After the release `LevelType` says
that a ramp towards zero does not rise, with C's division, which truncates.
`ModulationAssumption` asks that sustain levels are levels and that the scales are not
empty; stage lengths and the spacing of the visits may be any.

**Host player.** `HostAgrees` speaks of an idle scheduler, so by itself it says nothing
while commands are under way. `DeliveryOK`, the heart of `HostInv`, does: for each
voice, what is pending makes up for what the FPGA lacks (`VoiceFollows`: the newest
START, RELEASE or STOP that main asked for is still ahead or has arrived, and each
value is in its slot, in an update under way, in the START, or in the FPGA); nothing
pending contradicts what main wants unless something newer follows (`PendingFits`,
`SlotsFit`); and a START is newer than everything ahead of it for its voice
(`StartsNewest`). A write that failed may have reached the FPGA and is repeated: when a
transaction was applied, `DeliveryOK` holds with its commands gone (`DeliveredFollows`, one
command after the other) and also with all of them still ahead (`VoiceFollowsAgain`). `Gather` moves commands from the queue
and the slots to the transaction in the order in which they would be applied, so that
what is ahead does not change. `SilentAtExit` adds that main stops every voice before it
waits, and that nothing is queued after the wait. Nothing is asked of a program that
reports failure (`fatal`). `HostAssumption` asks for a voice, an update kind, distinct
kinds and a transaction that can hold a START.

**Policy, mirror and region bank.** `ModelInv` has a line for each voice and one for
each region. `StripFits`: policy, mirror and synthesizer have the same generation; a
voice the policy holds is in the mirror as active, with the values last computed in
all three, is released in all of them or in none, and is on the active list; one that is
silent is off and not on it. The synthesizer may have ended it already; then, in a render,
its generation is among the reports not yet taken, and no report there names one that
plays (`Reported`), so a report taken late never frees the slot's next note. The values
follow each source in the groups the source marks (`Follows`); what it feeds beyond
those is outside the statement. `MirrorFollows` does not mention the mirror and so is not inductive:
what a suppressed command left out is only known from what the mirror holds. `ListOK`
adds that no voice is listed twice, or a removal would leave it listed. `RegionFits`: a
voice that sounds finds its region as it was and, in the host, in an entry of the bank;
without the second part a claimed slot could be the one it points into. Eviction keeps
every entry in use (`EvictKeeps`, `AfterKeeps`), claimed slots are free ones
(`SlotsAreFree`, by counting them), and so a lookup moves no region under a voice
(`LookupHits`, `LookupMisses`). The layers of a note are a recursive function whose every
value fits (`LayersStart`). `ModelAssumption` asks for a voice, a slot, an entry and a key;
nothing is asked of the layers.

Induction over data: the library's induction theorems take a predicate as a
parameter, which the provers cannot instantiate. `CommonLemmas` has the same
principle for a set of numbers (`SetInduction`, by a least counterexample), which
they can, and from it what the proofs need about `FlattenSeq` and about recursive
functions on sequences. A loop over voices or layers is a recursive function on
`0 .. n`, its value after `k` rounds at `k`; `RunInExists` says that there is one, and that
it stays in the sets `V[k]` if the start is in `V[0]` and a round leads from each to the next.

Only model-checked:

- liveness, which is beyond the prover, and `ENABLED` with it: `EventuallyConsumed`,
  `BlockTimelineAdvances`, `CommitDrains`, `CommandsAndBlocksEnd`, `EverythingSent`,
  `PlaysWhenSteady`, `IngressDrains`, `HostExits`;
- the folds of `AssetCompiler` and `MidiFile` against their reference definitions: what
  a recursive definition computes for every input.

## Disagreements between code and documentation

Each has a run that ends in a counterexample:

1. `bridge_busy`. `spi_register_bridge.sv:662` rewinds `commit_index` when an
   0xa5 opcode is decoded, before the check at line 817 rejects the transaction
   because a commit is still draining. The words already taken are published
   again. `docs/design/transport/spi_command_stream.md:80` says such a
   transaction "is rejected as a whole". With commits that drain first
   (`rendering`), what reaches the FIFO ends at command boundaries.
2. `voice_reset`. CC121 (`msf2.c:2109`) resets a channel with its dirty revision and
   marks it dirty, which makes the revision 1. A control job that captured
   revision 1 and has passed the channel's voices then ends, finds the same
   revision and clears the mark (`msf2.c:2036`): the reset does not reach the
   voices until the next change. `docs/mcu/rp2040_firmware.md:190` says that a
   change during the job "remains dirty for the next job because its revision no
   longer matches the snapshot". `ControllersReachVoices`, checked by `voice_runtime`
   and proved, shows that this is the only way to lose a change: it excepts the
   channels that were reset under a job (`resets`) and stood at the revision the
   job remembered when it ended (`aba`), until their next change.
3. `voice_bend`. A bend (`msf2.c:1876`) and a bend range (`msf2.c:1855`) mark only the
   pitch of their channel, although a term of any of the three sums may read the
   wheel or its range (`msf2.c:828-840`, `870-909`). The job refreshes the pitch and
   clears the marks; a gain or filter with a wheel term keeps the old bend
   until something else marks it. `docs/mcu/rp2040_firmware.md:1030` says of
   pitch bend too that "affected voice gain, pitch, and filter families are marked
   dirty and calculated once during the next active-voice control update".
   `McuModel` of the harness marks a bend in the same way.
4. `capture_restart`. `i2s_capture_restart_hardware` (`i2s_capture.c:65-98`) restarts
   DMA at the base of the ring but sets the read and completed counts to a
   producer count that need not be a multiple of the ring; reads index the ring by
   the count, so frames from before the restart are sent and new ones are read
   late. The comment at line 72 says "All buffered data is deliberately discarded".

Met while reading, without a run:

- `docs/command_stream.md` places the COMPRESSOR fields of word 0 elsewhere than
  the command plane reads them (`payload_q[0][16:1]`).
- `docs/mcu/rp2040_firmware.md:602` has the monitor send FLUSH where the firmware
  performs a session reset.
- A failed operator panic leaves `usb_midi_panic_active` set
  (`mcu/main.c:328-345`).
- `docs/mcu/rp2040_firmware.md:1085` says that an impossible sequence or count
  "causes an immediate render-session reset"; `fpga_spi_transport.c:225` counts it
  as a failed attempt, and after the last one `synth_controller.c:572` marks the
  session offline without a reset.
- For a program without a preset the loader falls back to another one
  (`select_preset`) while the firmware counts an unmapped note; `FontIsPlayed` is
  about presets that exist.
- `McuModel` ignores CC38 for NRPNs, CC96 and CC97, and does not clamp the cents of
  the bend range, which `midi_policy.c` does; the firmware's CC121 also resets bank
  and program. `PoliciesAgree` is therefore about what a data-entry MSB writes.
- The loader refuses a note that has a ROM or a linked sample among its layers
  (`sf2_loader.cpp:1183-1188`), and `docs/memory_format.md:37` calls linked samples
  unsupported; the asset builder accepts the font and drops the type
  (`mcu_sf2_asset.cpp:446-455`), so the firmware plays the note.
- The host computes a periodic filter on every fourth tick
  (`mcu_sf2_asset_runtime.cpp:305-306`), the firmware on every visit of more than one
  tick (`msf2.c:1447-1452`), which at a period of 5 ms is every visit.
- A command frame the bridge refuses lights `spi_error` and is counted nowhere;
  `COMMAND_ERROR_COUNT`, which the monitor polls, counts malformed commands only.
  `docs/backlog/spi_transport.md:150` leaves a counter of rejected transactions open.
- After a SysEx without its F7 the host's byte decoder takes in nothing up to the next F7
  (`realtime_midi.cpp:41-44`); nothing calls its `reset()`.
- `McuModel` releases an exclusive class layer by layer, so a note whose layers
  share a class releases its own earlier layer; `msf2.c:1559` decodes all classes
  first.

## What is not modelled

- Arithmetic of the sound: interpolation, filters, effects, compressor, the
  conversion of units. `docs/fixed_point.md` and the C++ reference models cover
  it, and a model of it would be the code again.
- The output FIFO and the I2S transmitter: a fair consumer.
- The SD card protocol and DDR3 controller: a load is one action,
  `AssetLoaded`; the memory is an engine that answers in the end. The drain of
  outstanding reads during a session reset is a wait of any length.
- The register fabric and status registers beyond the epoch, the error counter and
  `PLATFORM_STATUS`: read-only views.
- Words of the command FIFO: a command is one element. The voice renderer's job
  ring and lanes: a set of jobs.
- RIFF chunks, MIDI file bytes, command lines, reports, WAV output, statistics,
  USB descriptors, the debug console: parsing and formatting without state that
  outlives a call.
- Effect models, cycle-accurate pipeline models and RTL test benches of the
  harness: signal arithmetic and test code.
- Board top levels, constraints, vendor IP: wiring.

## Plan

Done: the FPGA's completion path, command ingress, block pipeline and render
core; the firmware's session, voice table, command path, MIDI and audio capture;
the host player with its policies; parsers, asset compiler and reference voice.

Theorems: the completion log, the block pipeline, the render core with its
refinement, the completion session with its refinement, command ingress, the
command path, the MIDI ring, the capture, the reference voice, the stream decoder,
the channel policies, the compiled runtime, the modulation clock, the host player, the
policy model with its mirror and region bank, and the voice table with its control job.

Next, in this order:

1. `VoiceRuntime` composed with `CommandPath` and `RenderCore`'s slots, so that a lost
   frame meets the voice table.
2. `SessionDrain`: outstanding memory reads across a session reset
   (`fpga/common/rtl/voice_major_system.sv:366-415`).
3. The command FIFO at the word level; the renderer's job ring and sample window,
   replacing the engine set of `RenderCore`; the line reader and arbiter; the
   asset loader.
