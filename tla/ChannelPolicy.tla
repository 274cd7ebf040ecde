---------------------------- MODULE ChannelPolicy ----------------------------
(***************************************************************************)
(* Bank, program, RPN and NRPN state of one MIDI channel, in the two       *)
(* policies the repository keeps equivalent by regression: the firmware's  *)
(* midi_policy.c and the host and harness policy McuModel                  *)
(* (render_support.cpp).  Both see the same controllers.  Which parameter  *)
(* a data entry reaches depends on the order in which CC98 to CC101        *)
(* selected it, what it writes on the two halves of the value.             *)
(*                                                                         *)
(* A data byte runs to DataMod - 1 in place of 127, so the 14-bit value    *)
(* and its centre shrink with it; the factor of each generator's span is   *)
(* left out.  Generators: one with a span, one without.                    *)
(***************************************************************************)
EXTENDS Integers

CONSTANTS
  DataMod,    \* 128
  CentsMax,   \* 99, the clamp of the bend range's cents
  MaxControls \* bound: controllers of a behaviour

ASSUME PolicyAssumption ==
  /\ DataMod \in Nat /\ DataMod % 2 = 0 /\ DataMod > 2
  /\ CentsMax \in 0 .. DataMod - 1

VARIABLES
  percussion,  \* whether this is channel 10
  fw,          \* midi_channel_policy
  fwParams,    \* what the firmware's runtime was told
  mcu,         \* the selection state of McuModel's ChannelState
  mcuParams,   \* the parameters of McuModel's ChannelState
  lastControl, \* the last controller: "msb" after CC6
  controlCount \* controllers so far

policyChannelVars == <<percussion, fw, fwParams, mcu, mcuParams, lastControl, controlCount>>

Null == DataMod - 1                       \* 127
Centre == (DataMod * DataMod) \div 2      \* 8192
PercussionBank == <<1, 0>>
Data == 0 .. DataMod - 1
Selectors == {0, 1, 2, Null}

(* reset_policy_channel; nrpnGen "none" is -1 *)
ResetSelection == [rpnMsb |-> Null, rpnLsb |-> Null, sf2 |-> FALSE, base |-> 0, gen |-> "none",
                   msb |-> 0, lsb |-> 0, nrpn |-> FALSE]
ResetParams == [bend |-> <<2, 0>>, fine |-> 0, coarse |-> 0, pan |-> 0]

Address(bank, program) == [sel |-> ResetSelection, bank |-> bank, program |-> program]
ResetBank == IF percussion THEN PercussionBank ELSE <<0, 0>>

PolicyInit ==
  /\ percussion \in BOOLEAN
  /\ fw = Address(ResetBank, 0) /\ mcu = ResetSelection
  /\ fwParams = ResetParams /\ mcuParams = ResetParams
  /\ lastControl = "none" /\ controlCount = 0

----------------------------------------------------------------------------
(* Selection: CC98 to CC101, the same in both policies *)

(* CC98 below 100 picks a generator above the base and clears it; 100 to   *)
(* 102 raise the base for the next one.                                    *)
SelectNrpnLsb(s, pick) ==
  [s EXCEPT !.gen = IF pick = "raise" THEN "none" ELSE IF s.base = 0 THEN pick ELSE "beyond",
            !.base = IF pick = "raise" THEN 100 ELSE 0,
            !.nrpn = TRUE]

SelectNrpnMsb(s, sf2) ==
  [s EXCEPT !.sf2 = sf2, !.nrpn = TRUE, !.gen = IF sf2 THEN @ ELSE "none"]

SelectRpn(s, half, value) ==
  IF half = "msb" THEN [s EXCEPT !.rpnMsb = value, !.nrpn = FALSE]
  ELSE [s EXCEPT !.rpnLsb = value, !.nrpn = FALSE]

(* The parameter a data entry reaches. *)
Selected(s) ==
  IF s.nrpn THEN (IF s.sf2 /\ s.gen = "pan" THEN "pan" ELSE "nothing")
  ELSE IF s.rpnMsb # 0 THEN "nothing"
  ELSE CASE s.rpnLsb = 0 -> "bend" [] s.rpnLsb = 1 -> "fine" [] s.rpnLsb = 2 -> "coarse"
         [] OTHER -> "nothing"

Offset(msb, lsb) == msb * DataMod + lsb - Centre

Clamped(cents) == IF cents > CentsMax THEN CentsMax ELSE cents

(* apply_data_entry *)
PolicyApplied(params, s, msb, bend) ==
  CASE Selected(s) = "bend" -> [params EXCEPT !.bend = bend]
    [] Selected(s) = "fine" -> [params EXCEPT !.fine = Offset(msb, s.lsb)]
    [] Selected(s) = "coarse" -> [params EXCEPT !.coarse = msb - DataMod \div 2]
    [] Selected(s) = "pan" -> [params EXCEPT !.pan = Offset(msb, s.lsb)]
    [] OTHER -> params

(* The firmware stores the half and always applies. *)
FirmwareEntry(s) ==
  /\ fw' = [fw EXCEPT !.sel = s]
  /\ fwParams' = PolicyApplied(fwParams, s, s.msb, <<s.msb, Clamped(s.lsb)>>)

McuEntry(s, msb) == PolicyApplied(mcuParams, s, msb, <<msb, s.lsb>>)

----------------------------------------------------------------------------
(* Controllers: midi_policy_control_change and McuModel::control_change *)

Controlled(control) ==
  /\ controlCount < MaxControls
  /\ controlCount' = controlCount + 1
  /\ lastControl' = control

Select(Pick(_)) ==
  /\ fw' = [fw EXCEPT !.sel = Pick(@)] /\ mcu' = Pick(mcu)
  /\ Controlled("select")
  /\ UNCHANGED <<percussion, fwParams, mcuParams>>

NrpnLsb(pick) == Select(LAMBDA s : SelectNrpnLsb(s, pick))
NrpnMsb(sf2) == Select(LAMBDA s : SelectNrpnMsb(s, sf2))
Rpn(half, value) == Select(LAMBDA s : SelectRpn(s, half, value))

(* Mutant of EntryMsb: the harness forgets the low half. *)
EntryMsbCoarse(value) ==
  /\ FirmwareEntry([fw.sel EXCEPT !.msb = value])
  /\ mcu' = [mcu EXCEPT !.msb = value]
  /\ mcuParams' = McuEntry([mcu EXCEPT !.lsb = 0], value)
  /\ Controlled("msb")
  /\ UNCHANGED percussion

(* CC6; cc[6] is what McuModel's selection keeps as msb. *)
EntryMsb(value) ==
  /\ FirmwareEntry([fw.sel EXCEPT !.msb = value])
  /\ mcu' = [mcu EXCEPT !.msb = value]
  /\ mcuParams' = McuEntry(mcu, value)
  /\ Controlled("msb")
  /\ UNCHANGED percussion

(* CC38; McuModel applies it to bend range and fine tuning only. *)
EntryLsb(value) ==
  LET m == [mcu EXCEPT !.lsb = value]
  IN /\ FirmwareEntry([fw.sel EXCEPT !.lsb = value])
     /\ mcu' = m
     /\ mcuParams' = IF ~m.nrpn /\ m.rpnMsb = 0 /\ m.rpnLsb \in {0, 1}
                     THEN McuEntry(m, m.msb) ELSE mcuParams
     /\ Controlled("lsb")
     /\ UNCHANGED percussion

(* CC96 and CC97, which McuModel has not. *)
EntryStep(step) ==
  LET msb == fw.sel.msb + step
  IN /\ FirmwareEntry([fw.sel EXCEPT !.msb = IF msb \in Data THEN msb ELSE @])
     /\ Controlled("step")
     /\ UNCHANGED <<percussion, mcu, mcuParams>>

(* CC0 and CC32: the percussion channel keeps its bank. *)
BankSelect(half, value) ==
  /\ fw' = IF percussion THEN fw ELSE [fw EXCEPT !.bank[half] = value]
  /\ Controlled("bank")
  /\ UNCHANGED <<percussion, fwParams, mcu, mcuParams>>

ProgramChange(value) ==
  /\ fw' = [fw EXCEPT !.program = value]
  /\ Controlled("program")
  /\ UNCHANGED <<percussion, fwParams, mcu, mcuParams>>

(* CC121; System Reset does the same to every channel of the firmware. *)
ResetAllControllers ==
  /\ fw' = Address(ResetBank, 0) /\ mcu' = ResetSelection
  /\ fwParams' = ResetParams /\ mcuParams' = ResetParams
  /\ Controlled("reset")
  /\ UNCHANGED percussion

PolicyNext ==
  \/ \E pick \in {"pan", "other", "raise"} : NrpnLsb(pick)
  \/ \E sf2 \in BOOLEAN : NrpnMsb(sf2)
  \/ \E half \in {"msb", "lsb"}, value \in Selectors : Rpn(half, value)
  \/ \E value \in Data : EntryMsb(value) \/ EntryLsb(value)
  \/ \E step \in {-1, 1} : EntryStep(step)
  \/ \E half \in 1 .. 2, value \in 0 .. 1 : BankSelect(half, value)
  \/ ProgramChange(1)
  \/ ResetAllControllers

PolicySpec == PolicyInit /\ [][PolicyNext]_policyChannelVars

(* However selections, halves and increments interleaved before it, a data *)
(* entry MSB leaves both policies with the same value of the parameter it  *)
(* reaches, cents beyond the firmware's clamp aside.  It says nothing of   *)
(* the parameters other messages changed since: an LSB under an NRPN and   *)
(* the increments do differ until the next MSB.                            *)
PoliciesAgree ==
  lastControl = "msb" =>
    LET p == Selected(fw.sel)
    IN /\ p = Selected(mcu)
       /\ p # "nothing" => \/ fwParams[p] = mcuParams[p]
                           \/ p = "bend" /\ fw.sel.lsb > CentsMax
=============================================================================
