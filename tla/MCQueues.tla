------------------------------ MODULE MCQueues ------------------------------
(***************************************************************************)
(* Instances of the four queues between two actors of the instrument: the  *)
(* MIDI packets from core 0 to core 1, the command frames from core 1 to   *)
(* the DMA interrupt, the captured frames from DMA to USB, and the FPGA's  *)
(* completion log.  They share no state the models keep, so a behaviour    *)
(* runs one of them, its side, and leaves the others in their initial      *)
(* state.                                                                  *)
(***************************************************************************)
EXTENDS CompletionLog, CommandPath, AudioCapture, MidiIngress

VARIABLE side

sideVars == <<vars, pathVars, captureVars, ingressVars, side>>

OnLog(A) == side = "log" /\ A /\ UNCHANGED <<pathVars, captureVars, ingressVars, side>>
OnPath(A) == side = "path" /\ A /\ UNCHANGED <<vars, captureVars, ingressVars, side>>
OnCapture(A) == side = "capture" /\ A /\ UNCHANGED <<vars, pathVars, ingressVars, side>>
OnIngress(A) == side = "ingress" /\ A /\ UNCHANGED <<vars, pathVars, captureVars, side>>

MCInit ==
  /\ Init /\ PathInit /\ CaptureInit /\ IngressInit
  /\ side \in {"log", "path", "capture", "ingress"}

MCNext ==
  \/ OnLog(Next)
  \/ OnPath(PathNext)
  \/ OnCapture(CaptureNext)
  \/ OnIngress(IngressNext)

(* The fairness of FairPathSpec, CaptureSpec and IngressSpec, each on its  *)
(* own side.                                                               *)
MCFairness ==
  /\ WF_sideVars(OnPath(FlushCommands)) /\ WF_sideVars(OnPath(Enqueue))
  /\ WF_sideVars(OnPath(DmaIrq)) /\ WF_sideVars(OnPath(ExchangeEnd))
  /\ WF_sideVars(OnCapture(Core0)) /\ WF_sideVars(OnCapture(Request))
  /\ WF_sideVars(OnCapture(Tick(Nominal)))
  /\ WF_sideVars(OnIngress(Core0Ingress)) /\ WF_sideVars(OnIngress(Core1Ingress))

MCSpec == MCInit /\ [][MCNext]_sideVars /\ MCFairness
=============================================================================
