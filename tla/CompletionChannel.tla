------------------------- MODULE CompletionChannel -------------------------
(***************************************************************************)
(* What the completion transport promises the MCU, without sequence        *)
(* numbers, rings, frames or epochs.  A render session logs events.  The   *)
(* MCU holds a session at most once, and while it holds it consumes the    *)
(* logged events in order, each exactly once.  Giving the session up loses *)
(* what was consumed of it; a restart begins a session with nothing in it. *)
(***************************************************************************)
EXTENDS Naturals, Sequences

CONSTANT Event

VARIABLES
  logged,     \* events of the current session, in order
  consumed,   \* events the MCU has acted on
  lease       \* "free", "held" by the MCU, or "closed" for good

vars == <<logged, consumed, lease>>

Init ==
  /\ logged = << >>
  /\ consumed = << >>
  /\ lease = "free"

Log ==
  /\ \E e \in Event : logged' = Append(logged, e)
  /\ UNCHANGED <<consumed, lease>>

Open ==
  /\ lease = "free"
  /\ lease' = "held"
  /\ UNCHANGED <<logged, consumed>>

Consume ==
  /\ lease = "held"
  /\ \E n \in (Len(consumed) + 1)..Len(logged) :
       consumed' = SubSeq(logged, 1, n)
  /\ UNCHANGED <<logged, lease>>

Close ==
  /\ lease = "held"
  /\ lease' = "closed"
  /\ consumed' = << >>
  /\ UNCHANGED logged

Restart ==
  /\ logged' = << >>
  /\ consumed' = << >>
  /\ lease' = "free"

Next == Log \/ Open \/ Consume \/ Close \/ Restart

Spec == Init /\ [][Next]_vars
=============================================================================
