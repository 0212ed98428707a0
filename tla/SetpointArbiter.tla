-------------------------- MODULE SetpointArbiter --------------------------
(***************************************************************************)
(* What inverter_control/watchdog.py promises of the inverter's setpoint,  *)
(* with none of its timers, counters and episodes: at every moment exactly *)
(* one party owns the output, and a command is acknowledged only on behalf *)
(* of its owner, or in the step that makes it the owner.                   *)
(*                                                                         *)
(*   control   the loop regulates;                                         *)
(*   failsafe  the loop stalled: zero, then a restore hands back;          *)
(*   fallback  the grid meter is lost: -10 W, kept when handing back;      *)
(*   override  an operator's command, released without a write.            *)
(***************************************************************************)
EXTENDS Integers

CONSTANTS ControlValues, OverrideValues, Fallback, Zero

VARIABLES owner, output

Values == ControlValues \cup OverrideValues \cup {Fallback, Zero}
Owners == {"control", "failsafe", "fallback", "override"}

Acknowledged(writer, v) == output' = [by |-> writer, value |-> v]
Holds(writer, v)        == output = [by |-> writer, value |-> v]

TypeOK ==
  /\ owner \in Owners
  /\ output.value \in Values

Init ==
  /\ owner = "control"
  /\ output = [by |-> "none", value |-> Zero]

\* The loop regulates while it owns the output, and only then.
Regulate(v) ==
  /\ owner = "control"
  /\ Acknowledged("control", v)
  /\ UNCHANGED owner

\* The loop stalls.  The zero may have to be repeated until it is accepted.
Trip ==
  /\ owner \in {"control", "failsafe"}
  /\ owner' = "failsafe"
  /\ Acknowledged("failsafe", Zero) \/ UNCHANGED output

\* The loop is back: the zero, if it was ever accepted, gives way to an
\* accepted restore.
Restore(v) ==
  /\ owner = "failsafe"
  /\ owner' = "control"
  /\ IF Holds("failsafe", Zero) THEN Acknowledged("restore", v)
                                ELSE UNCHANGED output

\* The meter is lost, whether the loop runs or has stalled.
LoseMeter ==
  /\ owner \in {"control", "failsafe", "fallback"}
  /\ owner' = "fallback"
  /\ Acknowledged("fallback", Fallback) \/ UNCHANGED output

\* The meter is back: the accepted fallback stays until the loop regulates.
ResumeMeter ==
  /\ owner = "fallback"
  /\ owner' = "control"
  /\ Acknowledged("fallback", Fallback)

\* An operator takes over from anyone, by an accepted command.
TakeOver(v) ==
  /\ owner' = "override"
  /\ Acknowledged("override", v)

Release ==
  /\ owner = "override"
  /\ owner' = "control"
  /\ UNCHANGED output

Next ==
  \/ \E v \in ControlValues : Regulate(v)
  \/ Trip
  \/ \E v \in Values : Restore(v)
  \/ LoseMeter
  \/ ResumeMeter
  \/ \E v \in OverrideValues : TakeOver(v)
  \/ Release

Spec == Init /\ [][Next]_<<owner, output>>

=============================================================================
