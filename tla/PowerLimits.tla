----------------------------- MODULE PowerLimits -----------------------------
(* The limits of the setpoint, which an operator changes for now or for good:  *)
(* main.py's command, InverterController.set_power_limits and power_limits.py. *)
(*                                                                             *)
(* A change to be kept is saved first, then used; a save may fail, the process *)
(* may end in between, and the command line tool replaces the file of a        *)
(* controller it does not know of.                                             *)
EXTENDS Integers

CONSTANTS
  None,
  Absolute,   \* ABSOLUTE_LIMIT
  Restarts,   \* bound: restarts of the controller
  Installs    \* bound: uses of the command line tool

VARIABLES
  limitFile,  \* the saved limits: <<limits>>, or <<>> without a file
  limits,     \* power_limit_min and power_limit_max
  change,     \* the change under way
  kept,       \* history: the limits in force are those a restart should bring back
  replaced,   \* history: the tool replaced the file, and nothing replaced it since
  starts, tools   \* restarts and installs

limitVars == <<limitFile, limits, change, kept, replaced, starts, tools>>

Watts == -Absolute .. Absolute
Limits == [min : Watts, max : Watts]

TypeOK ==
  /\ limitFile \in {<<>>} \cup {<<l>> : l \in Limits} /\ limits \in Limits
  /\ change = None \/ change \in [limits : Limits, persist : BOOLEAN, saved : BOOLEAN]
  /\ kept \in BOOLEAN /\ replaced \in BOOLEAN /\ starts \in 0 .. Restarts /\ tools \in 0 .. Installs

\* load_power_limits: the file, else the configured pair
Loaded == IF limitFile = <<>> THEN [min |-> -Absolute, max |-> Absolute] ELSE limitFile[1]

Init ==
  /\ limitFile = <<>> /\ limits = Loaded /\ change = None /\ kept = TRUE /\ replaced = FALSE
  /\ starts = 0 /\ tools = 0

\* Mutant: the order is not checked.
FaultyOrdered(min, max) == TRUE

Ordered(min, max) == min <= max

Within(w) == IF w > Absolute THEN Absolute ELSE IF w < -Absolute THEN -Absolute ELSE w

\* _mqtt_safe_limits, set_power_limits: an end the command leaves out stays, an
\* unordered pair is refused, each end is brought into range.
Ask(low, high, persist) ==
  LET min == IF low = None THEN limits.min ELSE low
      max == IF high = None THEN limits.max ELSE high
  IN  /\ change = None /\ (low # None \/ high # None) /\ Ordered(min, max)
      /\ change' = [limits |-> [min |-> Within(min), max |-> Within(max)], persist |-> persist, saved |-> FALSE]
      /\ UNCHANGED <<limitFile, limits, kept, replaced, starts, tools>>

\* Mutant: a failed save does not stop the change.
FaultyUnsaved == [change EXCEPT !.saved = TRUE]

\* "A failed save leaves the active limits and calculator untouched."
Unsaved == None

\* write_power_limits
Save ==
  /\ change # None /\ change.persist /\ ~change.saved
  /\ \/ limitFile' = <<change.limits>> /\ change' = [change EXCEPT !.saved = TRUE] /\ replaced' = FALSE
     \/ change' = Unsaved /\ UNCHANGED <<limitFile, replaced>>
  /\ UNCHANGED <<limits, kept, starts, tools>>

Use ==
  /\ change # None /\ change.saved = change.persist
  /\ limits' = change.limits /\ kept' = change.persist /\ change' = None
  /\ UNCHANGED <<limitFile, replaced, starts, tools>>

\* The process ends anywhere and starts again.
Restart ==
  /\ starts < Restarts /\ starts' = starts + 1 /\ limits' = Loaded /\ change' = None
  /\ kept' = TRUE /\ replaced' = FALSE
  /\ UNCHANGED <<limitFile, tools>>

\* power_limits.py --install
Install(l) ==
  /\ tools < Installs /\ tools' = tools + 1 /\ l.min <= l.max /\ limitFile' = <<l>> /\ replaced' = TRUE
  /\ UNCHANGED <<limits, change, kept, starts>>

Next ==
  \/ \E low, high \in {None} \cup -Absolute - 1 .. Absolute + 1, persist \in BOOLEAN : Ask(low, high, persist)
  \/ Save \/ Use \/ Restart
  \/ \E l \in Limits : Install(l)

Spec == Init /\ [][Next]_limitVars

-----------------------------------------------------------------------------
\* "Atomically persist a complete pair, leaving the previous file on failure":
\* limits an operator changed for good are those a restart brings back, whatever
\* failed in between (unless the tool replaced the file meanwhile), and no sequence of changes of one end or of both leaves
\* the control loop, or the file, with an unordered pair.
LimitsSurvive ==
  /\ kept /\ ~replaced => limits = Loaded \/ (change # None /\ change.saved)
  /\ \A l \in {limits, Loaded} : l.min <= l.max
=============================================================================
