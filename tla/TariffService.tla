---------------------------- MODULE TariffService ----------------------------
(* tariff_service.py: the tariff an operator edits on a dashboard and expects  *)
(* to find again after a restart.                                              *)
(*                                                                             *)
(* The plan in force has a file that stands for it at the next start. The MQTT *)
(* thread serves one edit after the other; a save may fail, the process may    *)
(* end between the replacement of the file and the rest, and a command line    *)
(* tool replaces the file of a controller it does not know of. An edit names   *)
(* the plan it was shown, by a hash of its content, and may come late or again.*)
EXTENDS Naturals

CONSTANTS
  None,       \* the cleared plan; also "nothing"
  Plans,      \* the valid plans
  Edits,      \* bound: the request ids of the dashboards' edits
  Restarts,   \* bound: restarts of the controller
  Installs    \* bound: uses of the command line tool

VARIABLES
  setup,      \* the saved plan: <<plan>>, or <<>> without a file
  plan,       \* TariffService._plan
  status,     \* its status: request id and whether an error is reported
  sent,       \* the edits sent so far: the plan each was shown and the plan it wants
  job,        \* what the MQTT thread is at
  manual,     \* history: the tool replaced the file, and nothing replaced it since
  restarts, installs

tariffVars == <<setup, plan, status, sent, job, manual, restarts, installs>>

Plan == Plans \cup {None}
Steps == {"saving", "saved", "failed", "repeated"}

TypeOK ==
  /\ setup \in {<<>>} \cup {<<p>> : p \in Plan} /\ plan \in Plan
  /\ status \in [request : Edits \cup {None}, error : BOOLEAN]
  /\ sent \in [Edits -> {None} \cup [shown : Plan, plan : Plan]]
  /\ job = None \/ job \in [request : Edits, step : Steps]
  /\ manual \in BOOLEAN /\ restarts \in 0 .. Restarts /\ installs \in 0 .. Installs

\* The plan of the configured local file
Default == CHOOSE p \in Plans : TRUE

\* Mutant: a cleared plan counts as no plan.
FaultyLoaded == IF setup \in {<<>>, <<None>>} THEN Default ELSE setup[1]

\* load_tariff: the setup file, else the local one
Loaded == IF setup = <<>> THEN Default ELSE setup[1]

Init ==
  /\ setup \in {<<>>, <<None>>} /\ plan = Loaded /\ status = [request |-> None, error |-> FALSE]
  /\ sent = [e \in Edits |-> None] /\ job = None /\ manual = FALSE /\ restarts = 0 /\ installs = 0

\* A dashboard sends an edit of the plan it shows; the broker delivers it late or
\* more than once, so a late edit stands for an old view as well.
Send(e, p) ==
  /\ sent[e] = None /\ sent' = [sent EXCEPT ![e] = [shown |-> plan, plan |-> p]]
  /\ UNCHANGED <<setup, plan, status, job, manual, restarts, installs>>

\* Mutant: any well-formed edit is saved.
FaultyFate(edit) == {"saving"}

\* The comparison of the revisions: an edit of the plan in force is saved, one
\* that wants the plan in force needs no save, any other one is refused, and so
\* is what is not a valid command.
Fate(edit) ==
  {"failed"} \cup (IF edit.shown = plan THEN {"saving"} ELSE IF edit.plan = plan THEN {"repeated"} ELSE {})

\* apply
Apply(e) ==
  /\ job = None /\ sent[e] # None
  /\ \E step \in Fate(sent[e]) : job' = [request |-> e, step |-> step]
  /\ UNCHANGED <<setup, plan, status, sent, manual, restarts, installs>>

\* write_tariff: the old file stays until the new one is complete.
Save ==
  /\ job # None /\ job.step = "saving"
  /\ \/ setup' = <<sent[job.request].plan>> /\ job' = [job EXCEPT !.step = "saved"] /\ manual' = FALSE
     \/ job' = [job EXCEPT !.step = "failed"] /\ UNCHANGED <<setup, manual>>
  /\ UNCHANGED <<plan, status, sent, restarts, installs>>

\* Mutant: the acknowledgement does not wait for the file.
FaultyAnswerable == job # None

Answerable == job # None /\ job.step # "saving"

\* One coherent pair of plan and status; an error leaves the plan.
Acknowledge ==
  /\ Answerable /\ job' = None
  /\ plan' = IF job.step = "failed" THEN plan ELSE sent[job.request].plan
  /\ status' = [request |-> job.request, error |-> job.step = "failed"]
  /\ UNCHANGED <<setup, sent, manual, restarts, installs>>

\* The process ends anywhere and starts again.
Restart ==
  /\ restarts < Restarts /\ restarts' = restarts + 1 /\ job' = None /\ manual' = FALSE
  /\ plan' = Loaded /\ status' = [request |-> None, error |-> FALSE]
  /\ UNCHANGED <<setup, sent, installs>>

\* tariff.py --install
Install(p) ==
  /\ installs < Installs /\ installs' = installs + 1 /\ setup' = <<p>> /\ manual' = TRUE
  /\ UNCHANGED <<plan, status, sent, job, restarts>>

Next ==
  \/ \E e \in Edits : Apply(e) \/ \E p \in Plan : Send(e, p)
  \/ Save \/ Acknowledge \/ Restart
  \/ \E p \in Plan : Install(p)

Spec == Init /\ [][Next]_tariffVars

-----------------------------------------------------------------------------
(* Properties *)

\* "Validate and durably save before publishing a successful acknowledgement":
\* a plan in force, the cleared one too, is the one a restart brings back, unless
\* the tool replaced the file, which the controller reads at its next start.
PlanSurvives ==
  manual \/ plan = Loaded \/ (job # None /\ job.step = "saved")

\* "The controller tariff changed. Reload it before saving again.": the save of a
\* late, repeated or rival edit never replaces a plan its editor was not shown.
EditsMeetWhatWasShown ==
  [][setup' # setup /\ installs' = installs /\ ~manual => sent[job.request].shown = Loaded]_tariffVars
=============================================================================
