---- MODULE QaPrograms ----
(***************************************************************************)
(* The programs of qa/ that run model sessions: the five experiment        *)
(* harnesses and the trigger battery.  They share no file, so a behaviour  *)
(* follows one of them and the other stays in an initial state.            *)
(***************************************************************************)
EXTENDS ExperimentRuns, TriggerBattery

VARIABLE tool     \* "experiment" or "battery"

QaInit ==
  /\ Init /\ BatteryInit
  /\ \/ tool = "experiment" /\ battery = (CHOOSE b \in Batteries : TRUE) /\ credential.environment
     \/ tool = "battery" /\ program = "matrix" /\ surface

QaNext ==
  /\ \/ tool = "experiment" /\ Next /\ UNCHANGED batteryVars
     \/ tool = "battery" /\ BatteryNext /\ UNCHANGED vars
  /\ UNCHANGED tool

QaSpec == QaInit /\ [][QaNext]_<<vars, batteryVars, tool>>
====
