-------------------------- MODULE UntangleCommands --------------------------
(***************************************************************************)
(* The commands of untangle.py.  A scan writes nothing but the inventory,   *)
(* so a behaviour follows either the scan of a repository or the work on a  *)
(* plan.                                                                    *)
(***************************************************************************)
EXTENDS Untangle, UntangleScan

VARIABLE command  \* "scan" or "plan"

commandVars == <<vars, scanVars, command>>

\* The state of the other command stays in one of its initial states
CommandInit ==
    /\ Init /\ ScanInit
    /\ \/ command = "scan" /\ plan = Survey("pending")
       \/ command = "plan" /\ <<top.dir, top.date>> = CHOOSE s \in Directories \X Dates : TRUE

main ==
    /\ \/ command = "scan" /\ ScanNext /\ UNCHANGED vars
       \/ command = "plan" /\ Next /\ UNCHANGED scanVars
    /\ UNCHANGED command

CommandSpec == CommandInit /\ [][main]_commandVars
=============================================================================
