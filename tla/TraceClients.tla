---------------------------- MODULE TraceClients ----------------------------
(***************************************************************************)
(* The clients of the collector: the live tracer and the two importers.     *)
(* The rows of one have no id in common with those of another, so a         *)
(* behaviour follows one client at a time.                                  *)
(***************************************************************************)
EXTENDS Tracer, SessionImport

VARIABLE client  \* "tracer" or "import"

ClientVars == <<tracerVars, importVars, client>>

ClientInit == TracerInit /\ ImportInit /\ client \in {"tracer", "import"}

ClientNext ==
    \/ client = "tracer" /\ TracerNext /\ UNCHANGED <<importVars, client>>
    \/ client = "import" /\ ImportNext /\ UNCHANGED <<tracerVars, client>>

ClientSpec == ClientInit /\ [][ClientNext]_ClientVars /\ Fairness
=============================================================================
