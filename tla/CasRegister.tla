---------------------------- MODULE CasRegister ----------------------------
(***************************************************************************)
(* What a memory file of session-memory promises to the sessions that      *)
(* share it: a register that is written by compare-and-swap.  A write is   *)
(* accepted only if the value it was drafted from is still the current     *)
(* one, so no accepted write is erased by a session that has not read it.  *)
(*                                                                         *)
(* A read returns the current value or "absent": it takes no lock, and it  *)
(* may run while a file is being replaced.                                 *)
(***************************************************************************)
EXTENDS Naturals

CONSTANTS Sessions, Absent   \* Absent is a number below every version

VARIABLES value,    \* the current version; versions grow
          token,    \* the version each session drafts from
          stage     \* of each session: "read", "drafted", "accepted" or "ended"

vars == <<value, token, stage>>

Init ==
    /\ value \in {Absent, Absent + 1}
    /\ token = [s \in Sessions |-> Absent]
    /\ stage = [s \in Sessions |-> "read"]

Read(s) ==
    /\ stage[s] = "read"
    /\ \E v \in {value, Absent} : token' = [token EXCEPT ![s] = v]
    /\ stage' = [stage EXCEPT ![s] = "drafted"]
    /\ UNCHANGED value

Accept(s) ==
    /\ stage[s] = "drafted" /\ token[s] = value
    /\ value' > value
    /\ stage' = [stage EXCEPT ![s] = "accepted"]
    /\ UNCHANGED token

\* Refused, saved or dead
End(s) ==
    /\ stage[s] # "ended"
    /\ stage' = [stage EXCEPT ![s] = "ended"]
    /\ UNCHANGED <<value, token>>

Next == \E s \in Sessions : Read(s) \/ Accept(s) \/ End(s)

Spec == Init /\ [][Next]_vars
=============================================================================
