------------------------------ MODULE StepChain ------------------------------
(***************************************************************************)
(* What a reader of Marquez relies on about the runs of a pipeline: a step *)
(* begins when every step before it has completed, it ends once at most,   *)
(* and nothing is heard of a run after a step of it has failed.  An end    *)
(* that was sent and did not arrive is missing; of a beginning that did    *)
(* not arrive nothing is said.                                             *)
(***************************************************************************)
EXTENDS Naturals

CONSTANTS Runs, Steps

VARIABLES
  shown,   (* per run and step: the state Marquez shows *)
  missing  (* ends that were sent: <<run, step, type>> *)

chainVars == <<shown, missing>>

Init ==
  /\ shown = [r \in Runs |-> [s \in Steps |-> "NONE"]]
  /\ missing = {}

Completed(r, s) == shown[r][s] = "COMPLETED" \/ <<r, s, "COMPLETE">> \in missing

Open(r, s) ==
  /\ shown[r][s] \in {"NONE", "RUNNING"}
  /\ <<r, s, "COMPLETE">> \notin missing /\ <<r, s, "FAIL">> \notin missing

Reached(r, s) == Open(r, s) /\ \A t \in Steps : t < s => Completed(r, t)

Begin(r, s) ==
  /\ Reached(r, s) /\ shown[r][s] = "NONE"
  /\ shown' = [shown EXCEPT ![r][s] = "RUNNING"]
  /\ UNCHANGED missing

End(r, s, type, state) ==
  /\ Reached(r, s)
  /\ \/ shown' = [shown EXCEPT ![r][s] = state] /\ UNCHANGED missing
     \/ missing' = missing \cup {<<r, s, type>>} /\ UNCHANGED shown

Next ==
  \E r \in Runs, s \in Steps :
    Begin(r, s) \/ End(r, s, "COMPLETE", "COMPLETED") \/ End(r, s, "FAIL", "FAILED")

Spec == Init /\ [][Next]_chainVars
=============================================================================
