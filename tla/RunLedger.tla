------------------------------ MODULE RunLedger ------------------------------
(***************************************************************************)
(* What the tracking-store wrapper promises to a reader of its lineage     *)
(* ("dual-write", tracking_store.py): MLflow's record of a run only grows, *)
(* the lineage record of the run is a sequence of events that is only      *)
(* appended to, and an event reports nothing MLflow has not recorded.      *)
(***************************************************************************)
EXTENDS Sequences

CONSTANTS Runs, Item

VARIABLES
  recorded,   (* per run: what MLflow holds *)
  reported    (* per run: the events the lineage backend received *)

Init ==
  /\ recorded = [r \in Runs |-> {}]
  /\ reported = [r \in Runs |-> <<>>]

Record(r, I) ==
  /\ recorded' = [recorded EXCEPT ![r] = @ \cup I]
  /\ UNCHANGED reported

Report(r, event) ==
  /\ event.items \subseteq recorded[r]
  /\ reported' = [reported EXCEPT ![r] = Append(@, event)]
  /\ UNCHANGED recorded

Event == [type : {"START", "COMPLETE", "FAIL"},
          items : SUBSET Item, owed : SUBSET Item]

Next ==
  \E r \in Runs :
    \/ \E I \in SUBSET Item : Record(r, I)
    \/ \E event \in Event : Report(r, event)

Spec == Init /\ [][Next]_<<recorded, reported>>
=============================================================================
