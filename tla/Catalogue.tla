------------------------------ MODULE Catalogue ------------------------------
(***************************************************************************)
(* What callers of the dataset registry rely on: a catalogue with one      *)
(* entry per dataset, in which a call takes effect at one instant between  *)
(* its beginning and its end, once or not at all.  A caller that is told   *)
(* of an effect had it; one that is turned down had none, for a reason     *)
(* that held at an instant of the call; only one that was told of a        *)
(* time-out or an error does not know.  Marquez hears of a dataset from    *)
(* the call that entered it, once it has and before it is answered, or not *)
(* at all: whoever does not know of an effect does not know of that.       *)
(***************************************************************************)
CONSTANTS Calls, Sources, IdentityOf

VARIABLES
  entries,    (* the datasets: the source of each, the call that wrote the rest *)
  announced,  (* identities Marquez has heard of *)
  phase,      (* per call: idle, called, done (it has had its effect), over *)
  op, source, (* per call: what it asks for *)
  told,       (* per call: what its caller was told *)
  met         (* per call: the sets of sources there were so far *)

catalogueVars == <<entries, announced, phase, op, source, told, met>>

Entry == [source : Sources, text : Calls]
Present == {entry.source : entry \in entries}
Free(R, s) == \A x \in R : IdentityOf[x] # IdentityOf[s]

Init ==
  /\ entries = {} /\ announced = {}
  /\ phase = [c \in Calls |-> "idle"]
  /\ op \in [Calls -> {"create", "update", "delete"}]
  /\ source \in [Calls -> Sources]
  /\ told = [c \in Calls |-> "none"]
  /\ met = [c \in Calls |-> {}]

Underway(c) == phase[c] \in {"called", "done"}
Turn(c, from, to) == phase[c] = from /\ phase' = [phase EXCEPT ![c] = to]
Tell(c, answer) == told' = [told EXCEPT ![c] = IF @ = "none" THEN answer ELSE @]

Call(c) ==
  /\ Turn(c, "idle", "called")
  /\ met' = [met EXCEPT ![c] = {Present}]
  /\ UNCHANGED <<entries, announced, op, source, told>>

(* The instant at which the call takes effect; those under way see it. *)
TakeEffect(c) ==
  /\ Turn(c, "called", "done")
  /\ \/ /\ op[c] = "create" /\ Free(Present, source[c])
        /\ entries' = entries \cup {[source |-> source[c], text |-> c]}
     \/ \E entry \in entries :
          /\ entry.source = source[c]
          /\ \/ op[c] = "update" /\ entries' = (entries \ {entry}) \cup {[entry EXCEPT !.text = c]}
             \/ op[c] = "delete" /\ entries' = entries \ {entry}
  /\ met' = [d \in Calls |-> IF Underway(d) THEN met[d] \cup {Present'} ELSE met[d]]
  /\ UNCHANGED <<announced, op, source, told>>

Effect(c) ==
  CASE op[c] = "create" -> "created" [] op[c] = "update" -> "updated" [] op[c] = "delete" -> "deleted"

Hear(c) ==
  /\ phase[c] = "done" /\ op[c] = "create"
  /\ announced' = announced \cup {IdentityOf[source[c]]}
  /\ UNCHANGED <<entries, phase, op, source, told, met>>

Succeed(c) ==
  /\ Turn(c, "done", "over") /\ Tell(c, Effect(c))
  /\ UNCHANGED <<entries, announced, op, source, met>>

(* What may be a reason to turn a call for source s down, with R there. *)
Warrants(R, s, answer) ==
  \/ answer = "conflict" /\ s \in R
  \/ answer = "refused" /\ ~Free(R, s)
  \/ answer = "not found" /\ s \notin R

TurnDown(c) ==
  /\ Turn(c, "called", "over")
  /\ \E R \in met[c], answer \in {"conflict", "refused", "not found"} :
       Warrants(R, source[c], answer) /\ Tell(c, answer)
  /\ UNCHANGED <<entries, announced, op, source, met>>

(* The caller stops waiting; the call may go on. *)
GiveUp(c) ==
  /\ Underway(c) /\ told[c] = "none"
  /\ told' = [told EXCEPT ![c] = "timeout"]
  /\ UNCHANGED phase \/ Turn(c, "called", "over")
  /\ UNCHANGED <<entries, announced, op, source, met>>

(* The call ends, with its effect or without. *)
Break(c) ==
  /\ Underway(c)
  /\ Turn(c, phase[c], "over") /\ Tell(c, "error")
  /\ UNCHANGED <<entries, announced, op, source, met>>

Next ==
  \E c \in Calls :
    Call(c) \/ TakeEffect(c) \/ Hear(c) \/ Succeed(c) \/ TurnDown(c) \/ GiveUp(c) \/ Break(c)

Spec == Init /\ [][Next]_catalogueVars
=============================================================================
