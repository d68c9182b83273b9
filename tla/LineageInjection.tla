-------------------------- MODULE LineageInjection --------------------------
(***************************************************************************)
(* The mutating webhook (openshift/webhook/webhook-server/webhook.py) and  *)
(* the init container it injects (lineage-init-container/                  *)
(* register_lineage.py): a labelled pod registers its inputs and outputs   *)
(* with Marquez, START then COMPLETE, before its own containers start.     *)
(***************************************************************************)
EXTENDS Naturals

CONSTANTS
  Pods,            (* pods, by name; the run id is a function of the name *)
  MaxInjectFaults  (* bound: webhook calls and posts that fail, nodes that reboot *)

ASSUME InjectionAssumption == MaxInjectFaults \in Nat

VARIABLES
  phase,       (* per pod: how far it is *)
  labelled,    (* per pod: it has the label lineage-enabled: "true" *)
  patched,     (* per pod: the init container was added *)
  unasked,     (* history, per pod: admitted without an answer of the webhook *)
  registered,  (* <<pod, event type>> Marquez has *)
  injectFaults

injectionVars == <<phase, labelled, patched, unasked, registered, injectFaults>>

Events == {"START", "COMPLETE"}

InjectionTypeOK ==
  /\ phase \in [Pods -> {"new", "init", "started", "app"}]
  /\ labelled \in [Pods -> BOOLEAN]
  /\ patched \in [Pods -> BOOLEAN]
  /\ unasked \in [Pods -> BOOLEAN]
  /\ registered \subseteq Pods \X Events
  /\ injectFaults \in 0 .. MaxInjectFaults

InjectionInit ==
  /\ phase = [p \in Pods |-> "new"]
  /\ labelled \in [Pods -> BOOLEAN]
  /\ patched = [p \in Pods |-> FALSE]
  /\ unasked = [p \in Pods |-> FALSE]
  /\ registered = {}
  /\ injectFaults = 0

InjectFault == injectFaults < MaxInjectFaults /\ injectFaults' = injectFaults + 1

Enters(p, next) == phase' = [phase EXCEPT ![p] = next]

-----------------------------------------------------------------------------
(* mutate: only a pod with the label is patched. *)
Mutate(p) ==
  /\ phase[p] = "new"
  /\ patched' = [patched EXCEPT ![p] = labelled[p]]
  /\ Enters(p, IF labelled[p] THEN "init" ELSE "app")
  /\ UNCHANGED <<labelled, unasked, registered, injectFaults>>

(* An exception in the handler denies the pod; its owner creates it again. *)
MutateRaises(p) ==
  /\ phase[p] = "new"
  /\ InjectFault
  /\ UNCHANGED <<phase, labelled, patched, unasked, registered>>

(* failurePolicy Ignore: without an answer in 10 s the pod goes unpatched. *)
WebhookUnavailable(p) ==
  /\ phase[p] = "new"
  /\ InjectFault
  /\ unasked' = [unasked EXCEPT ![p] = TRUE]
  /\ Enters(p, "app")
  /\ UNCHANGED <<labelled, patched, registered>>

FaultyRegister(p, at, event, next) ==
  /\ phase[p] = at
  /\ \/ UNCHANGED injectFaults /\ registered' = registered \cup {<<p, event>>}
     \/ InjectFault /\ UNCHANGED registered
  /\ Enters(p, next)
  /\ UNCHANGED <<labelled, patched, unasked>>

(* A post that fails ends the container with status 1, and the kubelet     *)
(* starts it again from the beginning; the event may have been recorded.   *)
Register(p, at, event, next) ==
  /\ phase[p] = at
  /\ \/ /\ registered' = registered \cup {<<p, event>>}
        /\ Enters(p, next)
        /\ UNCHANGED injectFaults
     \/ /\ InjectFault
        /\ registered' \in {registered, registered \cup {<<p, event>>}}
        /\ Enters(p, "init")
  /\ UNCHANGED <<labelled, patched, unasked>>

EmitStart(p) == Register(p, "init", "START", "started")
EmitComplete(p) == Register(p, "started", "COMPLETE", "app")

(* The sandbox of the pod is lost: its init containers run again. *)
SandboxLost(p) ==
  /\ phase[p] \in {"started", "app"}
  /\ InjectFault
  /\ Enters(p, IF patched[p] THEN "init" ELSE "app")
  /\ UNCHANGED <<labelled, patched, unasked, registered>>

Inject(p) ==
  \/ Mutate(p) \/ MutateRaises(p) \/ WebhookUnavailable(p)
  \/ EmitStart(p) \/ EmitComplete(p) \/ SandboxLost(p)

-----------------------------------------------------------------------------
(* A labelled pod that runs its application has both its events in         *)
(* Marquez, or was admitted while the webhook gave no answer; and Marquez  *)
(* has no COMPLETE of a pod without its START, however often the container *)
(* is restarted.                                                           *)
PodsAreRegistered ==
  \A p \in Pods :
    /\ phase[p] = "app" /\ labelled[p] => unasked[p] \/ {p} \X Events \subseteq registered
    /\ <<p, "COMPLETE">> \in registered => <<p, "START">> \in registered
=============================================================================
