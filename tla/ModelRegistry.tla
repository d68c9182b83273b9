--------------------------- MODULE ModelRegistry ---------------------------
(***************************************************************************)
(* Versions of one model in the MLflow registry and the alias champion, as *)
(* the pipeline's registration step (pipeline/kfp_pipeline.py), the        *)
(* promotion job (openshift/jobs/06-promote-model.yaml) and the helpers of *)
(* training/registry.py change them: each call is a request of its own.    *)
(***************************************************************************)
EXTENDS Naturals

CONSTANTS
  Registrars,     (* registration steps, of different pipeline runs *)
  Promoters,      (* promotion jobs *)
  Operators,      (* callers of rollback_to_version and archive_version *)
  MaxModelFaults  (* bound: calls that raise *)

Actors == Registrars \cup Promoters \cup Operators

ASSUME ModelAssumption ==
  /\ Registrars \cap Promoters = {} /\ Operators \cap (Registrars \cup Promoters) = {}
  /\ MaxModelFaults \in Nat

VARIABLES
  newest,    (* versions are 1 .. newest *)
  champion,  (* the version with the alias champion, or 0 *)
  act,       (* per actor: what it does next *)
  held,      (* per actor: the version it registered, found or was asked for *)
  setter,    (* history: who set the alias last *)
  overlaps,  (* history: pairs of actors whose use of a version overlapped *)
  modelFaults

modelVars == <<newest, champion, act, held, setter, overlaps, modelFaults>>

ModelTypeOK ==
  /\ newest \in Nat
  /\ champion \in 0 .. newest
  /\ act \in [Actors -> {"idle", "promote", "registered", "look", "search", "set", "delete", "done"}]
  /\ held \in [Actors -> 0 .. newest]
  /\ setter \in Actors \cup {0}
  /\ overlaps \subseteq SUBSET Actors
  /\ modelFaults \in 0 .. MaxModelFaults

ModelInit ==
  /\ newest = 0 /\ champion = 0
  /\ act = [x \in Actors |-> IF x \in Promoters THEN "look" ELSE "idle"]
  /\ held = [x \in Actors |-> 0]
  /\ setter = 0
  /\ overlaps = {}
  /\ modelFaults = 0

-----------------------------------------------------------------------------
Steps(x, from, to) == act[x] = from /\ act' = [act EXCEPT ![x] = to]
Holds(x, v) == held' = [held EXCEPT ![x] = v]
ModelFault == modelFaults < MaxModelFaults /\ modelFaults' = modelFaults + 1

(* The alias is given to v, or the call raises; what raised with a time-   *)
(* out may have been done.  Those that hold a version to give it to, or    *)
(* have read which aliases to delete, are overlapped.                      *)
SetChampion(x, v, at, ok, raised) ==
  /\ \/ Steps(x, at, ok) /\ champion' = v /\ setter' = x /\ UNCHANGED modelFaults
     \/ /\ Steps(x, at, raised) /\ ModelFault
        /\ \/ champion' = v /\ setter' = x
           \/ UNCHANGED <<champion, setter>>
  /\ overlaps' = overlaps \cup
       {{x, y} : y \in {z \in Actors \ {x} : act[z] \in {"promote", "set", "delete"}}}

(* The version is promoted though creating it raised. *)
FaultyRegister(r) ==
  /\ \/ Steps(r, "idle", "done") /\ UNCHANGED <<newest, held, modelFaults>>
     \/ /\ Steps(r, "idle", "promote")
        /\ newest' = newest + 1 /\ Holds(r, newest + 1)
        /\ UNCHANGED modelFaults
     \/ Steps(r, "idle", "promote") /\ ModelFault /\ Holds(r, newest + 1) /\ UNCHANGED newest
  /\ UNCHANGED <<champion, setter, overlaps>>

(* A model below the threshold is not registered; an exception is          *)
(* swallowed, also when the version has been created.                      *)
Register(r) ==
  /\ \/ Steps(r, "idle", "done") /\ UNCHANGED <<newest, held, modelFaults>>
     \/ /\ Steps(r, "idle", "promote")
        /\ newest' = newest + 1 /\ Holds(r, newest + 1)
        /\ UNCHANGED modelFaults
     \/ /\ Steps(r, "idle", "done") /\ ModelFault
        /\ newest' = newest + 1 /\ UNCHANGED held
  /\ UNCHANGED <<champion, setter, overlaps>>

Promote(r) ==
  /\ SetChampion(r, held[r], "promote", "registered", "done")
  /\ UNCHANGED <<newest, held>>

(* The job: any exception of the look-up counts as "no champion". *)
LookForChampion(j) ==
  /\ \/ champion # 0 /\ Steps(j, "look", "done") /\ UNCHANGED modelFaults
     \/ champion = 0 /\ Steps(j, "look", "search") /\ UNCHANGED modelFaults
     \/ champion # 0 /\ Steps(j, "look", "search") /\ ModelFault
  /\ UNCHANGED <<newest, champion, held, setter, overlaps>>

FaultySearchLatest(j) ==
  /\ \/ newest = 0 /\ Steps(j, "search", "done") /\ UNCHANGED <<held, modelFaults>>
     \/ newest # 0 /\ Steps(j, "search", "set") /\ Holds(j, 1) /\ UNCHANGED modelFaults
     \/ Steps(j, "search", "look") /\ ModelFault /\ UNCHANGED held
  /\ UNCHANGED <<newest, champion, setter, overlaps>>

(* A job that raised is run again from its beginning. *)
SearchLatest(j) ==
  /\ \/ newest = 0 /\ Steps(j, "search", "done") /\ UNCHANGED <<held, modelFaults>>
     \/ newest # 0 /\ Steps(j, "search", "set") /\ Holds(j, newest) /\ UNCHANGED modelFaults
     \/ Steps(j, "search", "look") /\ ModelFault /\ UNCHANGED held
  /\ UNCHANGED <<newest, champion, setter, overlaps>>

SetLatest(j) ==
  /\ SetChampion(j, held[j], "set", "done", "look")
  /\ UNCHANGED <<newest, held>>

Rollback(o, v) ==
  /\ SetChampion(o, v, "idle", "done", "done") /\ Holds(o, v)
  /\ UNCHANGED newest

(* It deletes the alias without reading whose it is. *)
FaultyReadAliases(o, v) ==
  /\ Steps(o, "idle", "delete") /\ Holds(o, v)
  /\ UNCHANGED <<newest, champion, setter, overlaps, modelFaults>>

(* archive_version reads the aliases of a version and then deletes them by *)
(* name, whatever version they are of by now.                              *)
ReadAliases(o, v) ==
  /\ Steps(o, "idle", IF champion = v THEN "delete" ELSE "done") /\ Holds(o, v)
  /\ UNCHANGED <<newest, champion, setter, overlaps, modelFaults>>

(* A call that raises ends the archiving, with the alias deleted or not. *)
DeleteAlias(o) ==
  /\ Steps(o, "delete", "done")
  /\ \/ champion' = 0 /\ UNCHANGED modelFaults
     \/ champion' \in {0, champion} /\ ModelFault
  /\ UNCHANGED <<newest, held, setter, overlaps>>

ActorStep(x) ==
  \/ x \in Registrars /\ (Register(x) \/ Promote(x))
  \/ x \in Promoters /\ (LookForChampion(x) \/ SearchLatest(x) \/ SetLatest(x))
  \/ x \in Operators /\ (DeleteAlias(x) \/ \E v \in 1 .. newest : Rollback(x, v) \/ ReadAliases(x, v))

ModelNext == \E x \in Actors : ActorStep(x)

ModelSpec == ModelInit /\ [][ModelNext]_modelVars

-----------------------------------------------------------------------------
(* A version that was registered and promoted is not behind the champion   *)
(* set by another registration, or by the promotion job, unless the two    *)
(* overlapped: registering and setting the alias are two calls, and the    *)
(* job sets what it found some calls before (registry.py:16-42,            *)
(* kfp_pipeline.py:702-708, 06-promote-model.yaml:48-65).                  *)
UnracedChampionIsNewest ==
  champion # 0 /\ setter \notin Operators =>
    \A r \in Registrars :
      act[r] = "registered" => held[r] <= champion \/ {r, setter} \in overlaps

(* Archiving a version leaves a model without a champion only when it was  *)
(* the champion, or when the alias was moved between the two calls of      *)
(* archive_version, which deletes it by name (registry.py:88-90).          *)
ArchiveSparesOthers ==
  [][champion # 0 /\ champion' = 0 =>
       \E o \in Operators :
         act[o] = "delete" /\ (held[o] = champion \/ {o, setter} \in overlaps)]_modelVars
=============================================================================
