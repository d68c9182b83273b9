--------------------------- MODULE ServingSystem ---------------------------
(***************************************************************************)
(* The prediction API (src/serving/app.py) over the two registries: it     *)
(* reads the definitions of the features through a cached copy of the      *)
(* feature registry (FeastCache) and serves the model that was champion    *)
(* when it was last loaded (ModelRegistry).  Its handlers are coroutines   *)
(* that never wait, so it answers one request at a time.                   *)
(***************************************************************************)
EXTENDS FeastCache, ModelRegistry

CONSTANTS
  Api,       (* the thread of the prediction API *)
  Workloads  (* bound: the sets of processes that may be running together *)

Others == Threads \ {Api}  (* the threads of a feature server *)
Processes == Writers \cup Refreshers \cup Actors

(* The copy is that of one process, the API or a feature server. *)
ASSUME ServingAssumption ==
  /\ Api \in Threads
  /\ Workloads \subseteq SUBSET Processes
  /\ \A w \in Workloads : Api \in w => w \cap (Others \cup {Timer}) = {}

VARIABLES
  active,     (* the processes that run; it never changes *)
  api,        (* what the API does *)
  caller,     (* what the model is being loaded for *)
  resolving,  (* the version that the alias was resolved to, or 0 *)
  loaded      (* the version in _model, or 0 *)

apiVars == <<api, caller, resolving, loaded>>
servingVars == <<feastVars, cacheVars, modelVars, active, apiVars>>

ServingInit ==
  /\ FeastInit /\ CacheInit /\ ModelInit
  /\ active \in Workloads
  /\ \A a \in Appliers \ active : repo[a] = CHOOSE any \in Repos : TRUE
  /\ api = "down" /\ caller = "start" /\ resolving = 0 /\ loaded = 0

ServingTypeOK ==
  /\ FeastTypeOK /\ CacheTypeOK /\ ModelTypeOK
  /\ active \in Workloads
  /\ api \in {"down", "starting", "load", "download", "up"}
  /\ caller \in {"start", "predict", "reload"}
  /\ resolving \in 0 .. newest
  /\ loaded \in 0 .. newest

-----------------------------------------------------------------------------
(* lifespan: the feature store, which reads the registry, then the model.  *)
StartApi ==
  /\ api = "down" /\ api' = "starting"
  /\ Goes(Api, "idle", "proto")
  /\ UNCHANGED <<feastVars, cache, expired, lock, lookup, part, found, closed, replaced, modelVars,
                 caller, resolving, loaded>>

StoreReady ==
  /\ api = "starting" /\ api' = "load" /\ caller' = "start"
  /\ Goes(Api, "look", "idle")
  /\ UNCHANGED <<feastVars, cache, expired, lock, lookup, part, found, closed, replaced, modelVars,
                 resolving, loaded>>

(* The end of the process, of its own or because FeatureStore() raised. *)
StopApi ==
  /\ api # "down" /\ api' = "down" /\ caller' = "start" /\ resolving' = 0 /\ loaded' = 0
  /\ Fault
  /\ pc' = [pc EXCEPT ![Api] = "idle"]
  /\ lookup' = [lookup EXCEPT ![Api] = "view"]
  /\ found' = [found EXCEPT ![Api] = None]
  /\ closed' = [closed EXCEPT ![Api] = TRUE]
  /\ replaced' = [replaced EXCEPT ![Api] = FALSE]
  /\ Unlock(Api) /\ Drop(Api)
  /\ UNCHANGED <<registry, online, sent, stage, repo, todo, left, runId, target, obj, seen, stale,
                 feastHistory, cache, expired, modelVars>>

(* _load_model: the alias is resolved and the version then downloaded. *)
Resolve ==
  /\ api = "load" /\ champion # 0
  /\ api' = "download" /\ resolving' = champion
  /\ UNCHANGED <<feastVars, cacheVars, modelVars, caller, loaded>>

Download ==
  /\ api = "download" /\ api' = "up"
  /\ loaded' = resolving /\ resolving' = 0
  /\ IF caller = "predict" THEN Goes(Api, "idle", "check") ELSE UNCHANGED pc
  /\ UNCHANGED <<feastVars, cache, expired, lock, lookup, part, found, closed, replaced, modelVars,
                 caller>>

FaultyLoadFails ==
  /\ \/ api = "load" /\ champion = 0 /\ UNCHANGED modelFaults
     \/ api \in {"load", "download"} /\ ModelFault
  /\ api' = "up" /\ resolving' = 0 /\ loaded' = 0
  /\ UNCHANGED <<feastVars, cacheVars, newest, champion, act, held, setter, overlaps, caller>>

(* Tolerated at the start; a prediction answers 503 and a reload 500.  The *)
(* model there was stays.                                                  *)
LoadFails ==
  /\ \/ api = "load" /\ champion = 0 /\ UNCHANGED modelFaults
     \/ api \in {"load", "download"} /\ ModelFault
  /\ api' = "up" /\ resolving' = 0
  /\ UNCHANGED <<feastVars, cacheVars, newest, champion, act, held, setter, overlaps, caller, loaded>>

(* A prediction loads the model if there is none, and looks up features. *)
Predict ==
  /\ api = "up" /\ pc[Api] = "idle"
  /\ \/ /\ loaded # 0 /\ Request(Api)
        /\ UNCHANGED <<api, caller>>
     \/ /\ loaded = 0 /\ api' = "load" /\ caller' = "predict"
        /\ UNCHANGED <<feastVars, cacheVars>>
  /\ UNCHANGED <<modelVars, resolving, loaded>>

Reload ==
  /\ api = "up" /\ pc[Api] = "idle"
  /\ api' = "load" /\ caller' = "reload"
  /\ UNCHANGED <<feastVars, cacheVars, modelVars, resolving, loaded>>

(* FeatureStore() and the requests go through the registry's copy. *)
UseFeatures ==
  /\ \/ api = "starting" /\ (ProtoEntities(Api) \/ ProtoViews(Api) \/ Install(Api))
     \/ api = "up" /\ (CheckCache(Api) \/ LookUp(Api) \/ Refresh(Api))
  /\ UNCHANGED <<modelVars, apiVars>>

ApiStep ==
  \/ StartApi \/ StoreReady \/ StopApi \/ Resolve \/ Download \/ LoadFails \/ Predict \/ Reload
  \/ UseFeatures

-----------------------------------------------------------------------------
FeastStep ==
  /\ \/ \E a \in Appliers \cap active : Apply(a)
     \/ \E m \in Materializers \cap active : Materialize(m)
  /\ RegistryChanges
  /\ UNCHANGED <<cache, expired, lock, pc, lookup, part, found, replaced, modelVars, active, apiVars>>

ModelStep ==
  /\ \E x \in Actors \cap active : ActorStep(x)
  /\ UNCHANGED <<feastVars, cacheVars, active, apiVars>>

FeatureServerStep(t) ==
  t \in active /\ Serve(t) /\ UNCHANGED <<modelVars, active, apiVars>>
TimerRuns == Timer \in active /\ TimerStep /\ UNCHANGED <<modelVars, active, apiVars>>
TimePasses ==
  active \cap Refreshers # {} /\ Expire /\ UNCHANGED <<modelVars, active, apiVars>>
ApiRuns == Api \in active /\ ApiStep /\ UNCHANGED active

ServingNext ==
  \/ FeastStep \/ ModelStep \/ TimerRuns \/ TimePasses \/ ApiRuns
  \/ \E t \in Others : FeatureServerStep(t)

ServingSpec == ServingInit /\ [][ServingNext]_servingVars

(* Time passes, the clients of a feature server go on asking, its threads  *)
(* run.                                                                    *)
FairServingSpec ==
  /\ ServingSpec /\ WF_servingVars(TimePasses)
  /\ \A t \in Others : WF_servingVars(FeatureServerStep(t))

-----------------------------------------------------------------------------
(* Properties.                                                              *)

(* When the registry does not change any more, the copy of a feature       *)
(* server comes to be what is stored, also after refreshes that failed and *)
(* when the timer has died: a thread that gives up frees the lock, and the *)
(* copy is expired until one succeeds (caching_registry.py:427-476).       *)
CopyCatchesUp ==
  active \cap Others # {} =>
    <>[](cache = [views |-> StoredViews, entities |-> StoredEntities])

(* The API never goes back from a model to an older one or to none while   *)
(* its process lives, whatever loads fail and however late a download      *)
(* ends, unless an operator or two overlapping registrations moved the     *)
(* alias back (app.py:61-68, :216-223; kfp_pipeline.py:702-708;            *)
(* 06-promote-model.yaml:48-65).                                           *)
ServedNeverGoesBack ==
  [][\/ loaded' >= loaded
     \/ api' = "down"
     \/ overlaps # {} \/ \E o \in Operators : act[o] # "idle"]_servingVars
=============================================================================
