------------------------ MODULE ServingSystemProofs ------------------------
(***************************************************************************)
(* Proofs about the registries and the API together, for any processes,    *)
(* workloads, repositories and bounds on faults.                           *)
(***************************************************************************)
EXTENDS ServingSystem, FeastRegistryProofs

(* ModelRegistry.  Who has a version in hand that is to become champion. *)
Promotes(x) == act[x] \in {"promote", "set"}
Givers == Registrars \cup Promoters

ModelInv ==
  /\ ModelTypeOK
  /\ \A x \in Givers, r \in Registrars :
       Promotes(x) /\ act[r] = "registered" => held[r] <= held[x] \/ {r, x} \in overlaps
  /\ UnracedChampionIsNewest

(* No two registrations have overlapped and no operator has acted. *)
Quiet == overlaps = {} /\ \A o \in Operators : act[o] = "idle"

ServedInv ==
  /\ loaded \in Nat /\ resolving \in Nat
  /\ Quiet => /\ loaded <= champion /\ resolving <= champion
              /\ api = "download" => loaded <= resolving
              /\ \A x \in Givers : Promotes(x) => champion <= held[x]

(* FeastCache.  A snapshot has the entities of all its views. *)
HasEntities(snapshot) ==
  \A v \in Views : snapshot.views[v] # None => snapshot.views[v] \in snapshot.entities

(* The places of a refresher: where it has read nothing, and the others. *)
Quietly == {"idle", "check", "look", "proto", "proto again", "dead"}
Places == Quietly \cup {"proto views", "install"}

CopyInv ==
  /\ part \in [Refreshers -> Snapshot] /\ cache \in Snapshot
  /\ pc \in [Refreshers -> Places] /\ closed \in [Refreshers \cup {None} -> BOOLEAN]
  /\ lookup \in [Threads -> {"view", "entity"}] /\ found \in [Threads -> Entities \cup {None}]
  /\ replaced \in [Threads -> BOOLEAN]
  /\ closed[None] => HasEntities(cache)
  /\ \A r \in Refreshers :
       /\ pc[r] = "proto views" /\ closed[r] => RegistryIsClosed /\ part[r].entities = StoredEntities
       /\ pc[r] = "install" /\ closed[r] => HasEntities(part[r])
  /\ \A t \in Threads :
       lookup[t] = "entity" /\ ~replaced[t] =>
         found[t] # None /\ \E v \in Views : found[t] = cache.views[v]

-----------------------------------------------------------------------------
(* The model registry. *)

LEMMA ModelTypes ==
  ASSUME ModelTypeOK
  PROVE  /\ newest \in Nat /\ champion \in Nat /\ champion <= newest
         /\ DOMAIN act = Actors /\ DOMAIN held = Actors
         /\ act = [x \in Actors |-> act[x]] /\ held = [x \in Actors |-> held[x]]
         /\ \A x \in Actors : held[x] \in Nat /\ held[x] <= newest
BY DEF ModelTypeOK

LEMMA ActorsAre ==
  ASSUME ModelAssumption
  PROVE  /\ Givers \subseteq Actors /\ Operators \subseteq Actors /\ Registrars \subseteq Givers
         /\ Promoters \subseteq Givers /\ Givers \cap Operators = {} /\ Registrars \cap Promoters = {}
BY DEF ModelAssumption, Actors, Givers

LEMMA ModelInitInv ==
  ASSUME ModelAssumption, ModelInit
  PROVE  ModelInv
<1>1. ModelTypeOK
  BY DEF ModelAssumption, ModelInit, ModelTypeOK
<1>2. UnracedChampionIsNewest
  BY DEF ModelInit, UnracedChampionIsNewest
<1>3. \A x \in Givers : ~Promotes(x)
  BY ActorsAre DEF ModelInit, Promotes
<1> QED BY <1>1, <1>2, <1>3 DEF ModelInv

(* What x does to the others. *)
LEMMA ActorTypes ==
  ASSUME ModelAssumption, ModelTypeOK, NEW x \in Actors, ActorStep(x)
  PROVE  ModelTypeOK'
<1> USE ModelAssumption
<1>r. CASE x \in Registrars /\ (Register(x) \/ Promote(x))
  BY <1>r DEF ModelTypeOK, Register, Promote, SetChampion, Steps, Holds, ModelFault, ModelAssumption
<1>p. CASE x \in Promoters /\ (LookForChampion(x) \/ SearchLatest(x) \/ SetLatest(x))
  BY <1>p DEF ModelTypeOK, LookForChampion, SearchLatest, SetLatest, SetChampion, Steps, Holds,
     ModelFault, ModelAssumption
<1>d. CASE x \in Operators /\ DeleteAlias(x)
  BY <1>d DEF ModelTypeOK, DeleteAlias, Steps, Holds, ModelFault, ModelAssumption
<1>o. ASSUME NEW v \in 1 .. newest, Rollback(x, v) \/ ReadAliases(x, v)
      PROVE  ModelTypeOK'
  BY <1>o DEF ModelTypeOK, Rollback, ReadAliases, SetChampion, Steps, Holds, ModelFault, ModelAssumption
<1> QED BY <1>r, <1>p, <1>d, <1>o DEF ActorStep
LEMMA ModelInvKept ==
  ASSUME ModelAssumption, ModelInv, NEW x \in Actors, ActorStep(x)
  PROVE  ModelInv'
<1> USE ModelAssumption
<1>typed. ModelTypeOK /\ ModelTypeOK'
  BY ActorTypes DEF ModelInv
<1>actors. x \in Actors /\ Givers \subseteq Actors /\ Operators \subseteq Actors
  BY ActorsAre
<1> DEFINE Behind(r, v, y) == held[r] <= v \/ {r, y} \in overlaps
<1>J. \A y \in Givers, r \in Registrars : Promotes(y) /\ act[r] = "registered" => Behind(r, held[y], y)
  BY DEF ModelInv
<1>C. champion # 0 /\ setter \notin Operators =>
        \A r \in Registrars : act[r] = "registered" => Behind(r, champion, setter)
  BY DEF ModelInv, UnracedChampionIsNewest
<1>others. \A y \in Actors \ {x} : act'[y] = act[y] /\ held'[y] = held[y]
  BY <1>typed, ModelTypes DEF ActorStep, Register, Promote, LookForChampion, SearchLatest, SetLatest,
     Rollback, ReadAliases, DeleteAlias, SetChampion, Steps, Holds
<1>grows. overlaps \subseteq overlaps'
  BY DEF ActorStep, Register, Promote, LookForChampion, SearchLatest, SetLatest,
     Rollback, ReadAliases, DeleteAlias, SetChampion
<1>1. ASSUME x \in Registrars, Register(x)
      PROVE  ModelInv'
  <2>1. champion' = champion /\ setter' = setter /\ act'[x] \in {"done", "promote"}
        /\ (act'[x] = "promote" => held'[x] = newest + 1)
    BY <1>1, <1>typed, ModelTypes DEF Register, Steps, Holds
  <2>2. newest \in Nat /\ \A r \in Registrars : held[r] \in Nat /\ held[r] <= newest
    BY <1>typed, ModelTypes, ActorsAre
  <2>3. ASSUME NEW y \in Givers, NEW r \in Registrars, Promotes(y)', act'[r] = "registered"
        PROVE  held'[r] <= held'[y] \/ {r, y} \in overlaps'
    <3>1. r # x /\ act[r] = "registered" /\ held'[r] = held[r]
      BY <2>1, <2>3, <1>others, ActorsAre
    <3>2. CASE y = x
      BY <3>1, <3>2, <2>1, <2>2, <2>3 DEF Promotes
    <3>3. CASE y # x
      BY <3>1, <3>3, <2>3, <1>J, <1>others, <1>grows, ActorsAre DEF Promotes
    <3> QED BY <3>2, <3>3
  <2>4. UnracedChampionIsNewest'
    BY <2>1, <1>C, <1>others, <1>grows, ActorsAre DEF UnracedChampionIsNewest
  <2> QED BY <2>3, <2>4, <1>typed DEF ModelInv
<1>2. ASSUME NEW v \in Nat, NEW at \in {"promote", "set", "idle"}, NEW ok, NEW raised,
             SetChampion(x, v, at, ok, raised), ok \in {"registered", "done"}, raised \in {"look", "done"},
             \/ x \in Givers /\ at # "idle" /\ v = held[x] /\ held' = held
             \/ x \in Operators /\ ok = "done",
             ok = "registered" => x \in Registrars
      PROVE  ModelInv'
  <2>1. /\ act[x] = at /\ act'[x] \in {ok, raised}
        /\ \/ champion' = v /\ setter' = x
           \/ champion' = champion /\ setter' = setter /\ act'[x] = raised
    BY <1>2, <1>typed, ModelTypes DEF SetChampion, Steps
  <2>2. \A y \in Actors \ {x} : Promotes(y) => {x, y} \in overlaps'
    BY <1>2 DEF SetChampion, Promotes
  <2>3. ~Promotes(x)'
    BY <2>1, <1>2 DEF Promotes
  <2>4. \A r \in Registrars : act'[r] = "registered" /\ r # x => act[r] = "registered" /\ held'[r] = held[r]
    BY <1>others, ActorsAre
  <2>5. ASSUME NEW y \in Givers, NEW r \in Registrars, Promotes(y)', act'[r] = "registered"
        PROVE  held'[r] <= held'[y] \/ {r, y} \in overlaps'
    <3>1. y # x /\ Promotes(y) /\ held'[y] = held[y]
      BY <2>3, <2>5, <1>others, ActorsAre DEF Promotes
    <3>2. CASE r = x
      BY <3>1, <3>2, <2>2, ActorsAre
    <3>3. CASE r # x
      BY <3>1, <3>3, <2>4, <2>5, <1>J, <1>grows
    <3> QED BY <3>2, <3>3
  <2>6. UnracedChampionIsNewest'
    <3>1. SUFFICES ASSUME champion' # 0, setter' \notin Operators, NEW r \in Registrars,
                          act'[r] = "registered"
                   PROVE  held'[r] <= champion' \/ {r, setter'} \in overlaps'
      BY DEF UnracedChampionIsNewest
    <3>2. CASE champion' = v /\ setter' = x
      <4>1. x \in Givers /\ v = held[x] /\ held' = held /\ Promotes(x)
        BY <3>1, <3>2, <2>1, <1>2 DEF Promotes
      <4>2. held[x] \in Nat
        BY <4>1, <1>2
      <4>3. CASE r = x
        BY <4>1, <4>2, <4>3, <3>2
      <4>4. CASE r # x
        BY <4>1, <4>4, <3>1, <3>2, <2>4, <1>J, <1>grows
      <4> QED BY <4>3, <4>4
    <3>3. CASE champion' = champion /\ setter' = setter /\ act'[x] = raised
      <4>1. r # x
        BY <3>1, <3>3, <1>2
      <4> QED BY <4>1, <3>1, <3>3, <2>4, <1>C, <1>grows
    <3> QED BY <2>1, <3>2, <3>3
  <2> QED BY <2>5, <2>6, <1>typed DEF ModelInv
<1>3. ASSUME x \in Registrars, Promote(x)
      PROVE  ModelInv'
  <2>1. SetChampion(x, held[x], "promote", "registered", "done") /\ held' = held /\ held[x] \in Nat
    BY <1>3, <1>typed, ModelTypes DEF Promote
  <2> QED BY <2>1, <1>2, <1>3, ActorsAre
<1>4. ASSUME x \in Promoters, SetLatest(x)
      PROVE  ModelInv'
  <2>1. SetChampion(x, held[x], "set", "done", "look") /\ held' = held /\ held[x] \in Nat
    BY <1>4, <1>typed, ModelTypes DEF SetLatest
  <2> QED BY <2>1, <1>2, <1>4, ActorsAre
<1>5. ASSUME x \in Operators, NEW v \in 1 .. newest, Rollback(x, v)
      PROVE  ModelInv'
  <2>1. SetChampion(x, v, "idle", "done", "done") /\ v \in Nat
    BY <1>5, <1>typed, ModelTypes DEF Rollback
  <2> QED BY <2>1, <1>2, <1>5
<1>6. ASSUME x \in Promoters, LookForChampion(x) \/ SearchLatest(x)
      PROVE  ModelInv'
  <2>1. champion' = champion /\ setter' = setter /\ newest' = newest /\ x \notin Registrars /\ x \in Givers
    BY <1>6, ActorsAre DEF LookForChampion, SearchLatest
  <2>2. act'[x] \in {"done", "search", "look", "set"} /\ (act'[x] = "set" => held'[x] = newest)
    BY <1>6, <1>typed, ModelTypes DEF LookForChampion, SearchLatest, Steps, Holds
  <2>3. \A r \in Registrars : held'[r] = held[r] /\ act'[r] = act[r] /\ held[r] \in Nat /\ held[r] <= newest
    BY <2>1, <1>others, <1>typed, ModelTypes, ActorsAre
  <2>4. ASSUME NEW y \in Givers, NEW r \in Registrars, Promotes(y)', act'[r] = "registered"
        PROVE  held'[r] <= held'[y] \/ {r, y} \in overlaps'
    <3>1. CASE y = x
      BY <3>1, <2>2, <2>3, <2>4 DEF Promotes
    <3>2. CASE y # x
      BY <3>2, <2>3, <2>4, <1>J, <1>others, <1>grows, ActorsAre DEF Promotes
    <3> QED BY <3>1, <3>2
  <2>5. UnracedChampionIsNewest'
    BY <2>1, <2>3, <1>C, <1>grows DEF UnracedChampionIsNewest
  <2> QED BY <2>4, <2>5, <1>typed DEF ModelInv
<1>7. ASSUME x \in Operators, DeleteAlias(x) \/ \E v \in 1 .. newest : ReadAliases(x, v)
      PROVE  ModelInv'
  <2>1. x \notin Givers /\ setter' = setter /\ (champion' = champion \/ champion' = 0)
    BY <1>7, ActorsAre DEF DeleteAlias, ReadAliases
  <2>2. \A y \in Givers : held'[y] = held[y] /\ act'[y] = act[y]
    BY <2>1, <1>others, ActorsAre
  <2>3. \A y \in Givers, r \in Registrars : Promotes(y)' /\ act'[r] = "registered" =>
          held'[r] <= held'[y] \/ {r, y} \in overlaps'
    BY <2>2, <1>J, <1>grows, ActorsAre DEF Promotes
  <2>4. UnracedChampionIsNewest'
    BY <2>1, <2>2, <1>C, <1>grows, ActorsAre DEF UnracedChampionIsNewest
  <2> QED BY <2>3, <2>4, <1>typed DEF ModelInv
<1> QED BY <1>1, <1>3, <1>4, <1>5, <1>6, <1>7 DEF ActorStep
(* Until two registrations overlap or an operator acts, the alias only     *)
(* moves on, and never beyond what is about to be given it.                *)
LEMMA QuietChampion ==
  ASSUME ModelAssumption, ModelInv, NEW x \in Actors, ActorStep(x), Quiet',
         Quiet => \A y \in Givers : Promotes(y) => champion <= held[y]
  PROVE  /\ Quiet /\ champion <= champion'
         /\ \A y \in Givers : Promotes(y)' => champion' <= held'[y]
<1> USE ModelAssumption
<1>typed. ModelTypeOK /\ ModelTypeOK'
  BY ActorTypes DEF ModelInv
<1>nat. /\ newest \in Nat /\ champion \in Nat /\ champion <= newest /\ champion' \in Nat
        /\ \A y \in Actors : held[y] \in Nat
  BY <1>typed, ModelTypes DEF ModelTypeOK
<1>others. \A y \in Actors \ {x} : act'[y] = act[y] /\ held'[y] = held[y]
  BY <1>typed, ModelTypes DEF ActorStep, Register, Promote, LookForChampion, SearchLatest, SetLatest,
     Rollback, ReadAliases, DeleteAlias, SetChampion, Steps, Holds
<1>grows. overlaps \subseteq overlaps'
  BY DEF ActorStep, Register, Promote, LookForChampion, SearchLatest, SetLatest,
     Rollback, ReadAliases, DeleteAlias, SetChampion
<1>x. x \notin Operators
  <2>1. CASE x \in Operators
    <3>1. act'[x] \in {"done", "delete"}
      BY <2>1, <1>typed, ModelTypes, ActorsAre DEF ActorStep, DeleteAlias, Rollback, ReadAliases,
         SetChampion, Steps, Givers
    <3> QED BY <2>1, <3>1 DEF Quiet
  <2> QED BY <2>1
<1>quiet. Quiet
  <2>1. overlaps = {}
    BY <1>grows DEF Quiet
  <2>2. \A o \in Operators : act[o] = act'[o]
    BY <1>x, <1>others, ActorsAre
  <2> QED BY <2>1, <2>2 DEF Quiet
<1>ahead. \A y \in Givers : Promotes(y) => champion <= held[y]
  BY <1>quiet
<1>1. ASSUME NEW at \in {"promote", "set"}, NEW ok \in {"registered", "done"}, NEW raised \in {"look", "done"},
             SetChampion(x, held[x], at, ok, raised), held' = held, x \in Givers
      PROVE  /\ champion <= champion'
             /\ \A y \in Givers : Promotes(y)' => champion' <= held'[y]
  <2>1. act[x] = at /\ ~Promotes(x)' /\ (champion' = held[x] \/ champion' = champion)
    BY <1>1, <1>typed, ModelTypes, ActorsAre DEF SetChampion, Steps, Promotes
  <2>2. champion <= champion'
    BY <2>1, <1>1, <1>ahead, <1>nat DEF Promotes
  <2>3. ASSUME NEW y \in Actors \ {x}
        PROVE  ~Promotes(y)
    <3>1. Promotes(y) => {x, y} \in overlaps'
      BY <1>1 DEF SetChampion, Promotes
    <3>2. overlaps' = {}
      BY DEF Quiet
    <3> QED BY <3>1, <3>2
  <2>4. \A y \in Givers : ~Promotes(y)'
    BY <2>1, <2>3, <1>others, ActorsAre DEF Promotes
  <2> QED BY <2>2, <2>4
<1>2. CASE x \in Registrars /\ Register(x)
  <2>1. champion' = champion /\ (act'[x] = "done" \/ held'[x] = newest + 1)
    BY <1>2, <1>typed, ModelTypes DEF Register, Steps, Holds
  <2> QED BY <2>1, <1>ahead, <1>others, <1>nat, <1>quiet, ActorsAre DEF Promotes
<1>3. CASE x \in Registrars /\ Promote(x)
  <2>1. SetChampion(x, held[x], "promote", "registered", "done") /\ held' = held
    BY <1>3 DEF Promote
  <2> QED BY <2>1, <1>1, <1>3, <1>quiet, ActorsAre
<1>4. CASE x \in Promoters /\ SetLatest(x)
  <2>1. SetChampion(x, held[x], "set", "done", "look") /\ held' = held
    BY <1>4 DEF SetLatest
  <2> QED BY <2>1, <1>1, <1>4, <1>quiet, ActorsAre
<1>5. CASE x \in Promoters /\ (LookForChampion(x) \/ SearchLatest(x))
  <2>1. champion' = champion /\ (act'[x] \in {"done", "search", "look"} \/ held'[x] = newest)
    BY <1>5, <1>typed, ModelTypes, ActorsAre DEF LookForChampion, SearchLatest, Steps, Holds
  <2> QED BY <2>1, <1>ahead, <1>others, <1>nat, <1>quiet, ActorsAre DEF Promotes
<1> QED BY <1>2, <1>3, <1>4, <1>5, <1>x DEF ActorStep

-----------------------------------------------------------------------------
(* The prediction API. *)

(* A step of the API on the model: the alias and its actors stay. *)
LEMMA ApiKeepsModel ==
  ASSUME ApiStep
  PROVE  /\ newest' = newest /\ champion' = champion /\ act' = act /\ held' = held
         /\ setter' = setter /\ overlaps' = overlaps
BY DEF ApiStep, StartApi, StoreReady, StopApi, Resolve, Download, LoadFails, Predict, Reload,
   UseFeatures, modelVars, ModelFault

LEMMA ApiServes ==
  ASSUME ModelInv, ServedInv, ApiStep
  PROVE  ServedInv' /\ (Quiet => loaded' >= loaded \/ api' = "down")
<1>model. /\ champion' = champion /\ act' = act /\ held' = held /\ overlaps' = overlaps
  BY ApiKeepsModel
<1>nat. champion \in Nat /\ loaded \in Nat /\ resolving \in Nat
  BY ModelTypes DEF ModelInv, ServedInv
<1>quiet. (Quiet' <=> Quiet) /\ \A x \in Givers : Promotes(x)' <=> Promotes(x)
  BY <1>model DEF Quiet, Promotes
<1> DEFINE Moves == /\ loaded' \in Nat /\ resolving' \in Nat
                    /\ Quiet => /\ loaded' <= champion /\ resolving' <= champion
                                /\ api' = "download" => loaded' <= resolving'
                                /\ loaded' >= loaded \/ api' = "down"
<1>1. CASE StopApi
  <2>1. Moves
    BY <1>1, <1>nat DEF StopApi
  <2> QED BY <2>1, <1>model, <1>quiet DEF ServedInv
<1>2. CASE Resolve \/ Download \/ LoadFails
  <2>1. Moves
    BY <1>2, <1>nat DEF ServedInv, Resolve, Download, LoadFails
  <2> QED BY <2>1, <1>model, <1>quiet DEF ServedInv
<1>3. CASE StartApi \/ StoreReady \/ Predict \/ Reload \/ UseFeatures
  <2>1. loaded' = loaded /\ resolving' = resolving /\ (api' = api \/ api' # "download")
    BY <1>3 DEF StartApi, StoreReady, Predict, Reload, UseFeatures, apiVars
  <2>2. Moves
    BY <2>1, <1>nat DEF ServedInv
  <2> QED BY <2>2, <1>model, <1>quiet DEF ServedInv
<1> QED BY <1>1, <1>2, <1>3 DEF ApiStep

LEMMA ModelServes ==
  ASSUME ModelAssumption, ModelInv, ServedInv, ModelStep
  PROVE  ModelInv' /\ ServedInv' /\ loaded' = loaded
<1> USE ModelAssumption
<1>1. PICK x \in Actors : ActorStep(x)
  BY DEF ModelStep
<1>2. ModelInv'
  BY <1>1, ModelInvKept
<1>3. loaded' = loaded /\ resolving' = resolving /\ api' = api
  BY DEF ModelStep, apiVars
<1>4. champion \in Nat /\ champion' \in Nat /\ loaded \in Nat /\ resolving \in Nat
  BY <1>2, ModelTypes DEF ModelInv, ModelTypeOK, ServedInv
<1>5. ASSUME Quiet'
      PROVE  /\ Quiet /\ champion <= champion'
             /\ \A y \in Givers : Promotes(y)' => champion' <= held'[y]
  BY <1>1, <1>5, QuietChampion DEF ServedInv
<1> QED BY <1>2, <1>3, <1>4, <1>5 DEF ServedInv

(* All other steps leave the model's versions and the API's model alone. *)
LEMMA OthersServe ==
  ASSUME ModelInv, ServedInv, UNCHANGED <<modelVars, apiVars>>
  PROVE  ModelInv' /\ ServedInv' /\ loaded' = loaded
<1>1. /\ newest' = newest /\ champion' = champion /\ act' = act /\ held' = held
      /\ setter' = setter /\ overlaps' = overlaps /\ modelFaults' = modelFaults
      /\ api' = api /\ loaded' = loaded /\ resolving' = resolving
  BY DEF modelVars, apiVars
<1>2. ModelInv'
  BY <1>1 DEF ModelInv, ModelTypeOK, UnracedChampionIsNewest, Promotes
<1>3. ServedInv'
  BY <1>1 DEF ServedInv, Quiet, Promotes
<1> QED BY <1>1, <1>2, <1>3

LEMMA ApiKeepsModelInv ==
  ASSUME ModelAssumption, ModelInv, ApiStep
  PROVE  ModelInv'
<1>1. modelFaults' \in 0 .. MaxModelFaults
  BY DEF ModelInv, ModelTypeOK, ModelAssumption, ApiStep, StartApi, StoreReady, StopApi, Resolve,
     Download, LoadFails, Predict, Reload, UseFeatures, modelVars, ModelFault
<1> QED BY <1>1, ApiKeepsModel DEF ModelInv, ModelTypeOK, UnracedChampionIsNewest, Promotes

(* Which variables a step that is not of the API or the model leaves. *)
LEMMA ElseUnchanged ==
  ASSUME \/ FeastStep \/ TimerRuns \/ TimePasses
         \/ \E t \in Others : FeatureServerStep(t)
         \/ UNCHANGED servingVars
  PROVE  UNCHANGED <<modelVars, apiVars>>
BY DEF FeastStep, TimerRuns, TimePasses, FeatureServerStep, servingVars

THEOREM ServedInvariant == ServingSpec => [](ModelInv /\ ServedInv)
<1> USE ServingAssumption, ModelAssumption
<1>1. ServingInit => ModelInv /\ ServedInv
  <2>1. SUFFICES ASSUME ServingInit
                 PROVE  ModelInv /\ ServedInv
    OBVIOUS
  <2>2. ModelInv
    BY <2>1, ModelInitInv DEF ServingInit
  <2>3. champion = 0 /\ \A x \in Givers : ~Promotes(x)
    BY <2>1, ActorsAre DEF ServingInit, ModelInit, Promotes
  <2> QED BY <2>1, <2>2, <2>3 DEF ServingInit, ServedInv
<1>2. ModelInv /\ ServedInv /\ [ServingNext]_servingVars => (ModelInv /\ ServedInv)'
  <2>1. SUFFICES ASSUME ModelInv, ServedInv, [ServingNext]_servingVars
                 PROVE  (ModelInv /\ ServedInv)'
    OBVIOUS
  <2>2. CASE ModelStep
    BY <2>1, <2>2, ModelServes
  <2>3. CASE ApiRuns
    BY <2>1, <2>3, ApiServes, ApiKeepsModelInv DEF ApiRuns
  <2>4. CASE ~ModelStep /\ ~ApiRuns
    BY <2>1, <2>4, ElseUnchanged, OthersServe DEF ServingNext
  <2> QED BY <2>2, <2>3, <2>4
<1> QED BY <1>1, <1>2, PTL DEF ServingSpec

(* A version that was registered and promoted is not behind the champion   *)
(* set by another registration or the promotion job, unless they overlapped. *)
THEOREM ChampionIsNewest == ServingSpec => []UnracedChampionIsNewest
<1>1. ModelInv => UnracedChampionIsNewest
  BY DEF ModelInv
<1> QED BY <1>1, ServedInvariant, PTL

(* The API goes back to an older model, or to none, only when it stops or  *)
(* when the alias was moved back by operators or overlapping registrations. *)
THEOREM ServedModelAdvances == ServingSpec => ServedNeverGoesBack
<1> USE ServingAssumption, ModelAssumption
<1> DEFINE Advances == \/ loaded' >= loaded
                       \/ api' = "down"
                       \/ overlaps # {} \/ \E o \in Operators : act[o] # "idle"
<1>1. ModelInv /\ ServedInv /\ [ServingNext]_servingVars => [Advances]_servingVars
  <2>1. SUFFICES ASSUME ModelInv, ServedInv, [ServingNext]_servingVars
                 PROVE  Advances
    OBVIOUS
  <2>2. loaded \in Nat
    BY <2>1 DEF ServedInv
  <2>3. CASE ModelStep
    BY <2>1, <2>2, <2>3, ModelServes
  <2>4. CASE ApiRuns
    BY <2>1, <2>4, ApiServes DEF ApiRuns, Quiet
  <2>5. CASE ~ModelStep /\ ~ApiRuns
    BY <2>1, <2>2, <2>5, ElseUnchanged, OthersServe DEF ServingNext
  <2> QED BY <2>3, <2>4, <2>5
<1> QED BY <1>1, ServedInvariant, PTL DEF ServingSpec, ServedNeverGoesBack
(* ModelRegistry.  The alias is given to versions that exist, and what an  *)
(* operator is about to delete is the alias of the version it was asked to *)
(* archive, unless it was overtaken.                                       *)
AliasInv ==
  /\ \A x \in Givers : Promotes(x) => held[x] # 0
  /\ \A o \in Operators :
       act[o] = "delete" => champion \in {0, held[o]} \/ {o, setter} \in overlaps

LEMMA AliasInvKept ==
  ASSUME ModelAssumption, ModelTypeOK, AliasInv, NEW x \in Actors, ActorStep(x)
  PROVE  /\ AliasInv'
         /\ champion # 0 /\ champion' = 0 =>
              \E o \in Operators :
                act[o] = "delete" /\ (held[o] = champion \/ {o, setter} \in overlaps)
<1> USE ModelAssumption
<1>others. \A y \in Actors \ {x} : act'[y] = act[y] /\ held'[y] = held[y]
  BY ModelTypes DEF ActorStep, Register, Promote, LookForChampion, SearchLatest, SetLatest,
     Rollback, ReadAliases, DeleteAlias, SetChampion, Steps, Holds
<1>givers. ASSUME x \in Givers => (Promotes(x)' => held'[x] # 0)
           PROVE  \A y \in Givers : Promotes(y)' => held'[y] # 0
  BY <1>givers, <1>others, ActorsAre DEF AliasInv, Promotes
<1>1. CASE x \in Operators /\ DeleteAlias(x)
  <2>1. act[x] = "delete" /\ champion' \in {0, champion} /\ UNCHANGED <<setter, overlaps>>
    BY <1>1 DEF DeleteAlias, Steps
  <2>2. act'[x] = "done" /\ overlaps' = overlaps /\ setter' = setter
    BY <1>1, <2>1, ModelTypes, ActorsAre DEF DeleteAlias, Steps
  <2>3. \A y \in Givers : Promotes(y)' => held'[y] # 0
    BY <1>1, <1>givers, ActorsAre
  <2>4. ASSUME NEW o \in Operators, act'[o] = "delete"
        PROVE  o # x /\ act[o] = "delete" /\ held'[o] = held[o]
    BY <2>2, <2>4, <1>others, ActorsAre
  <2>5. AliasInv'
    BY <2>1, <2>2, <2>3, <2>4 DEF AliasInv
  <2> QED BY <1>1, <2>1, <2>5 DEF AliasInv
<1>2. ASSUME NEW v \in 1 .. newest, x \in Operators, ReadAliases(x, v)
      PROVE  AliasInv' /\ champion' = champion
  <2>1. /\ UNCHANGED <<champion, setter, overlaps>> /\ held'[x] = v
        /\ act'[x] = IF champion = v THEN "delete" ELSE "done"
    BY <1>2, ModelTypes, ActorsAre DEF ReadAliases, Steps, Holds
  <2> QED BY <2>1, <1>2, <1>others, <1>givers, ActorsAre DEF AliasInv
<1>3. ASSUME NEW v, NEW at, NEW ok \in {"registered", "done"}, NEW raised \in {"look", "done"},
             SetChampion(x, v, at, ok, raised), v # 0
      PROVE  AliasInv' /\ champion' \in {champion, v}
  <2>1. /\ act'[x] \in {"registered", "done", "look"}
        /\ UNCHANGED <<champion, setter>> \/ (champion' = v /\ setter' = x)
    BY <1>3, ModelTypes DEF SetChampion, Steps
  <2>2. ASSUME NEW o \in Operators, act'[o] = "delete"
        PROVE  o # x /\ act[o] = "delete" /\ held'[o] = held[o]
    BY <2>1, <2>2, <1>others, ActorsAre
  <2>3. overlaps \subseteq overlaps' /\ \A o \in Operators \ {x} : act[o] = "delete" => {o, x} \in overlaps'
    <3>1. \A o \in Operators \ {x} : act[o] = "delete" => {x, o} \in overlaps'
      BY <1>3, ActorsAre DEF SetChampion
    <3>2. \A o : {x, o} = {o, x}
      OBVIOUS
    <3>3. overlaps \subseteq overlaps'
      BY <1>3 DEF SetChampion
    <3> QED BY <3>1, <3>2, <3>3
  <2>4. ~Promotes(x)'
    BY <2>1 DEF Promotes
  <2> QED BY <2>1, <2>2, <2>3, <2>4, <1>givers DEF AliasInv
<1>4. CASE \/ x \in Registrars /\ Register(x)
           \/ x \in Promoters /\ (LookForChampion(x) \/ SearchLatest(x))
  <2>1. UNCHANGED <<champion, setter, overlaps>> /\ x \notin Operators
    BY <1>4, ActorsAre DEF Register, LookForChampion, SearchLatest
  <2>2. Promotes(x)' => held'[x] # 0
    BY <1>4, ModelTypes DEF Register, LookForChampion, SearchLatest, Steps, Holds, Promotes
  <2> QED BY <2>1, <2>2, <1>others, <1>givers, ActorsAre DEF AliasInv
<1>5. CASE \/ x \in Registrars /\ Promote(x)
           \/ x \in Promoters /\ SetLatest(x)
           \/ x \in Operators /\ \E v \in 1 .. newest : Rollback(x, v)
  <2>1. CASE (x \in Registrars /\ Promote(x)) \/ (x \in Promoters /\ SetLatest(x))
    <3>1. x \in Givers /\ Promotes(x)
      BY <2>1, ActorsAre DEF Promote, SetLatest, SetChampion, Steps, Promotes
    <3>2. held[x] # 0
      BY <3>1 DEF AliasInv
    <3> QED BY <2>1, <3>2, <1>3 DEF Promote, SetLatest
  <2>2. ASSUME NEW v \in 1 .. newest, x \in Operators, Rollback(x, v)
        PROVE  AliasInv' /\ ~(champion # 0 /\ champion' = 0)
    <3>1. v # 0
      OBVIOUS
    <3> QED BY <2>2, <3>1, <1>3 DEF Rollback
  <2>3. CASE x \in Operators /\ \E v \in 1 .. newest : Rollback(x, v)
    BY <2>2, <2>3
  <2> QED BY <1>5, <2>1, <2>3
<1> QED BY <1>1, <1>2, <1>4, <1>5 DEF ActorStep

(* Archiving a version leaves a model without a champion only when it was  *)
(* the champion, or the alias was moved while archive_version ran.         *)
THEOREM ArchivingSparesOthers == ServingSpec => ArchiveSparesOthers
<1> USE ServingAssumption, ModelAssumption
<1> DEFINE Remain == champion # 0 /\ champion' = 0 =>
                       \E o \in Operators :
                         act[o] = "delete" /\ (held[o] = champion \/ {o, setter} \in overlaps)
<1>1. ServingInit => AliasInv
  BY ActorsAre DEF ServingInit, ModelInit, AliasInv, Promotes
<1>2. ModelInv /\ AliasInv /\ [ServingNext]_servingVars => AliasInv' /\ [Remain]_modelVars
  <2>1. SUFFICES ASSUME ModelInv, AliasInv, [ServingNext]_servingVars
                 PROVE  AliasInv' /\ Remain
    OBVIOUS
  <2>2. CASE ModelStep
    BY <2>1, <2>2, AliasInvKept DEF ModelStep, ModelInv
  <2>3. CASE ~ModelStep
    <3>1. UNCHANGED <<champion, act, held, setter, overlaps>>
      BY <2>1, <2>3, ApiKeepsModel, ElseUnchanged DEF ServingNext, ApiRuns, modelVars
    <3> QED BY <2>1, <3>1 DEF AliasInv, Promotes
  <2> QED BY <2>2, <2>3
<1> QED BY <1>1, <1>2, ServedInvariant, PTL DEF ServingSpec, ArchiveSparesOthers

-----------------------------------------------------------------------------
(* The cached copy of the feature registry. *)

LEMMA RefreshersAre ==
  ASSUME CacheAssumption, ServingAssumption
  PROVE  /\ Threads \subseteq Refreshers /\ Timer \in Refreshers /\ None \notin Refreshers
         /\ Timer \notin Threads /\ Api \in Threads
BY DEF CacheAssumption, ServingAssumption, Refreshers

LEMMA CopyInitInv ==
  ASSUME FeastAssumption, FeastInit, CacheInit
  PROVE  CopyInv
<1>1. StoredViews = [v \in Views |-> None] /\ StoredEntities = {}
  BY DEF FeastInit, StoredViews, StoredEntities, Exists, NoRow, Objects
<1>2. cache \in Snapshot /\ HasEntities(cache)
  BY <1>1 DEF CacheInit, Snapshot, HasEntities
<1>3. part \in [Refreshers -> Snapshot]
  BY DEF CacheInit, Snapshot, Nothing
<1>4. /\ pc = [r \in Refreshers |-> "idle"] /\ lookup = [t \in Threads |-> "view"]
      /\ found = [t \in Threads |-> None] /\ replaced = [t \in Threads |-> FALSE]
      /\ closed = [r \in Refreshers \cup {None} |-> TRUE]
  BY DEF CacheInit
<1>5. pc \in [Refreshers -> Places] /\ \A r \in Refreshers : pc[r] = "idle"
  BY <1>4 DEF Places, Quietly
<1>6. /\ lookup \in [Threads -> {"view", "entity"}] /\ found \in [Threads -> Entities \cup {None}]
      /\ replaced \in [Threads -> BOOLEAN] /\ closed \in [Refreshers \cup {None} -> BOOLEAN]
      /\ \A t \in Threads : lookup[t] = "view"
  BY <1>4
<1> QED BY <1>2, <1>3, <1>5, <1>6 DEF CopyInv

(* What is stored is a snapshot. *)
LEMMA StoredIsSnapshot ==
  ASSUME FeastTypeOK
  PROVE  StoredViews \in [Views -> Entities \cup {None}] /\ StoredEntities \in SUBSET Entities
BY FeastTypes DEF StoredViews, StoredEntities, Rows, Row, NoRow, Objects

(* A writer's step: those reading are told that the registry has changed.  *)
LEMMA WriterKeepsCopy ==
  ASSUME CacheAssumption, CopyInv, RegistryChanges,
         UNCHANGED <<cache, expired, lock, pc, lookup, part, found, replaced>>
  PROVE  CopyInv'
<1>1. closed' \in [Refreshers \cup {None} -> BOOLEAN] /\ closed'[None] = closed[None]
  BY DEF RegistryChanges, CopyInv, CacheAssumption
<1>2. \A r \in Refreshers : /\ closed'[r] => closed[r]
                            /\ closed'[r] /\ pc[r] = "proto views" => registry' = registry
  BY DEF RegistryChanges, CacheAssumption
<1>3. registry' = registry => RegistryIsClosed' = RegistryIsClosed /\ StoredEntities' = StoredEntities
  BY DEF RegistryIsClosed, StoredViews, StoredEntities, Exists
<1>4. ASSUME NEW r \in Refreshers
      PROVE  /\ pc'[r] = "proto views" /\ closed'[r] =>
                  RegistryIsClosed' /\ part'[r].entities = StoredEntities'
             /\ pc'[r] = "install" /\ closed'[r] => HasEntities(part'[r])
  <2>1. pc'[r] = pc[r] /\ part'[r] = part[r]
    OBVIOUS
  <2>2. ASSUME pc[r] = "proto views", closed'[r]
        PROVE  RegistryIsClosed' /\ part'[r].entities = StoredEntities'
    <3>1. closed[r] /\ registry' = registry
      BY <1>2, <2>2
    <3>2. RegistryIsClosed /\ part[r].entities = StoredEntities
      BY <2>2, <3>1 DEF CopyInv
    <3>3. RegistryIsClosed' /\ StoredEntities' = StoredEntities
      BY <3>1, <3>2, <1>3
    <3> QED BY <2>1, <3>2, <3>3
  <2>3. ASSUME pc[r] = "install", closed'[r]
        PROVE  HasEntities(part'[r])
    BY <1>2, <2>1, <2>3 DEF CopyInv
  <2> QED BY <2>1, <2>2, <2>3
<1>5. closed'[None] => HasEntities(cache')
  BY <1>1 DEF CopyInv
<1> QED BY <1>1, <1>4, <1>5 DEF CopyInv, HasEntities

(* The copy's refreshes and readers, when the registry stays. *)
LEMMA ProtoEntitiesKeepsCopy ==
  ASSUME CacheAssumption, FeastTypeOK, CopyInv, NEW r \in Refreshers, ProtoEntities(r)
  PROVE  CopyInv'
<1>1. /\ registry' = registry /\ cache' = cache /\ lookup' = lookup /\ found' = found
      /\ replaced' = replaced /\ pc[r] = "proto"
  BY DEF ProtoEntities, Goes, feastVars
<1>2. RegistryIsClosed' = RegistryIsClosed /\ StoredEntities' = StoredEntities
  BY <1>1 DEF RegistryIsClosed, StoredViews, StoredEntities, Exists
<1>3. /\ part' \in [Refreshers -> Snapshot] /\ part'[r].entities = StoredEntities
      /\ \A q \in Refreshers \ {r} : part'[q] = part[q]
  BY StoredIsSnapshot DEF ProtoEntities, CopyInv, Snapshot
<1>4. /\ closed' \in [Refreshers \cup {None} -> BOOLEAN] /\ closed'[r] = RegistryIsClosed
      /\ \A q \in (Refreshers \cup {None}) \ {r} : closed'[q] = closed[q]
  BY DEF ProtoEntities, CopyInv, RegistryIsClosed
<1>5. /\ pc' \in [Refreshers -> Places] /\ pc'[r] = "proto views"
      /\ \A q \in Refreshers \ {r} : pc'[q] = pc[q]
  BY DEF ProtoEntities, Goes, CopyInv, Places
<1>6. r # None
  BY DEF CacheAssumption
<1>7. ASSUME NEW q \in Refreshers
      PROVE  /\ pc'[q] = "proto views" /\ closed'[q] =>
                  RegistryIsClosed' /\ part'[q].entities = StoredEntities'
             /\ pc'[q] = "install" /\ closed'[q] => HasEntities(part'[q])
  BY <1>2, <1>3, <1>4, <1>5 DEF CopyInv
<1>8. closed'[None] => HasEntities(cache')
  BY <1>1, <1>4, <1>6 DEF CopyInv
<1> QED BY <1>1, <1>3, <1>4, <1>5, <1>7, <1>8 DEF CopyInv, HasEntities

LEMMA ProtoViewsKeepsCopy ==
  ASSUME CacheAssumption, FeastTypeOK, CopyInv, NEW r \in Refreshers, ProtoViews(r)
  PROVE  CopyInv'
<1>1. /\ registry' = registry /\ cache' = cache /\ lookup' = lookup /\ found' = found
      /\ replaced' = replaced /\ closed' = closed /\ pc[r] = "proto views"
  BY DEF ProtoViews, Goes, feastVars
<1>2. RegistryIsClosed' = RegistryIsClosed /\ StoredEntities' = StoredEntities
  BY <1>1 DEF RegistryIsClosed, StoredViews, StoredEntities, Exists
<1>3. /\ part' \in [Refreshers -> Snapshot] /\ part'[r].views = StoredViews
      /\ part'[r].entities = part[r].entities
      /\ \A q \in Refreshers \ {r} : part'[q] = part[q]
  BY StoredIsSnapshot DEF ProtoViews, CopyInv, Snapshot
<1>4. /\ pc' \in [Refreshers -> Places] /\ pc'[r] = "install"
      /\ \A q \in Refreshers \ {r} : pc'[q] = pc[q]
  BY DEF ProtoViews, Goes, CopyInv, Places
<1>5. closed[r] => HasEntities(part'[r])
  BY <1>1, <1>3 DEF CopyInv, RegistryIsClosed, HasEntities
<1>6. ASSUME NEW q \in Refreshers
      PROVE  /\ pc'[q] = "proto views" /\ closed'[q] =>
                  RegistryIsClosed' /\ part'[q].entities = StoredEntities'
             /\ pc'[q] = "install" /\ closed'[q] => HasEntities(part'[q])
  BY <1>1, <1>2, <1>3, <1>4, <1>5 DEF CopyInv
<1> QED BY <1>1, <1>3, <1>4, <1>6 DEF CopyInv, HasEntities

LEMMA InstallKeepsCopy ==
  ASSUME CacheAssumption, CopyInv, NEW r \in Refreshers, Install(r)
  PROVE  CopyInv'
<1>1. /\ registry' = registry /\ cache' = part[r] /\ lookup' = lookup /\ found' = found
      /\ pc[r] = "install" /\ replaced' = [t \in Threads |-> lookup[t] = "entity"]
  BY DEF Install, Goes, feastVars
<1>2. RegistryIsClosed' = RegistryIsClosed /\ StoredEntities' = StoredEntities
  BY <1>1 DEF RegistryIsClosed, StoredViews, StoredEntities, Exists
<1>3. /\ part' \in [Refreshers -> Snapshot]
      /\ \A q \in Refreshers \ {r} : part'[q] = part[q]
  BY DEF Install, Drop, CopyInv, Snapshot, Nothing
<1>4. /\ pc' \in [Refreshers -> Places] /\ pc'[r] \in {"proto again", "look"}
      /\ \A q \in Refreshers \ {r} : pc'[q] = pc[q]
  BY DEF Install, Goes, AfterRefresh, CopyInv, Places, Quietly
<1>5. /\ closed' \in [Refreshers \cup {None} -> BOOLEAN] /\ closed'[None] = closed[r]
      /\ \A q \in Refreshers \ {r} : closed'[q] = closed[q]
  BY DEF Install, CopyInv, CacheAssumption
<1>6. cache' \in Snapshot /\ (closed'[None] => HasEntities(cache'))
  BY <1>1, <1>5 DEF CopyInv
<1>7. ASSUME NEW q \in Refreshers
      PROVE  /\ pc'[q] = "proto views" /\ closed'[q] =>
                  RegistryIsClosed' /\ part'[q].entities = StoredEntities'
             /\ pc'[q] = "install" /\ closed'[q] => HasEntities(part'[q])
  BY <1>2, <1>3, <1>4, <1>5 DEF CopyInv
<1>8. \A t \in Threads : ~(lookup'[t] = "entity" /\ ~replaced'[t])
  BY <1>1
<1>9. replaced' \in [Threads -> BOOLEAN]
  BY <1>1
<1> QED BY <1>1, <1>3, <1>4, <1>5, <1>6, <1>7, <1>8, <1>9 DEF CopyInv, HasEntities

(* A step of r to a place where it has read nothing. *)
LEMMA IdleKeepsCopy ==
  ASSUME CacheAssumption, CopyInv, NEW r \in Refreshers,
         registry' = registry, cache' = cache,
         \E at \in Quietly : pc' = [pc EXCEPT ![r] = at],
         part' = part \/ Drop(r),
         closed' = closed \/ closed' = [closed EXCEPT ![r] = TRUE],
         lookup' \in [Threads -> {"view", "entity"}], found' \in [Threads -> Entities \cup {None}],
         replaced' \in [Threads -> BOOLEAN],
         \A t \in Threads : lookup'[t] = "entity" /\ ~replaced'[t] =>
            found'[t] # None /\ \E v \in Views : found'[t] = cache.views[v]
  PROVE  CopyInv'
<1>1. RegistryIsClosed' = RegistryIsClosed /\ StoredEntities' = StoredEntities
  BY DEF RegistryIsClosed, StoredViews, StoredEntities, Exists
<1>nothing. Nothing \in Snapshot
  BY DEF Nothing, Snapshot
<1>2. /\ part' \in [Refreshers -> Snapshot]
      /\ \A q \in Refreshers \ {r} : part'[q] = part[q]
  <2>1. part \in [Refreshers -> Snapshot]
    BY DEF CopyInv
  <2>2. CASE Drop(r)
    BY <1>nothing, <2>1, <2>2 DEF Drop
  <2> QED BY <2>1, <2>2
<1>3. /\ pc' \in [Refreshers -> Places] /\ pc'[r] \notin {"proto views", "install"}
      /\ \A q \in Refreshers \ {r} : pc'[q] = pc[q]
  <2>1. pc \in [Refreshers -> Places]
    BY DEF CopyInv
  <2>2. PICK at \in Quietly : pc' = [pc EXCEPT ![r] = at]
    OBVIOUS
  <2>3. at \in Places /\ at \notin {"proto views", "install"}
    BY DEF Quietly, Places
  <2> QED BY <2>1, <2>2, <2>3
<1>4. /\ closed' \in [Refreshers \cup {None} -> BOOLEAN] /\ closed'[None] = closed[None]
      /\ \A q \in Refreshers \ {r} : closed'[q] = closed[q]
  BY DEF CopyInv, CacheAssumption
<1>5. ASSUME NEW q \in Refreshers
      PROVE  /\ pc'[q] = "proto views" /\ closed'[q] =>
                  RegistryIsClosed' /\ part'[q].entities = StoredEntities'
             /\ pc'[q] = "install" /\ closed'[q] => HasEntities(part'[q])
  BY <1>1, <1>2, <1>3, <1>4 DEF CopyInv
<1>6. cache' \in Snapshot /\ (closed'[None] => HasEntities(cache'))
  BY <1>4 DEF CopyInv
<1>7. ASSUME NEW t \in Threads, lookup'[t] = "entity" /\ ~replaced'[t]
      PROVE  found'[t] # None /\ \E v \in Views : found'[t] = cache'.views[v]
  BY <1>7
<1> QED BY <1>2, <1>3, <1>4, <1>5, <1>6, <1>7 DEF CopyInv, HasEntities

(* What a thread or the timer does when it does not read the registry. *)
LEMMA RefreshKeepsCopy ==
  ASSUME CacheAssumption, FeastTypeOK, CopyInv, NEW r \in Refreshers, Refresh(r)
  PROVE  CopyInv'
<1>1. CASE RefreshFails(r)
  <2>1. \E at \in Quietly : pc' = [pc EXCEPT ![r] = at]
    BY <1>1 DEF RefreshFails, Goes, AfterRefresh, Quietly
  <2>2. /\ registry' = registry /\ cache' = cache /\ lookup' = lookup /\ found' = found
        /\ replaced' = replaced /\ Drop(r) /\ closed' = [closed EXCEPT ![r] = TRUE]
    BY <1>1 DEF RefreshFails
  <2>old. /\ lookup \in [Threads -> {"view", "entity"}] /\ found \in [Threads -> Entities \cup {None}]
          /\ replaced \in [Threads -> BOOLEAN]
          /\ \A u \in Threads : lookup[u] = "entity" /\ ~replaced[u] =>
               found[u] # None /\ \E v \in Views : found[u] = cache.views[v]
    BY DEF CopyInv
  <2> QED BY <2>1, <2>2, <2>old, IdleKeepsCopy
<1> QED BY <1>1, ProtoEntitiesKeepsCopy, ProtoViewsKeepsCopy, InstallKeepsCopy DEF Refresh

LEMMA ThreadKeepsCopy ==
  ASSUME CacheAssumption, CopyInv, NEW t \in Threads, Request(t) \/ CheckCache(t) \/ LookUp(t)
  PROVE  CopyInv'
<1>r. t \in Refreshers
  BY DEF Refreshers
<1>1. \E at \in Quietly : pc' = [pc EXCEPT ![t] = at]
  BY DEF Request, CheckCache, LookUp, LookupView, LookupEntity, Goes, Quietly
<1>2. registry' = registry /\ cache' = cache /\ part' = part /\ closed' = closed
  BY DEF Request, CheckCache, LookUp, LookupView, LookupEntity, feastVars
<1>old. /\ lookup \in [Threads -> {"view", "entity"}] /\ found \in [Threads -> Entities \cup {None}]
        /\ replaced \in [Threads -> BOOLEAN]
        /\ \A u \in Threads : lookup[u] = "entity" /\ ~replaced[u] =>
             found[u] # None /\ \E v \in Views : found[u] = cache.views[v]
  BY DEF CopyInv
<1>3. CASE lookup' = lookup /\ found' = found /\ replaced' = replaced
  BY <1>r, <1>1, <1>2, <1>3, <1>old, IdleKeepsCopy
<1>4. CASE LookupEntity(t)
  <2>1. /\ lookup' = [lookup EXCEPT ![t] = "view"] /\ found' = [found EXCEPT ![t] = None]
        /\ replaced' = [replaced EXCEPT ![t] = FALSE]
    BY <1>4 DEF LookupEntity
  <2>2. /\ lookup' \in [Threads -> {"view", "entity"}] /\ found' \in [Threads -> Entities \cup {None}]
        /\ replaced' \in [Threads -> BOOLEAN]
    BY <2>1, <1>old
  <2>3. ASSUME NEW u \in Threads, lookup'[u] = "entity" /\ ~replaced'[u]
        PROVE  found'[u] # None /\ \E v \in Views : found'[u] = cache.views[v]
    <3>1. u # t
      BY <2>1, <2>3, <1>old
    <3>2. lookup'[u] = lookup[u] /\ found'[u] = found[u] /\ replaced'[u] = replaced[u]
      BY <3>1, <2>1, <1>old
    <3> QED BY <2>3, <3>2, <1>old
  <2> QED BY <1>r, <1>1, <1>2, <2>2, <2>3, IdleKeepsCopy
<1>5. ASSUME NEW v \in Views, cache.views[v] # None,
             lookup' = [lookup EXCEPT ![t] = "entity"], found' = [found EXCEPT ![t] = cache.views[v]],
             replaced' = [replaced EXCEPT ![t] = FALSE]
      PROVE  CopyInv'
  <2>1. cache.views[v] \in Entities \cup {None}
    BY DEF CopyInv, Snapshot
  <2>2. /\ lookup' \in [Threads -> {"view", "entity"}] /\ found' \in [Threads -> Entities \cup {None}]
        /\ replaced' \in [Threads -> BOOLEAN] /\ found'[t] = cache.views[v]
    BY <2>1, <1>5, <1>old
  <2>3. ASSUME NEW u \in Threads, lookup'[u] = "entity" /\ ~replaced'[u]
        PROVE  found'[u] # None /\ \E w \in Views : found'[u] = cache.views[w]
    <3>1. CASE u = t
      BY <3>1, <2>2, <1>5
    <3>2. CASE u # t
      <4>1. lookup'[u] = lookup[u] /\ found'[u] = found[u] /\ replaced'[u] = replaced[u]
        BY <3>2, <1>5, <1>old
      <4> QED BY <4>1, <2>3, <1>old
    <3> QED BY <3>1, <3>2
  <2> QED BY <1>r, <1>1, <1>2, <2>2, <2>3, IdleKeepsCopy
<1> QED BY <1>3, <1>4, <1>5 DEF Request, CheckCache, LookUp, LookupView

(* The steps of the API that do not concern the copy. *)
LEMMA SameCopy ==
  ASSUME CopyInv, registry' = registry, UNCHANGED <<cache, pc, lookup, part, found, closed, replaced>>
  PROVE  CopyInv'
<1>1. RegistryIsClosed' = RegistryIsClosed /\ StoredEntities' = StoredEntities
  BY DEF RegistryIsClosed, StoredViews, StoredEntities, Exists
<1> QED BY <1>1 DEF CopyInv, HasEntities

LEMMA StopKeepsCopy ==
  ASSUME CacheAssumption, ServingAssumption, CopyInv, StopApi
  PROVE  CopyInv'
<1>1. Api \in Threads /\ Api \in Refreshers
  BY RefreshersAre
<1>2. /\ registry' = registry /\ cache' = cache /\ Drop(Api) /\ pc' = [pc EXCEPT ![Api] = "idle"]
      /\ closed' = [closed EXCEPT ![Api] = TRUE]
      /\ lookup' = [lookup EXCEPT ![Api] = "view"] /\ found' = [found EXCEPT ![Api] = None]
      /\ replaced' = [replaced EXCEPT ![Api] = FALSE]
  BY DEF StopApi
<1>old. /\ lookup \in [Threads -> {"view", "entity"}] /\ found \in [Threads -> Entities \cup {None}]
        /\ replaced \in [Threads -> BOOLEAN]
        /\ \A u \in Threads : lookup[u] = "entity" /\ ~replaced[u] =>
             found[u] # None /\ \E v \in Views : found[u] = cache.views[v]
  BY DEF CopyInv
<1>3. /\ lookup' \in [Threads -> {"view", "entity"}] /\ found' \in [Threads -> Entities \cup {None}]
      /\ replaced' \in [Threads -> BOOLEAN]
  BY <1>1, <1>2, <1>old
<1>4. ASSUME NEW u \in Threads, lookup'[u] = "entity" /\ ~replaced'[u]
      PROVE  found'[u] # None /\ \E v \in Views : found'[u] = cache.views[v]
  <2>1. u # Api
    BY <1>2, <1>4, <1>old
  <2>2. lookup'[u] = lookup[u] /\ found'[u] = found[u] /\ replaced'[u] = replaced[u]
    BY <2>1, <1>2, <1>old
  <2> QED BY <1>4, <2>2, <1>old
<1>5. \E at \in Quietly : pc' = [pc EXCEPT ![Api] = at]
  BY <1>2 DEF Quietly
<1> QED BY <1>1, <1>2, <1>3, <1>4, <1>5, IdleKeepsCopy

(* A thread's place moves, nothing that it has read. *)
LEMMA MoveKeepsCopy ==
  ASSUME CacheAssumption, CopyInv, NEW r \in Refreshers,
         \E at \in Quietly : pc' = [pc EXCEPT ![r] = at],
         registry' = registry, UNCHANGED <<cache, lookup, part, found, closed, replaced>>
  PROVE  CopyInv'
<1>old. /\ lookup \in [Threads -> {"view", "entity"}] /\ found \in [Threads -> Entities \cup {None}]
        /\ replaced \in [Threads -> BOOLEAN]
        /\ \A u \in Threads : lookup[u] = "entity" /\ ~replaced[u] =>
             found[u] # None /\ \E v \in Views : found[u] = cache.views[v]
  BY DEF CopyInv
<1> QED BY <1>old, IdleKeepsCopy

LEMMA ApiKeepsCopy ==
  ASSUME CacheAssumption, ServingAssumption, FeastTypeOK, CopyInv, ApiStep
  PROVE  CopyInv'
<1> USE CacheAssumption, ServingAssumption
<1>api. Api \in Threads /\ Api \in Refreshers
  BY RefreshersAre
<1>1. CASE StartApi \/ StoreReady
  <2>1. \E at \in Quietly : pc' = [pc EXCEPT ![Api] = at]
    BY <1>1 DEF StartApi, StoreReady, Goes, Quietly
  <2>2. registry' = registry /\ UNCHANGED <<cache, lookup, part, found, closed, replaced>>
    BY <1>1 DEF StartApi, StoreReady, feastVars
  <2> QED BY <2>1, <2>2, <1>api, MoveKeepsCopy
<1>2. CASE Resolve \/ LoadFails \/ Reload
  BY <1>2, SameCopy DEF Resolve, LoadFails, Reload, feastVars, cacheVars
<1>3. CASE Download
  <2>1. registry' = registry /\ UNCHANGED <<cache, lookup, part, found, closed, replaced>>
    BY <1>3 DEF Download, feastVars
  <2>2. CASE pc' = pc
    BY <2>1, <2>2, SameCopy
  <2>3. CASE pc' # pc
    <3>1. \E at \in Quietly : pc' = [pc EXCEPT ![Api] = at]
      BY <1>3, <2>3 DEF Download, Goes, Quietly
    <3> QED BY <3>1, <2>1, <1>api, MoveKeepsCopy
  <2> QED BY <2>2, <2>3
<1>4. CASE Predict
  <2>1. CASE Request(Api)
    BY <2>1, <1>api, ThreadKeepsCopy
  <2>2. CASE UNCHANGED <<feastVars, cacheVars>>
    BY <2>2, SameCopy DEF feastVars, cacheVars
  <2> QED BY <1>4, <2>1, <2>2 DEF Predict
<1>5. CASE UseFeatures
  BY <1>5, <1>api, ThreadKeepsCopy, RefreshKeepsCopy DEF UseFeatures, Refresh
<1> QED BY <1>1, <1>2, <1>3, <1>4, <1>5, StopKeepsCopy DEF ApiStep

LEMMA CopyInvKept ==
  ASSUME CacheAssumption, ServingAssumption, FeastTypeOK, CopyInv, [ServingNext]_servingVars
  PROVE  CopyInv'
<1> USE CacheAssumption, ServingAssumption
<1>1. CASE FeastStep
  BY <1>1, WriterKeepsCopy DEF FeastStep
<1>2. CASE ModelStep \/ UNCHANGED servingVars
  BY <1>2, SameCopy DEF ModelStep, servingVars, feastVars, cacheVars
<1>3. CASE TimePasses
  BY <1>3, SameCopy DEF TimePasses, Expire, feastVars
<1>4. CASE ApiRuns
  BY <1>4, ApiKeepsCopy DEF ApiRuns
<1>5. ASSUME NEW t \in Others, FeatureServerStep(t)
      PROVE  CopyInv'
  <2>1. t \in Threads /\ t \in Refreshers
    BY RefreshersAre DEF Others
  <2> QED BY <2>1, <1>5, ThreadKeepsCopy, RefreshKeepsCopy DEF FeatureServerStep, Serve
<1>6. CASE TimerRuns
  <2>1. Timer \in Refreshers
    BY RefreshersAre
  <2>2. CASE TimerFires \/ TimerAgain
    <3>1. \E at \in Quietly : pc' = [pc EXCEPT ![Timer] = at]
      BY <2>2 DEF TimerFires, TimerAgain, Goes, Quietly
    <3>2. registry' = registry /\ UNCHANGED <<cache, lookup, part, found, closed, replaced>>
      BY <2>2 DEF TimerFires, TimerAgain, feastVars
    <3> QED BY <3>1, <3>2, <2>1, MoveKeepsCopy
  <2> QED BY <1>6, <2>1, <2>2, RefreshKeepsCopy DEF TimerRuns, TimerStep
<1> QED BY <1>1, <1>2, <1>3, <1>4, <1>5, <1>6 DEF ServingNext

(* Besides the writers only a fault of a refresh or of the API touches what *)
(* FeastInv is about.                                                      *)
LEMMA FeastInvKept ==
  ASSUME FeastAssumption, FeastInv, [ServingNext]_servingVars
  PROVE  FeastInv'
<1> USE FeastAssumption
<1>1. CASE FeastStep
  BY <1>1, ApplyStep, MaterializeStep DEF FeastStep
<1>2. CASE UNCHANGED feastVars
  BY <1>2, StutterKeepsFeastInv
<1>3. ASSUME UNCHANGED <<registry, online, sent, stage, repo, todo, left, runId, target, obj, seen,
                         stale, feastHistory>>, Fault
      PROVE  FeastInv'
  BY <1>3, FaultKeepsFeastInv
<1>4. ASSUME NEW r, Refresh(r)
      PROVE  FeastInv'
  BY <1>2, <1>3, <1>4 DEF Refresh, ProtoEntities, ProtoViews, Install, RefreshFails
<1>5. CASE ModelStep \/ TimePasses \/ UNCHANGED servingVars
  BY <1>2, <1>5 DEF ModelStep, TimePasses, Expire, servingVars
<1>6. CASE TimerRuns
  <2>1. CASE TimerFires
    BY <2>1, <1>2 DEF TimerFires
  <2>2. CASE TimerAgain
    BY <2>2, <1>2, <1>3 DEF TimerAgain, feastVars, feastHistory
  <2> QED BY <2>1, <2>2, <1>4, <1>6 DEF TimerRuns, TimerStep
<1>7. ASSUME NEW t, Request(t) \/ CheckCache(t) \/ LookUp(t)
      PROVE  FeastInv'
  BY <1>2, <1>7 DEF Request, CheckCache, LookUp, LookupView, LookupEntity
<1>8. ASSUME NEW t \in Others, FeatureServerStep(t)
      PROVE  FeastInv'
  BY <1>4, <1>7, <1>8 DEF FeatureServerStep, Serve
<1>9. CASE ApiRuns
  <2>1. CASE StopApi
    BY <2>1, <1>3 DEF StopApi
  <2>2. CASE StartApi \/ StoreReady \/ Resolve \/ Download \/ LoadFails \/ Reload
    BY <2>2, <1>2 DEF StartApi, StoreReady, Resolve, Download, LoadFails, Reload
  <2>3. CASE Predict
    BY <2>3, <1>2, <1>7 DEF Predict
  <2>4. CASE UseFeatures
    BY <2>4, <1>4, <1>7 DEF UseFeatures, Refresh
  <2> QED BY <1>9, <2>1, <2>2, <2>3, <2>4 DEF ApiRuns, ApiStep
<1> QED BY <1>1, <1>5, <1>6, <1>8, <1>9 DEF ServingNext

THEOREM CopyInvariant == ServingSpec => [](FeastInv /\ CopyInv)
<1> USE FeastAssumption, CacheAssumption, ServingAssumption
<1>1. ServingInit => FeastInv /\ CopyInv
  BY FeastInitInv, CopyInitInv DEF ServingInit
<1>2. FeastInv /\ CopyInv /\ [ServingNext]_servingVars => (FeastInv /\ CopyInv)'
  BY FeastInvKept, CopyInvKept DEF FeastInv
<1> QED BY <1>1, <1>2, PTL DEF ServingSpec

(* An entity is missing only to a request that looked into two copies, or  *)
(* in a copy read while the registry changed or lacked it.                 *)
THEOREM EntitiesFound == ServingSpec => []EntitiesAreFound
<1>1. CopyInv => EntitiesAreFound
  <2>1. SUFFICES ASSUME CopyInv, NEW t \in Threads, lookup[t] = "entity",
                        found[t] \notin cache.entities, ~replaced[t], closed[None]
                 PROVE  FALSE
    BY DEF EntitiesAreFound
  <2>2. PICK v \in Views : found[t] # None /\ found[t] = cache.views[v]
    BY <2>1 DEF CopyInv
  <2>3. HasEntities(cache)
    BY <2>1 DEF CopyInv
  <2> QED BY <2>1, <2>2, <2>3 DEF HasEntities
<1> QED BY <1>1, CopyInvariant, PTL

(* With the readers and the API running, too, the rows are sequential,     *)
(* applies exact, recorded intervals online and ends not orphaned.         *)
THEOREM FeastHoldsWhenServed ==
  ServingSpec => [](/\ UnracedRowsAreSequential /\ RecordedIsOnline
                    /\ NoOrphanedEnd /\ UndisturbedApplyIsExact)
<1>1. FeastInv => /\ UnracedRowsAreSequential /\ RecordedIsOnline
                  /\ NoOrphanedEnd /\ UndisturbedApplyIsExact
  BY FeastInvImplies
<1> QED BY <1>1, CopyInvariant, PTL

-----------------------------------------------------------------------------
(* Type correctness.  The rest of the types: who holds the lock, and what  *)
(* the API does.                                                           *)
UseInv ==
  /\ expired \in BOOLEAN /\ lock \in Threads \cup {None}
  /\ active \in Workloads
  /\ api \in {"down", "starting", "load", "download", "up"}
  /\ caller \in {"start", "predict", "reload"}
  /\ resolving \in 0 .. newest /\ loaded \in 0 .. newest

(* The lock goes to a thread that finds it free, and from it to nobody. *)
LEMMA LockKept ==
  ASSUME CacheAssumption, ServingAssumption, UseInv, [ServingNext]_servingVars
  PROVE  expired' \in BOOLEAN /\ lock' \in Threads \cup {None}
<1> USE DEF UseInv
<1>1. ASSUME NEW r, Refresh(r)
      PROVE  expired' \in BOOLEAN /\ lock' \in Threads \cup {None}
  BY <1>1 DEF Refresh, ProtoEntities, ProtoViews, Install, RefreshFails, Unlock
<1>2. ASSUME NEW t \in Threads, Request(t) \/ CheckCache(t) \/ LookUp(t)
      PROVE  expired' \in BOOLEAN /\ lock' \in Threads \cup {None}
  BY <1>2 DEF Request, CheckCache, LookUp, LookupView, LookupEntity
<1>3. CASE FeastStep \/ ModelStep \/ UNCHANGED servingVars
  BY <1>3 DEF FeastStep, ModelStep, servingVars, cacheVars
<1>4. CASE TimerRuns
  BY <1>1, <1>4 DEF TimerRuns, TimerStep, TimerFires, TimerAgain
<1>5. CASE TimePasses
  BY <1>5 DEF TimePasses, Expire
<1>6. ASSUME NEW t \in Others, FeatureServerStep(t)
      PROVE  expired' \in BOOLEAN /\ lock' \in Threads \cup {None}
  <2>1. t \in Threads
    BY DEF Others
  <2> QED BY <1>1, <1>2, <1>6, <2>1 DEF FeatureServerStep, Serve
<1>7. CASE ApiRuns
  <2>1. Api \in Threads
    BY DEF ServingAssumption
  <2>2. CASE StopApi
    BY <2>2 DEF StopApi, Unlock
  <2>3. CASE StartApi \/ StoreReady \/ Resolve \/ Download \/ LoadFails \/ Reload
    BY <2>3 DEF StartApi, StoreReady, Resolve, Download, LoadFails, Reload, cacheVars
  <2>4. CASE Predict
    BY <1>2, <2>1, <2>4 DEF Predict, cacheVars
  <2>5. CASE UseFeatures
    BY <1>1, <1>2, <2>1, <2>5 DEF UseFeatures, Refresh
  <2> QED BY <1>7, <2>2, <2>3, <2>4, <2>5 DEF ApiRuns, ApiStep
<1> QED BY <1>3, <1>4, <1>5, <1>6, <1>7 DEF ServingNext

(* What the API has resolved and loaded are versions that there are. *)
LEMMA ApiUseKept ==
  ASSUME ModelTypeOK, UseInv, ApiStep
  PROVE  /\ api' \in {"down", "starting", "load", "download", "up"}
         /\ caller' \in {"start", "predict", "reload"}
         /\ resolving' \in 0 .. newest /\ loaded' \in 0 .. newest
<1>1. champion \in 0 .. newest /\ newest \in Nat
  BY DEF ModelTypeOK
<1>2. CASE StopApi \/ Resolve \/ Download \/ LoadFails
  BY <1>1, <1>2 DEF UseInv, StopApi, Resolve, Download, LoadFails
<1>3. CASE StartApi \/ StoreReady \/ Predict \/ Reload \/ UseFeatures
  BY <1>3 DEF UseInv, StartApi, StoreReady, Predict, Reload, UseFeatures, apiVars
<1> QED BY <1>2, <1>3 DEF ApiStep

(* Versions are only added. *)
LEMMA NewestGrows ==
  ASSUME ModelTypeOK, ModelStep
  PROVE  newest' \in Nat /\ newest' >= newest
BY DEF ModelTypeOK, ModelStep, ActorStep, Register, Promote, LookForChampion, SearchLatest, SetLatest,
   DeleteAlias, Rollback, ReadAliases

LEMMA UseInvKept ==
  ASSUME CacheAssumption, ServingAssumption, ModelTypeOK, UseInv, [ServingNext]_servingVars
  PROVE  UseInv'
<1>1. expired' \in BOOLEAN /\ lock' \in Threads \cup {None}
  BY LockKept
<1>2. active' = active
  BY DEF ServingNext, servingVars, FeastStep, ModelStep, TimerRuns, TimePasses, ApiRuns,
     FeatureServerStep
<1>3. CASE ModelStep
  <2>1. UNCHANGED <<api, caller, resolving, loaded>>
    BY <1>3 DEF ModelStep, apiVars
  <2> QED BY <1>1, <1>2, <1>3, <2>1, NewestGrows DEF UseInv, ModelTypeOK
<1>4. CASE ApiRuns
  BY <1>1, <1>2, <1>4, ApiUseKept, ApiKeepsModel DEF ApiRuns, UseInv
<1>5. CASE ~ModelStep /\ ~ApiRuns
  <2>1. UNCHANGED <<newest, api, caller, resolving, loaded>>
    BY <1>5, ElseUnchanged DEF ServingNext, modelVars, apiVars
  <2> QED BY <1>1, <1>2, <2>1 DEF UseInv
<1> QED BY <1>3, <1>4, <1>5

(* Every variable of the two registries, the copy and the API keeps to its *)
(* values: only a thread holds the lock of the copy, the alias, what actors *)
(* hold and what the API serves are versions that were created.            *)
THEOREM ServingTypeCorrect == ServingSpec => []ServingTypeOK
<1> USE FeastAssumption, CacheAssumption, ServingAssumption, ModelAssumption
<1>1. ServingInit => UseInv
  <2>1. SUFFICES ASSUME ServingInit
                 PROVE  UseInv
    OBVIOUS
  <2>2. expired \in BOOLEAN /\ lock = None
    BY <2>1, Zenon DEF ServingInit, CacheInit
  <2>3. newest = 0 /\ resolving = 0 /\ loaded = 0
    BY <2>1, Zenon DEF ServingInit, ModelInit
  <2>4. resolving \in 0 .. newest /\ loaded \in 0 .. newest
    BY <2>3
  <2>5. active \in Workloads /\ api = "down" /\ caller = "start"
    BY <2>1, Zenon DEF ServingInit
  <2> QED BY <2>2, <2>4, <2>5, Zenon DEF UseInv
<1>2. ModelInv /\ UseInv /\ [ServingNext]_servingVars => UseInv'
  BY UseInvKept DEF ModelInv
<1>3. FeastInv /\ CopyInv /\ ModelInv /\ UseInv => ServingTypeOK
  <2>1. Places = {"idle", "check", "look", "proto again", "dead"} \cup Reading
    BY DEF Places, Quietly, Reading
  <2> QED BY <2>1 DEF FeastInv, CopyInv, ModelInv, UseInv, ServingTypeOK, CacheTypeOK
<1> QED BY <1>1, <1>2, <1>3, ServedInvariant, CopyInvariant, PTL DEF ServingSpec
=============================================================================
