---------------------------- MODULE FeastRegistry ----------------------------
(***************************************************************************)
(* The feature registry in PostgreSQL that the platform's pipeline runs    *)
(* share (feast/infra/registry/sql.py), written by feast apply             *)
(* (repo_operations.py, feature_store.py) and by materialize, which also   *)
(* fills the online store and reports to OpenLineage; apply also removes   *)
(* from it the rows of the views it has deleted.  A transaction is a       *)
(* SELECT and, later, an UPDATE or INSERT (READ COMMITTED), so two writers *)
(* of one row can both have read what neither of them leaves there.        *)
(***************************************************************************)
EXTENDS Naturals, FiniteSets

CONSTANTS
  Views,          (* names of feature views *)
  Entities,       (* names of entities *)
  Appliers,       (* executions of feast apply *)
  Materializers,  (* calls of materialize; each has an interval of its own *)
  Repos,          (* what a repository may define: per view its entity or None *)
  None,
  MaxFeastFaults  (* bound: pods killed, calls and posts that raise *)

Objects == Views \cup Entities
Writers == Appliers \cup Materializers

ASSUME FeastAssumption ==
  /\ None \notin Objects
  /\ Views \cap Entities = {} /\ Appliers \cap Materializers = {}
  /\ Repos \subseteq [Views -> Entities \cup {None}]
  /\ MaxFeastFaults \in Nat

VARIABLES
  registry,     (* per object: its row *)
  online,       (* <<view, materializer>> whose rows are in the online store *)
  sent,         (* per materializer: the event types Marquez has *)
  stage,        (* per writer: how far it is *)
  repo,         (* per applier: what its repository defines *)
  todo,         (* per applier: what is left of apply *)
  left,         (* per materializer: views left *)
  runId,        (* per materializer: it has the id of an acknowledged START *)
  target,       (* per writer: the object whose row it is changing, or None *)
  obj,          (* per writer: the object it is going to store *)
  seen,         (* per writer: the row its transaction selected *)
  stale,        (* history, per writer: the row it read has been changed since *)
  raced,        (* history: objects stored by a writer whose reading was stale *)
  sequential,   (* history: the rows, had each writer read what it replaced *)
  swept,        (* history: <<view, materializer>> whose rows an apply took away *)
                (* from a view that was there again, or that was being written *)
  alone,        (* history, per applier: no one else changed the registry since it began *)
  feastFaults

feastVars == <<registry, online, sent, stage, repo, todo, left, runId, target, obj, seen,
          stale, raced, sequential, swept, alone, feastFaults>>
feastHistory == <<raced, sequential, swept, alone>>

(* An entity's row names itself; only a view's row has intervals. *)
Row == [entity : Entities, intervals : SUBSET Materializers]
NoRow == [entity |-> None, intervals |-> {}]
Rows == Row \cup {NoRow}

(* The order of FeatureStore.apply: the phases 1 and 2 store, 3 and 4      *)
(* delete, 5 drops the rows of the views deleted in 4.                     *)
Item == [phase : 1 .. 5, name : Objects]
Delete == {3, 4}

ApplierStages == {"list entities", "list views", "apply", "applied", "failed"}
MaterializerStages == {"list", "start", "write", "get", "select", "update", "complete", "fail",
                       "done", "failed"}

FeastTypeOK ==
  /\ registry \in [Objects -> Rows]
  /\ online \subseteq Views \X Materializers
  /\ sent \in [Materializers -> SUBSET {"START", "COMPLETE", "FAIL"}]
  /\ stage \in [Writers -> ApplierStages \cup MaterializerStages]
  /\ \A w \in Writers : stage[w] \in IF w \in Appliers THEN ApplierStages ELSE MaterializerStages
  /\ repo \in [Appliers -> Repos]
  /\ todo \in [Appliers -> SUBSET Item]
  /\ left \in [Materializers -> SUBSET Views]
  /\ runId \in [Materializers -> BOOLEAN]
  /\ target \in [Writers -> Objects \cup {None}]
  /\ obj \in [Writers -> Rows]
  /\ seen \in [Writers -> Rows]
  /\ stale \in [Writers -> BOOLEAN]
  /\ raced \subseteq Objects
  /\ sequential \in [Objects -> Rows]
  /\ swept \subseteq Views \X Materializers
  /\ alone \in [Appliers -> BOOLEAN]
  /\ feastFaults \in 0 .. MaxFeastFaults

(* The registry is empty, as when the platform is deployed. *)
FeastInit ==
  /\ registry = [o \in Objects |-> NoRow]
  /\ online = {}
  /\ sent = [m \in Materializers |-> {}]
  /\ stage = [w \in Writers |-> IF w \in Appliers THEN "list entities" ELSE "list"]
  /\ repo \in [Appliers -> Repos]
  /\ todo = [a \in Appliers |-> {}]
  /\ left = [m \in Materializers |-> {}]
  /\ runId = [m \in Materializers |-> FALSE]
  /\ target = [w \in Writers |-> None]
  /\ obj = [w \in Writers |-> NoRow]
  /\ seen = [w \in Writers |-> NoRow]
  /\ stale = [w \in Writers |-> FALSE]
  /\ raced = {}
  /\ sequential = registry
  /\ swept = {}
  /\ alone = [a \in Appliers |-> FALSE]
  /\ feastFaults = 0

-----------------------------------------------------------------------------
(* The operators named Faulty... are not the code: each is a bug that could *)
(* be made in the definition that follows it.                               *)

Exists(o) == registry[o] # NoRow
Move(w, next) == stage' = [stage EXCEPT ![w] = next]
Fault == feastFaults < MaxFeastFaults /\ feastFaults' = feastFaults + 1

(* The others that are between reading and storing o have read an old row. *)
Outdates(w, o) == stale' = [q \in Writers |-> q # w /\ (stale[q] \/ target[q] = o)]
Disturbs(w) == alone' = [a \in Appliers |-> alone[a] /\ a = w]

Declared(a, o) ==
  [entity |-> IF o \in Views THEN repo[a][o] ELSE o, intervals |-> {}]
Wanted(a) == {v \in Views : repo[a][v] # None} \cup ({repo[a][v] : v \in Views} \ {None})

(* update_materialization_intervals: an object that has none takes those   *)
(* of the row.                                                             *)
FaultyMerge(new, old) == new

Merge(new, old) == IF new.intervals = {} THEN [new EXCEPT !.intervals = old.intervals] ELSE new

WithEntity(e, row) == [row EXCEPT !.entity = e]
With(m, row) == [row EXCEPT !.intervals = @ \cup {m}]

(* What w has read is forgotten with the call that read it. *)
Forget(w) ==
  /\ target' = [target EXCEPT ![w] = None]
  /\ obj' = [obj EXCEPT ![w] = NoRow]
  /\ seen' = [seen EXCEPT ![w] = NoRow]

(* The SELECT of _apply_object, of an object that is not as it is stored. *)
Select(w, o, new) ==
  /\ registry[o] # new
  /\ target' = [target EXCEPT ![w] = o]
  /\ obj' = [obj EXCEPT ![w] = new]
  /\ seen' = [seen EXCEPT ![w] = registry[o]]

(* The UPDATE, which finds no row when it has been deleted, or the INSERT, *)
(* when there still is none.                                               *)
Store(w) ==
  LET o == target[w]
      new == IF seen[w] = NoRow THEN obj[w] ELSE Merge(obj[w], seen[w])
  IN  /\ seen[w] = NoRow => ~Exists(o)
      /\ registry' = [registry EXCEPT ![o] = IF seen[w] # NoRow /\ ~Exists(o) THEN NoRow ELSE new]
      /\ raced' = IF stale[w] THEN raced \cup {o} ELSE raced
      /\ Outdates(w, o) /\ Disturbs(w) /\ Forget(w)

(* The INSERT of a name another writer has inserted meanwhile. *)
StoreRefused(w) == target[w] # None /\ seen[w] = NoRow /\ Exists(target[w])

-----------------------------------------------------------------------------
(* feast apply. *)

(* The two lists of extract_objects_for_apply_delete. *)
ListEntities(a) ==
  /\ stage[a] = "list entities" /\ Move(a, "list views")
  /\ todo' = [todo EXCEPT ![a] =
       {[phase |-> 2, name |-> e] : e \in Wanted(a) \cap Entities} \cup
       {[phase |-> 3, name |-> e] : e \in {f \in Entities : Exists(f)} \ Wanted(a)}]
  /\ alone' = [alone EXCEPT ![a] = TRUE]
  /\ UNCHANGED <<registry, online, sent, repo, left, runId, target, obj, seen, stale, raced,
                 sequential, swept, feastFaults>>

FaultyListViews(a) ==
  /\ stage[a] = "list views" /\ Move(a, "apply")
  /\ todo' = [todo EXCEPT ![a] = @ \cup {[phase |-> 1, name |-> v] : v \in Wanted(a) \cap Views}]
  /\ UNCHANGED <<registry, online, sent, repo, left, runId, target, obj, seen, stale, feastHistory,
                 feastFaults>>

ListViews(a) ==
  /\ stage[a] = "list views" /\ Move(a, "apply")
  /\ todo' = [todo EXCEPT ![a] = @ \cup
       {[phase |-> 1, name |-> v] : v \in Wanted(a) \cap Views} \cup
       [phase : {4, 5}, name : {u \in Views : Exists(u)} \ Wanted(a)]]
  /\ UNCHANGED <<registry, online, sent, repo, left, runId, target, obj, seen, stale, feastHistory,
                 feastFaults>>

Turn(a, i) ==
  /\ stage[a] = "apply" /\ target[a] = None
  /\ i \in todo[a] /\ \A j \in todo[a] : i.phase <= j.phase

Finished(a, name, phases) ==
  todo' = [todo EXCEPT ![a] = {i \in @ : i.name # name \/ i.phase \notin phases}]

ApplySelect(a) ==
  /\ \E i \in todo[a] :
       /\ Turn(a, i) /\ i.phase <= 2
       /\ \/ /\ Select(a, i.name, Declared(a, i.name))
             /\ stale' = [stale EXCEPT ![a] = FALSE]
             /\ UNCHANGED <<todo, sequential>>
          \/ /\ registry[i.name] = Declared(a, i.name)
             /\ Finished(a, i.name, {1, 2})
             /\ UNCHANGED <<target, obj, seen, stale, sequential>>
  /\ UNCHANGED <<registry, online, sent, stage, repo, left, runId, raced, swept, alone, feastFaults>>

ApplyStore(a) ==
  /\ stage[a] = "apply" /\ target[a] # None
  /\ Store(a)
  /\ Finished(a, target[a], {1, 2})
  /\ sequential' = [sequential EXCEPT ![target[a]] = WithEntity(obj[a].entity, @)]
  /\ UNCHANGED <<online, sent, stage, repo, left, runId, swept, feastFaults>>

(* _delete_object raises when there is no row. *)
ApplyDelete(a) ==
  /\ \E i \in todo[a] :
       /\ Turn(a, i) /\ i.phase \in Delete /\ Exists(i.name)
       /\ registry' = [registry EXCEPT ![i.name] = NoRow]
       /\ sequential' = [sequential EXCEPT ![i.name] = NoRow]
       /\ raced' = raced \ {i.name}
       /\ Outdates(a, i.name) /\ Disturbs(a) /\ Finished(a, i.name, Delete)
  /\ UNCHANGED <<online, sent, stage, repo, left, runId, target, obj, seen, swept, feastFaults>>

(* update_infra: the keys of a deleted view are looked for, then deleted,   *)
(* whoever has stored the view or its rows again since.                    *)
DropRows(a) ==
  /\ \E i \in todo[a] :
       /\ Turn(a, i) /\ i.phase = 5
       /\ LET rows == {row \in online : row[1] = i.name}
              deleted == \A j \in todo[a] : j.name = i.name => j.phase \notin Delete
              back == Exists(i.name) \/ \E w \in Writers : target[w] = i.name
          IN  /\ online' = online \ rows
              /\ swept' = IF deleted /\ back THEN swept \cup rows ELSE swept
       /\ Finished(a, i.name, {5})
  /\ UNCHANGED <<registry, sent, stage, repo, left, runId, target, obj, seen, stale, raced,
                 sequential, alone, feastFaults>>

ApplyDone(a) ==
  /\ stage[a] = "apply" /\ todo[a] = {} /\ Move(a, "applied")
  /\ UNCHANGED <<registry, online, sent, repo, todo, left, runId, target, obj, seen, stale,
                 feastHistory, feastFaults>>

(* What was stored before stays: registry.commit() does nothing. *)
ApplyFails(a) ==
  /\ stage[a] \notin {"applied", "failed"} /\ Move(a, "failed")
  /\ \/ Fault
     \/ /\ \/ StoreRefused(a)
           \/ \E i \in todo[a] : Turn(a, i) /\ i.phase \in Delete /\ ~Exists(i.name)
        /\ UNCHANGED feastFaults
  /\ Forget(a) /\ stale' = [stale EXCEPT ![a] = FALSE]
  /\ UNCHANGED <<registry, online, sent, repo, todo, left, runId, feastHistory>>

Apply(a) ==
  \/ ListEntities(a) \/ ListViews(a) \/ ApplySelect(a) \/ ApplyStore(a) \/ ApplyDelete(a)
  \/ DropRows(a) \/ ApplyDone(a) \/ ApplyFails(a)

-----------------------------------------------------------------------------
(* materialize. *)

ListToMaterialize(m) ==
  /\ stage[m] = "list" /\ Move(m, "start")
  /\ left' = [left EXCEPT ![m] = {v \in Views : Exists(v)}]
  /\ UNCHANGED <<registry, online, sent, repo, todo, runId, target, obj, seen, stale, feastHistory,
                 feastFaults>>

(* emit: an event that could not be posted returns False; it may be there. *)
Emit(m, event, acknowledged) ==
  \/ /\ acknowledged
     /\ sent' = [sent EXCEPT ![m] = @ \cup {event}] /\ UNCHANGED feastFaults
  \/ /\ ~acknowledged
     /\ Fault /\ \E got \in {{}, {event}} : sent' = [sent EXCEPT ![m] = @ \cup got]

FaultyEmitStart(m) ==
  /\ stage[m] = "start" /\ Move(m, "write")
  /\ \E ok \in BOOLEAN : Emit(m, "START", ok)
  /\ runId' = [runId EXCEPT ![m] = TRUE]
  /\ UNCHANGED <<registry, online, repo, todo, left, target, obj, seen, stale, feastHistory>>

(* The run id is returned only if START was acknowledged. *)
EmitStart(m) ==
  /\ stage[m] = "start" /\ Move(m, "write")
  /\ \E ok \in BOOLEAN : Emit(m, "START", ok) /\ runId' = [runId EXCEPT ![m] = ok]
  /\ UNCHANGED <<registry, online, repo, todo, left, target, obj, seen, stale, feastHistory>>

(* A write that was skipped counts as done. *)
FaultyWriteOnline(m) ==
  /\ stage[m] = "write" /\ Move(m, "get")
  /\ \E v \in left[m] : target' = [target EXCEPT ![m] = v]
  /\ UNCHANGED <<registry, online, sent, repo, todo, left, runId, obj, seen, stale, feastHistory,
                 feastFaults>>

(* A key holds the rows of all views of an entity.  What is written between *)
(* looking at a key and deleting it goes with the key, of whatever view.   *)
Sweeping == \E a \in Appliers : \E i \in todo[a] : Turn(a, i) /\ i.phase = 5

WriteOnline(m) ==
  /\ stage[m] = "write" /\ Move(m, "get")
  /\ \E v \in left[m] :
       /\ target' = [target EXCEPT ![m] = v]
       /\ \/ online' = online \cup {<<v, m>>} /\ UNCHANGED swept
          \/ Sweeping /\ swept' = swept \cup {<<v, m>>} /\ UNCHANGED online
  /\ UNCHANGED <<registry, sent, repo, todo, left, runId, obj, seen, stale, raced, sequential,
                 alone, feastFaults>>

(* apply_materialization reads the view in a transaction of its own. *)
GetView(m) ==
  /\ stage[m] = "get" /\ Exists(target[m]) /\ Move(m, "select")
  /\ obj' = [obj EXCEPT ![m] = With(m, registry[target[m]])]
  /\ stale' = [stale EXCEPT ![m] = FALSE]
  /\ UNCHANGED <<registry, online, sent, repo, todo, left, runId, target, seen, feastHistory,
                 feastFaults>>

MaterializeSelect(m) ==
  /\ stage[m] = "select" /\ Move(m, "update")
  /\ Select(m, target[m], obj[m])
  /\ UNCHANGED <<registry, online, sent, repo, todo, left, runId, stale, feastHistory, feastFaults>>

MaterializeStore(m) ==
  /\ stage[m] = "update" /\ Move(m, "write")
  /\ Store(m)
  /\ left' = [left EXCEPT ![m] = @ \ {target[m]}]
  /\ sequential' = [sequential EXCEPT ![target[m]] =
                      IF @ = NoRow THEN @ ELSE With(m, @)]
  /\ UNCHANGED <<online, sent, repo, todo, runId, swept, feastFaults>>

(* An exception in the loop: a call that raises, a view that has been      *)
(* deleted, a name another writer has inserted meanwhile.                  *)
MaterializeRaises(m) ==
  /\ stage[m] \in {"write", "get", "select", "update"} /\ Move(m, "fail")
  /\ \/ Fault
     \/ /\ \/ stage[m] = "get" /\ ~Exists(target[m])
           \/ stage[m] = "update" /\ StoreRefused(m)
        /\ UNCHANGED feastFaults
  /\ Forget(m) /\ stale' = [stale EXCEPT ![m] = FALSE]
  /\ UNCHANGED <<registry, online, sent, repo, todo, left, runId, feastHistory>>

EmitEnd(m, event) ==
  IF runId[m] THEN \E ok \in BOOLEAN : Emit(m, event, ok)
  ELSE UNCHANGED <<sent, feastFaults>>

MaterializeEnds(m) ==
  /\ \/ stage[m] = "write" /\ left[m] = {} /\ Move(m, "done") /\ EmitEnd(m, "COMPLETE")
     \/ stage[m] = "fail" /\ Move(m, "failed") /\ EmitEnd(m, "FAIL")
  /\ UNCHANGED <<registry, online, repo, todo, left, runId, target, obj, seen, stale, feastHistory>>

MaterializerKilled(m) ==
  /\ stage[m] \notin {"done", "failed"} /\ Fault /\ Move(m, "failed")
  /\ Forget(m) /\ stale' = [stale EXCEPT ![m] = FALSE]
  /\ UNCHANGED <<registry, online, sent, repo, todo, left, runId, feastHistory>>

Materialize(m) ==
  \/ ListToMaterialize(m) \/ EmitStart(m) \/ WriteOnline(m) \/ GetView(m) \/ MaterializeSelect(m)
  \/ MaterializeStore(m) \/ MaterializeRaises(m) \/ MaterializeEnds(m) \/ MaterializerKilled(m)

FeastNext ==
  \/ \E a \in Appliers : Apply(a)
  \/ \E m \in Materializers : Materialize(m)

FeastSpec == FeastInit /\ [][FeastNext]_feastVars

-----------------------------------------------------------------------------
(* Properties.                                                              *)

(* A row is what storing it one writer after the other would have left, as *)
(* long as no writer has stored it over a change it had not read: a new    *)
(* definition keeps the recorded intervals, a recorded interval keeps the  *)
(* definition (sql.py:703-731, :921-985; feature_store.py:1006, "TODO: Add *)
(* locking").                                                              *)
UnracedRowsAreSequential == \A o \in Objects \ raced : registry[o] = sequential[o]

(* An apply that ran alone leaves what its repository defines and nothing  *)
(* else: it stores and deletes in separate transactions, after lists of    *)
(* their own (repo_operations.py:361-391, feature_store.py:1098-1190).     *)
UndisturbedApplyIsExact ==
  \A a \in Appliers :
    stage[a] = "applied" /\ alone[a] =>
      \A o \in Objects :
        registry[o].entity = IF o \in Wanted(a) THEN Declared(a, o).entity ELSE None

(* A recorded interval has its rows in the online store: they are written  *)
(* before it is recorded, and a view that is deleted takes its intervals   *)
(* with it before its rows are dropped.  Only the clean-up of an apply     *)
(* leaves an interval without them: that of a view which is there again or *)
(* just being stored, or while they are written (feature_store.py:1161-1203, *)
(* :1805-1832; redis.py:114-173).                                          *)
RecordedIsOnline ==
  \A v \in Views : \A m \in registry[v].intervals : <<v, m>> \in online \cup swept

(* Marquez has the end of a materialization only if it has its start ("this *)
(* prevents orphaned COMPLETE/FAIL events", feature_store.py:1854), has one *)
(* end at most, and COMPLETE only when every view was gone through.        *)
NoOrphanedEnd ==
  \A m \in Materializers :
    /\ sent[m] # {} => "START" \in sent[m]
    /\ ~({"COMPLETE", "FAIL"} \subseteq sent[m])
    /\ "COMPLETE" \in sent[m] => left[m] = {}
=============================================================================
