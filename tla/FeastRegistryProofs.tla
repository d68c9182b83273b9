------------------------- MODULE FeastRegistryProofs -------------------------
(***************************************************************************)
(* Proofs about the feature registry, for any views, entities, repositories *)
(* and writers.  The invariant says, per writer, what it knows of the row  *)
(* it is changing, and for an apply that is alone what it has still to do. *)
(***************************************************************************)
EXTENDS FeastRegistry, TLAPS

(* What o has when the repository of a is applied. *)
Right(a, o) == registry[o].entity = IF o \in Wanted(a) THEN Declared(a, o).entity ELSE None
Due(a, o) == \E i \in todo[a] : i.name = o /\ i.phase # 5

(* Rows that are online, or were until an apply took them away. *)
Kept == online \cup swept

ApplierInv(a) ==
  /\ \A i \in todo[a] : i.phase <= 2 <=> i.name \in Wanted(a)
  /\ target[a] # None =>
       /\ stage[a] = "apply" /\ target[a] \in Wanted(a) /\ Due(a, target[a])
       /\ obj[a] = Declared(a, target[a])
       /\ ~stale[a] => seen[a] = registry[target[a]]
       /\ alone[a] => seen[a] = registry[target[a]]
       /\ \A m \in seen[a].intervals : target[a] \in Views => <<target[a], m>> \in Kept
  /\ alone[a] =>
       /\ stage[a] = "list views" => \A e \in Entities : Right(a, e) \/ Due(a, e)
       /\ stage[a] \in {"apply", "applied"} => \A o \in Objects : Right(a, o) \/ Due(a, o)
       /\ stage[a] = "applied" => todo[a] = {}

MaterializerInv(m) ==
  /\ stage[m] \in {"get", "select", "update"} => target[m] \in Views /\ <<target[m], m>> \in Kept
  /\ stage[m] \in {"select", "update"} =>
       /\ obj[m] \in Row /\ m \in obj[m].intervals
       /\ \A n \in obj[m].intervals : <<target[m], n>> \in Kept
       /\ ~stale[m] => Exists(target[m]) /\ obj[m] = With(m, registry[target[m]])
  /\ stage[m] = "update" =>
       /\ \A n \in seen[m].intervals : <<target[m], n>> \in Kept
       /\ ~stale[m] => seen[m] = registry[target[m]]

ReportInv(m) ==
  /\ runId[m] => "START" \in sent[m]
  /\ stage[m] \in {"list", "start"} => sent[m] = {}
  /\ stage[m] \notin {"done", "failed"} => sent[m] \subseteq {"START"}
  /\ stage[m] = "done" => left[m] = {}
  /\ sent[m] # {} => "START" \in sent[m]
  /\ ~({"COMPLETE", "FAIL"} \subseteq sent[m])
  /\ "COMPLETE" \in sent[m] => left[m] = {}

FeastInv ==
  /\ FeastTypeOK
  /\ \A a \in Appliers : ApplierInv(a)
  /\ \A m \in Materializers : MaterializerInv(m)
  /\ \A m \in Materializers : ReportInv(m)
  /\ UnracedRowsAreSequential
  /\ RecordedIsOnline

(* What a step of w is to the other writers. *)
Apart(w) ==
  /\ \A q \in Writers \ {w} : /\ stage'[q] = stage[q] /\ target'[q] = target[q]
                              /\ obj'[q] = obj[q] /\ seen'[q] = seen[q]
  /\ repo' = repo /\ \A a \in Appliers \ {w} : todo'[a] = todo[a]
  /\ \A m \in Materializers \ {w} : sent'[m] = sent[m] /\ left'[m] = left[m] /\ runId'[m] = runId[m]

(* Only rows of a view that is gone, and that no one is storing, are lost. *)
Unused(v) == ~Exists(v) /\ \A q \in Writers : target[q] # v
Spares == \A v \in Views : \A m \in Materializers :
            <<v, m>> \in Kept => <<v, m>> \in Kept' \/ Unused(v)

Keeps(w) ==
  /\ Apart(w) /\ Spares
  /\ registry' = registry /\ sequential' = sequential /\ raced' = raced
  /\ \A q \in Writers \ {w} : stale'[q] = stale[q]
  /\ \A a \in Appliers \ {w} : alone'[a] = alone[a]

Puts(w, o) ==
  /\ Apart(w) /\ o \in Objects /\ Kept' = Kept
  /\ \A p \in Objects \ {o} : registry'[p] = registry[p] /\ sequential'[p] = sequential[p]
  /\ \A q \in Writers \ {w} : stale'[q] = (stale[q] \/ target[q] = o)
  /\ \A a \in Appliers \ {w} : ~alone'[a]

-----------------------------------------------------------------------------
(* The step of an action that changes a variable keeps its type. *)
LEMMA FeastTypes ==
  ASSUME FeastTypeOK
  PROVE  /\ registry \in [Objects -> Rows]
         /\ online \in SUBSET (Views \X Materializers)
         /\ sent \in [Materializers -> SUBSET {"START", "COMPLETE", "FAIL"}]
         /\ stage \in [Writers -> ApplierStages \cup MaterializerStages]
         /\ repo \in [Appliers -> Repos]
         /\ todo \in [Appliers -> SUBSET Item]
         /\ left \in [Materializers -> SUBSET Views]
         /\ runId \in [Materializers -> BOOLEAN]
         /\ target \in [Writers -> Objects \cup {None}]
         /\ obj \in [Writers -> Rows]
         /\ seen \in [Writers -> Rows]
         /\ stale \in [Writers -> BOOLEAN]
         /\ raced \in SUBSET Objects
         /\ sequential \in [Objects -> Rows]
         /\ swept \in SUBSET (Views \X Materializers)
         /\ alone \in [Appliers -> BOOLEAN]
         /\ feastFaults \in 0 .. MaxFeastFaults
BY DEF FeastTypeOK

LEMMA WriterIs ==
  ASSUME FeastAssumption
  PROVE  /\ Appliers \subseteq Writers /\ Materializers \subseteq Writers
         /\ Appliers \cap Materializers = {}
         /\ ApplierStages \cap MaterializerStages = {"failed"}
BY DEF FeastAssumption, Writers, ApplierStages, MaterializerStages

LEMMA RowsAre ==
  ASSUME FeastAssumption
  PROVE  /\ Row \subseteq Rows /\ NoRow \in Rows /\ NoRow \notin Row
         /\ None \notin Entities /\ None \notin Views /\ None \notin Objects
BY DEF FeastAssumption, Row, Rows, NoRow, Objects

LEMMA DeclaredIsRow ==
  ASSUME FeastAssumption, FeastTypeOK, NEW a \in Appliers, NEW o \in Wanted(a)
  PROVE  o \in Objects /\ Declared(a, o) \in Row /\ Declared(a, o).intervals = {}
<1>1. repo[a] \in [Views -> Entities \cup {None}]
  BY FeastTypes DEF FeastAssumption
<1>2. o \in Objects
  BY <1>1 DEF Wanted, Objects
<1>3. (IF o \in Views THEN repo[a][o] ELSE o) \in Entities
  BY <1>1, RowsAre DEF Wanted, FeastAssumption
<1> QED BY <1>2, <1>3 DEF Declared, Row

LEMMA EntityOfRow ==
  ASSUME NEW row \in Rows, NEW e \in Entities
  PROVE  WithEntity(e, row) \in Row
BY DEF WithEntity, Rows, Row, NoRow

LEMMA IntervalsOfRow ==
  ASSUME NEW row \in Row, NEW m \in Materializers
  PROVE  With(m, row) \in Row
BY DEF With, Row

LEMMA ItemsAre ==
  ASSUME NEW names \in SUBSET Objects, NEW phase \in 1 .. 5
  PROVE  {[phase |-> phase, name |-> o] : o \in names} \subseteq Item
BY DEF Item

LEMMA MergeIsRow ==
  ASSUME FeastAssumption, NEW new \in Row, NEW old \in Rows
  PROVE  Merge(new, old) \in Row
BY DEF Merge, Row, Rows, NoRow

LEMMA ListEntitiesType ==
  ASSUME FeastAssumption, FeastInv, NEW a \in Appliers, ListEntities(a)
  PROVE  FeastTypeOK'
<1> USE FeastAssumption
<1>typed. FeastTypeOK
  BY DEF FeastInv
<1>one. {[phase |-> 2, name |-> e] : e \in Wanted(a) \cap Entities} \subseteq Item
  <2>1. Wanted(a) \cap Entities \in SUBSET Objects
    BY DEF Objects
  <2> QED BY <2>1, ItemsAre
<1>two. {[phase |-> 3, name |-> e] : e \in {f \in Entities : Exists(f)} \ Wanted(a)} \subseteq Item
  <2>1. {f \in Entities : Exists(f)} \ Wanted(a) \in SUBSET Objects
    BY DEF Objects
  <2> QED BY <2>1, ItemsAre
<1>stage. stage' \in [Writers -> ApplierStages \cup MaterializerStages]
  BY <1>typed, FeastTypes, WriterIs DEF ListEntities, Move, ApplierStages, MaterializerStages
<1>todo. todo' \in [Appliers -> SUBSET Item]
  BY <1>typed, FeastTypes, WriterIs, <1>one, <1>two DEF ListEntities
<1>alone. alone' \in [Appliers -> BOOLEAN]
  BY <1>typed, FeastTypes, WriterIs DEF ListEntities
<1>stages. \A w \in Writers :
           stage'[w] \in IF w \in Appliers THEN ApplierStages ELSE MaterializerStages
  BY <1>typed, FeastTypes, WriterIs
     DEF FeastTypeOK, ListEntities, Move, ApplierStages, MaterializerStages
<1> QED BY <1>typed, <1>stage, <1>todo, <1>alone, <1>stages DEF FeastTypeOK, ListEntities

LEMMA ListViewsType ==
  ASSUME FeastAssumption, FeastInv, NEW a \in Appliers, ListViews(a)
  PROVE  FeastTypeOK'
<1> USE FeastAssumption
<1>typed. FeastTypeOK
  BY DEF FeastInv
<1>one. {[phase |-> 1, name |-> v] : v \in Wanted(a) \cap Views} \subseteq Item
  <2>1. Wanted(a) \cap Views \in SUBSET Objects
    BY DEF Objects
  <2> QED BY <2>1, ItemsAre
<1>two. [phase : {4, 5}, name : {u \in Views : Exists(u)} \ Wanted(a)] \subseteq Item
  BY DEF Item, Objects
<1>stage. stage' \in [Writers -> ApplierStages \cup MaterializerStages]
  BY <1>typed, FeastTypes, WriterIs DEF ListViews, Move, ApplierStages, MaterializerStages
<1>todo. todo' \in [Appliers -> SUBSET Item]
  BY <1>typed, FeastTypes, WriterIs, <1>one, <1>two DEF ListViews
<1>stages. \A w \in Writers :
           stage'[w] \in IF w \in Appliers THEN ApplierStages ELSE MaterializerStages
  BY <1>typed, FeastTypes, WriterIs
     DEF FeastTypeOK, ListViews, Move, ApplierStages, MaterializerStages
<1> QED BY <1>typed, <1>stage, <1>todo, <1>stages DEF FeastTypeOK, ListViews, feastHistory

LEMMA ApplySelectType ==
  ASSUME FeastAssumption, FeastInv, NEW a \in Appliers, ApplySelect(a)
  PROVE  FeastTypeOK'
<1> USE FeastAssumption
<1>typed. FeastTypeOK
  BY DEF FeastInv
<1>o. \A i \in todo[a] : i.phase <= 2 => i.name \in Objects /\ Declared(a, i.name) \in Rows
  BY <1>typed, DeclaredIsRow, RowsAre DEF FeastInv, ApplierInv
<1>target. target' \in [Writers -> Objects \cup {None}]
  BY <1>typed, FeastTypes, WriterIs, <1>o DEF ApplySelect, Select, Turn
<1>obj. obj' \in [Writers -> Rows]
  BY <1>typed, FeastTypes, WriterIs, <1>o DEF ApplySelect, Select, Turn
<1>seen. seen' \in [Writers -> Rows]
  BY <1>typed, FeastTypes, WriterIs, <1>o DEF ApplySelect, Select, Turn
<1>stale. stale' \in [Writers -> BOOLEAN]
  BY <1>typed, FeastTypes, WriterIs DEF ApplySelect
<1>todo. todo' \in [Appliers -> SUBSET Item]
  BY <1>typed, FeastTypes, WriterIs DEF ApplySelect, Finished
<1> QED BY <1>typed, <1>target, <1>obj, <1>seen, <1>stale, <1>todo DEF FeastTypeOK, ApplySelect

LEMMA ApplyStoreType ==
  ASSUME FeastAssumption, FeastInv, NEW a \in Appliers, ApplyStore(a)
  PROVE  FeastTypeOK'
<1> USE FeastAssumption
<1>typed. FeastTypeOK
  BY DEF FeastInv
<1>o. target[a] \in Objects
  BY <1>typed, FeastTypes, WriterIs DEF ApplyStore
<1>inv. ApplierInv(a)
  BY DEF FeastInv
<1>declared. target[a] \in Wanted(a) /\ obj[a] = Declared(a, target[a])
  BY <1>inv DEF ApplierInv, ApplyStore
<1>new. obj[a] \in Row
  BY <1>typed, <1>declared, DeclaredIsRow
<1>row. WithEntity(obj[a].entity, sequential[target[a]]) \in Rows
  <2>1. obj[a].entity \in Entities
    BY <1>new DEF Row
  <2>2. sequential[target[a]] \in Rows
    BY <1>typed, <1>o, FeastTypes
  <2> QED BY <2>1, <2>2, EntityOfRow DEF Rows
<1>registry. registry' \in [Objects -> Rows]
  BY <1>typed, FeastTypes, WriterIs, RowsAre, <1>o, <1>new, MergeIsRow DEF ApplyStore, Store
<1>raced. raced' \in SUBSET Objects
  BY <1>typed, FeastTypes, WriterIs, <1>o DEF ApplyStore, Store
<1>stale. stale' \in [Writers -> BOOLEAN]
  BY <1>typed, FeastTypes, WriterIs DEF ApplyStore, Outdates, Store
<1>alone. alone' \in [Appliers -> BOOLEAN]
  BY <1>typed, FeastTypes, WriterIs DEF ApplyStore, Disturbs, Store
<1>target. target' \in [Writers -> Objects \cup {None}]
  BY <1>typed, FeastTypes, WriterIs, RowsAre DEF ApplyStore, Forget, Store
<1>obj. obj' \in [Writers -> Rows]
  BY <1>typed, FeastTypes, WriterIs, RowsAre DEF ApplyStore, Forget, Store
<1>seen. seen' \in [Writers -> Rows]
  BY <1>typed, FeastTypes, WriterIs, RowsAre DEF ApplyStore, Forget, Store
<1>todo. todo' \in [Appliers -> SUBSET Item]
  BY <1>typed, FeastTypes, WriterIs DEF ApplyStore, Finished
<1>sequential. sequential' \in [Objects -> Rows]
  BY <1>typed, FeastTypes, WriterIs, <1>o, <1>row DEF ApplyStore
<1> QED BY <1>typed, <1>registry, <1>raced, <1>stale, <1>alone, <1>target, <1>obj, <1>seen,
     <1>todo, <1>sequential DEF FeastTypeOK, ApplyStore

LEMMA ApplyDeleteType ==
  ASSUME FeastAssumption, FeastInv, NEW a \in Appliers, ApplyDelete(a)
  PROVE  FeastTypeOK'
<1> USE FeastAssumption
<1>typed. FeastTypeOK
  BY DEF FeastInv
<1>registry. registry' \in [Objects -> Rows]
  BY <1>typed, FeastTypes, WriterIs, RowsAre DEF ApplyDelete
<1>sequential. sequential' \in [Objects -> Rows]
  BY <1>typed, FeastTypes, WriterIs, RowsAre DEF ApplyDelete
<1>raced. raced' \in SUBSET Objects
  BY <1>typed, FeastTypes, WriterIs DEF ApplyDelete
<1>stale. stale' \in [Writers -> BOOLEAN]
  BY <1>typed, FeastTypes, WriterIs DEF ApplyDelete, Outdates
<1>alone. alone' \in [Appliers -> BOOLEAN]
  BY <1>typed, FeastTypes, WriterIs DEF ApplyDelete, Disturbs
<1>todo. todo' \in [Appliers -> SUBSET Item]
  BY <1>typed, FeastTypes, WriterIs DEF ApplyDelete, Finished
<1> QED BY <1>typed, <1>registry, <1>sequential, <1>raced, <1>stale, <1>alone, <1>todo
     DEF FeastTypeOK, ApplyDelete

LEMMA DropRowsType ==
  ASSUME FeastAssumption, FeastInv, NEW a \in Appliers, DropRows(a)
  PROVE  FeastTypeOK'
<1> USE FeastAssumption
<1>typed. FeastTypeOK
  BY DEF FeastInv
<1>online. online' \subseteq online
  BY DEF DropRows
<1>swept. swept' \subseteq swept \cup online
  BY DEF DropRows
<1>todo. todo' \in [Appliers -> SUBSET Item]
  BY <1>typed, FeastTypes DEF DropRows, Finished
<1> QED BY <1>typed, <1>online, <1>swept, <1>todo DEF FeastTypeOK, DropRows

LEMMA ApplyDoneType ==
  ASSUME FeastAssumption, FeastInv, NEW a \in Appliers, ApplyDone(a)
  PROVE  FeastTypeOK'
<1> USE FeastAssumption
<1>typed. FeastTypeOK
  BY DEF FeastInv
<1>stage. stage' \in [Writers -> ApplierStages \cup MaterializerStages]
  BY <1>typed, FeastTypes, WriterIs DEF ApplyDone, Move, ApplierStages, MaterializerStages
<1>stages. \A w \in Writers :
           stage'[w] \in IF w \in Appliers THEN ApplierStages ELSE MaterializerStages
  BY <1>typed, FeastTypes, WriterIs
     DEF FeastTypeOK, ApplyDone, Move, ApplierStages, MaterializerStages
<1> QED BY <1>typed, <1>stage, <1>stages DEF FeastTypeOK, ApplyDone, feastHistory

LEMMA ApplyFailsType ==
  ASSUME FeastAssumption, FeastInv, NEW a \in Appliers, ApplyFails(a)
  PROVE  FeastTypeOK'
<1> USE FeastAssumption
<1>typed. FeastTypeOK
  BY DEF FeastInv
<1>stage. stage' \in [Writers -> ApplierStages \cup MaterializerStages]
  BY <1>typed, FeastTypes, WriterIs DEF ApplyFails, Move, ApplierStages, MaterializerStages
<1>feastFaults. feastFaults' \in 0 .. MaxFeastFaults
  BY <1>typed, FeastTypes, WriterIs DEF ApplyFails, Fault, FeastAssumption
<1>target. target' \in [Writers -> Objects \cup {None}]
  BY <1>typed, FeastTypes, WriterIs, RowsAre DEF ApplyFails, Forget
<1>obj. obj' \in [Writers -> Rows]
  BY <1>typed, FeastTypes, WriterIs, RowsAre DEF ApplyFails, Forget
<1>seen. seen' \in [Writers -> Rows]
  BY <1>typed, FeastTypes, WriterIs, RowsAre DEF ApplyFails, Forget
<1>stale. stale' \in [Writers -> BOOLEAN]
  BY <1>typed, FeastTypes, WriterIs DEF ApplyFails
<1>stages. \A w \in Writers :
           stage'[w] \in IF w \in Appliers THEN ApplierStages ELSE MaterializerStages
  BY <1>typed, FeastTypes, WriterIs
     DEF FeastTypeOK, ApplyFails, Move, ApplierStages, MaterializerStages
<1> QED BY <1>typed, <1>stage, <1>feastFaults, <1>target, <1>obj, <1>seen, <1>stale, <1>stages
     DEF FeastTypeOK, ApplyFails, feastHistory

LEMMA ListToMaterializeType ==
  ASSUME FeastAssumption, FeastInv, NEW m \in Materializers, ListToMaterialize(m)
  PROVE  FeastTypeOK'
<1> USE FeastAssumption
<1>typed. FeastTypeOK
  BY DEF FeastInv
<1>stage. stage' \in [Writers -> ApplierStages \cup MaterializerStages]
  BY <1>typed, FeastTypes, WriterIs DEF ListToMaterialize, Move, ApplierStages, MaterializerStages
<1>left. left' \in [Materializers -> SUBSET Views]
  BY <1>typed, FeastTypes, WriterIs DEF ListToMaterialize
<1>stages. \A w \in Writers :
           stage'[w] \in IF w \in Appliers THEN ApplierStages ELSE MaterializerStages
  BY <1>typed, FeastTypes, WriterIs
     DEF FeastTypeOK, ListToMaterialize, Move, ApplierStages, MaterializerStages
<1> QED BY <1>typed, <1>stage, <1>left, <1>stages DEF FeastTypeOK, ListToMaterialize, feastHistory

LEMMA EmitStartType ==
  ASSUME FeastAssumption, FeastInv, NEW m \in Materializers, EmitStart(m)
  PROVE  FeastTypeOK'
<1> USE FeastAssumption
<1>typed. FeastTypeOK
  BY DEF FeastInv
<1>got. \E got \in {{}, {"START"}} : sent' = [sent EXCEPT ![m] = @ \cup got]
  BY DEF EmitStart, Emit
<1>stage. stage' \in [Writers -> ApplierStages \cup MaterializerStages]
  BY <1>typed, FeastTypes, WriterIs DEF EmitStart, Move, ApplierStages, MaterializerStages
<1>sent. sent' \in [Materializers -> SUBSET {"START", "COMPLETE", "FAIL"}]
  BY <1>typed, FeastTypes, WriterIs, <1>got 
<1>feastFaults. feastFaults' \in 0 .. MaxFeastFaults
  BY <1>typed, FeastTypes, WriterIs DEF EmitStart, Fault, FeastAssumption, Emit
<1>runId. runId' \in [Materializers -> BOOLEAN]
  BY <1>typed, FeastTypes, WriterIs DEF EmitStart
<1>stages. \A w \in Writers :
           stage'[w] \in IF w \in Appliers THEN ApplierStages ELSE MaterializerStages
  BY <1>typed, FeastTypes, WriterIs
     DEF FeastTypeOK, EmitStart, Move, ApplierStages, MaterializerStages
<1> QED BY <1>typed, <1>stage, <1>sent, <1>feastFaults, <1>runId, <1>stages
     DEF FeastTypeOK, EmitStart, feastHistory

LEMMA WriteOnlineType ==
  ASSUME FeastAssumption, FeastInv, NEW m \in Materializers, WriteOnline(m)
  PROVE  FeastTypeOK'
<1> USE FeastAssumption
<1>typed. FeastTypeOK
  BY DEF FeastInv
<1>stage. stage' \in [Writers -> ApplierStages \cup MaterializerStages]
  BY <1>typed, FeastTypes, WriterIs DEF WriteOnline, Move, ApplierStages, MaterializerStages
<1>online. /\ online' \in SUBSET (Views \X Materializers)
           /\ swept' \in SUBSET (Views \X Materializers)
  BY <1>typed, FeastTypes, WriterIs DEF WriteOnline
<1>target. target' \in [Writers -> Objects \cup {None}]
  BY <1>typed, FeastTypes, WriterIs DEF WriteOnline, Objects
<1>stages. \A w \in Writers :
           stage'[w] \in IF w \in Appliers THEN ApplierStages ELSE MaterializerStages
  BY <1>typed, FeastTypes, WriterIs
     DEF FeastTypeOK, WriteOnline, Move, ApplierStages, MaterializerStages
<1> QED BY <1>typed, <1>stage, <1>online, <1>target, <1>stages
     DEF FeastTypeOK, WriteOnline

LEMMA GetViewType ==
  ASSUME FeastAssumption, FeastInv, NEW m \in Materializers, GetView(m)
  PROVE  FeastTypeOK'
<1> USE FeastAssumption
<1>typed. FeastTypeOK
  BY DEF FeastInv
<1>o. target[m] \in Objects
  BY DEF FeastInv, MaterializerInv, GetView, Objects
<1>row. With(m, registry[target[m]]) \in Rows
  <2>1. registry[target[m]] \in Row
    BY <1>typed, <1>o, FeastTypes DEF GetView, Exists, Rows
  <2> QED BY <2>1, IntervalsOfRow DEF Rows
<1>stage. stage' \in [Writers -> ApplierStages \cup MaterializerStages]
  BY <1>typed, FeastTypes, WriterIs DEF GetView, Move, ApplierStages, MaterializerStages
<1>obj. obj' \in [Writers -> Rows]
  BY <1>typed, FeastTypes, WriterIs, <1>row DEF GetView
<1>stale. stale' \in [Writers -> BOOLEAN]
  BY <1>typed, FeastTypes, WriterIs DEF GetView
<1>stages. \A w \in Writers :
           stage'[w] \in IF w \in Appliers THEN ApplierStages ELSE MaterializerStages
  BY <1>typed, FeastTypes, WriterIs
     DEF FeastTypeOK, GetView, Move, ApplierStages, MaterializerStages
<1> QED BY <1>typed, <1>stage, <1>obj, <1>stale, <1>stages DEF FeastTypeOK, GetView, feastHistory

LEMMA MaterializeSelectType ==
  ASSUME FeastAssumption, FeastInv, NEW m \in Materializers, MaterializeSelect(m)
  PROVE  FeastTypeOK'
<1> USE FeastAssumption
<1>typed. FeastTypeOK
  BY DEF FeastInv
<1>o. target[m] \in Objects
  BY DEF FeastInv, MaterializerInv, MaterializeSelect, Objects
<1>stage. stage' \in [Writers -> ApplierStages \cup MaterializerStages]
  BY <1>typed, FeastTypes, WriterIs DEF MaterializeSelect, Move, ApplierStages, MaterializerStages
<1>target. target' \in [Writers -> Objects \cup {None}]
  BY <1>typed, FeastTypes, WriterIs, <1>o DEF MaterializeSelect, Select
<1>obj. obj' \in [Writers -> Rows]
  BY <1>typed, FeastTypes, WriterIs, <1>o DEF MaterializeSelect, Select
<1>seen. seen' \in [Writers -> Rows]
  BY <1>typed, FeastTypes, WriterIs, <1>o DEF MaterializeSelect, Select
<1>stages. \A w \in Writers :
           stage'[w] \in IF w \in Appliers THEN ApplierStages ELSE MaterializerStages
  BY <1>typed, FeastTypes, WriterIs
     DEF FeastTypeOK, MaterializeSelect, Move, ApplierStages, MaterializerStages
<1> QED BY <1>typed, <1>stage, <1>target, <1>obj, <1>seen, <1>stages
     DEF FeastTypeOK, MaterializeSelect, feastHistory

LEMMA MaterializeStoreType ==
  ASSUME FeastAssumption, FeastInv, NEW m \in Materializers, MaterializeStore(m)
  PROVE  FeastTypeOK'
<1> USE FeastAssumption
<1>typed. FeastTypeOK
  BY DEF FeastInv
<1>o. target[m] \in Objects
  BY DEF FeastInv, MaterializerInv, MaterializeStore, Objects
<1>new. obj[m] \in Row
  BY DEF FeastInv, MaterializerInv, MaterializeStore
<1>seq. sequential \in [Objects -> Rows]
  BY <1>typed, FeastTypes
<1> DEFINE old == sequential[target[m]]
           new == IF old = NoRow THEN old ELSE With(m, old)
<1>stored. sequential' = [sequential EXCEPT ![target[m]] = new]
  BY DEF MaterializeStore
<1>row. new \in Rows
  <2>1. old \in Rows
    BY <1>seq, <1>o
  <2> QED BY <2>1, IntervalsOfRow DEF Rows
<1> HIDE DEF new
<1>stage. stage' \in [Writers -> ApplierStages \cup MaterializerStages]
  BY <1>typed, FeastTypes, WriterIs DEF MaterializeStore, Move, ApplierStages, MaterializerStages
<1>registry. registry' \in [Objects -> Rows]
  BY <1>typed, FeastTypes, WriterIs, RowsAre, <1>o, <1>new, MergeIsRow DEF MaterializeStore, Store
<1>raced. raced' \in SUBSET Objects
  BY <1>typed, FeastTypes, WriterIs, <1>o DEF MaterializeStore, Store
<1>stale. stale' \in [Writers -> BOOLEAN]
  BY <1>typed, FeastTypes, WriterIs DEF MaterializeStore, Outdates, Store
<1>alone. alone' \in [Appliers -> BOOLEAN]
  BY <1>typed, FeastTypes, WriterIs DEF MaterializeStore, Disturbs, Store
<1>target. target' \in [Writers -> Objects \cup {None}]
  BY <1>typed, FeastTypes, WriterIs, RowsAre DEF MaterializeStore, Forget, Store
<1>obj. obj' \in [Writers -> Rows]
  BY <1>typed, FeastTypes, WriterIs, RowsAre DEF MaterializeStore, Forget, Store
<1>seen. seen' \in [Writers -> Rows]
  BY <1>typed, FeastTypes, WriterIs, RowsAre DEF MaterializeStore, Forget, Store
<1>left. left' \in [Materializers -> SUBSET Views]
  BY <1>typed, FeastTypes, WriterIs DEF MaterializeStore
<1>sequential. sequential' \in [Objects -> Rows]
  BY <1>typed, <1>stored, <1>seq, <1>o, <1>row 
<1>stages. \A w \in Writers :
           stage'[w] \in IF w \in Appliers THEN ApplierStages ELSE MaterializerStages
  BY <1>typed, FeastTypes, WriterIs
     DEF FeastTypeOK, MaterializeStore, Move, ApplierStages, MaterializerStages
<1> QED BY <1>typed, <1>stage, <1>registry, <1>raced, <1>stale, <1>alone, <1>target, <1>obj,
     <1>seen, <1>left, <1>sequential, <1>stages DEF FeastTypeOK, MaterializeStore

LEMMA MaterializeRaisesType ==
  ASSUME FeastAssumption, FeastInv, NEW m \in Materializers, MaterializeRaises(m)
  PROVE  FeastTypeOK'
<1> USE FeastAssumption
<1>typed. FeastTypeOK
  BY DEF FeastInv
<1>stage. stage' \in [Writers -> ApplierStages \cup MaterializerStages]
  BY <1>typed, FeastTypes, WriterIs DEF MaterializeRaises, Move, ApplierStages, MaterializerStages
<1>feastFaults. feastFaults' \in 0 .. MaxFeastFaults
  BY <1>typed, FeastTypes, WriterIs DEF MaterializeRaises, Fault, FeastAssumption
<1>target. target' \in [Writers -> Objects \cup {None}]
  BY <1>typed, FeastTypes, WriterIs, RowsAre DEF MaterializeRaises, Forget
<1>obj. obj' \in [Writers -> Rows]
  BY <1>typed, FeastTypes, WriterIs, RowsAre DEF MaterializeRaises, Forget
<1>seen. seen' \in [Writers -> Rows]
  BY <1>typed, FeastTypes, WriterIs, RowsAre DEF MaterializeRaises, Forget
<1>stale. stale' \in [Writers -> BOOLEAN]
  BY <1>typed, FeastTypes, WriterIs DEF MaterializeRaises
<1>stages. \A w \in Writers :
           stage'[w] \in IF w \in Appliers THEN ApplierStages ELSE MaterializerStages
  BY <1>typed, FeastTypes, WriterIs
     DEF FeastTypeOK, MaterializeRaises, Move, ApplierStages, MaterializerStages
<1> QED BY <1>typed, <1>stage, <1>feastFaults, <1>target, <1>obj, <1>seen, <1>stale, <1>stages
     DEF FeastTypeOK, MaterializeRaises, feastHistory

LEMMA MaterializeEndsType ==
  ASSUME FeastAssumption, FeastInv, NEW m \in Materializers, MaterializeEnds(m)
  PROVE  FeastTypeOK'
<1> USE FeastAssumption
<1>typed. FeastTypeOK
  BY DEF FeastInv
<1>stage. stage' \in [Writers -> ApplierStages \cup MaterializerStages]
  BY <1>typed, FeastTypes, WriterIs DEF MaterializeEnds, Move, ApplierStages, MaterializerStages
<1>sent. sent' \in [Materializers -> SUBSET {"START", "COMPLETE", "FAIL"}]
  BY <1>typed, FeastTypes, WriterIs DEF MaterializeEnds, Emit, EmitEnd
<1>feastFaults. feastFaults' \in 0 .. MaxFeastFaults
  BY <1>typed, FeastTypes, WriterIs DEF MaterializeEnds, Fault, FeastAssumption, Emit, EmitEnd
<1>stages. \A w \in Writers :
           stage'[w] \in IF w \in Appliers THEN ApplierStages ELSE MaterializerStages
  BY <1>typed, FeastTypes, WriterIs
     DEF FeastTypeOK, MaterializeEnds, Move, ApplierStages, MaterializerStages
<1> QED BY <1>typed, <1>stage, <1>sent, <1>feastFaults, <1>stages
     DEF FeastTypeOK, MaterializeEnds, feastHistory

LEMMA MaterializerKilledType ==
  ASSUME FeastAssumption, FeastInv, NEW m \in Materializers, MaterializerKilled(m)
  PROVE  FeastTypeOK'
<1> USE FeastAssumption
<1>typed. FeastTypeOK
  BY DEF FeastInv
<1>stage. stage' \in [Writers -> ApplierStages \cup MaterializerStages]
  BY <1>typed, FeastTypes, WriterIs DEF MaterializerKilled, Move, ApplierStages, MaterializerStages
<1>feastFaults. feastFaults' \in 0 .. MaxFeastFaults
  BY <1>typed, FeastTypes, WriterIs DEF MaterializerKilled, Fault, FeastAssumption
<1>target. target' \in [Writers -> Objects \cup {None}]
  BY <1>typed, FeastTypes, WriterIs, RowsAre DEF MaterializerKilled, Forget
<1>obj. obj' \in [Writers -> Rows]
  BY <1>typed, FeastTypes, WriterIs, RowsAre DEF MaterializerKilled, Forget
<1>seen. seen' \in [Writers -> Rows]
  BY <1>typed, FeastTypes, WriterIs, RowsAre DEF MaterializerKilled, Forget
<1>stale. stale' \in [Writers -> BOOLEAN]
  BY <1>typed, FeastTypes, WriterIs DEF MaterializerKilled
<1>stages. \A w \in Writers :
           stage'[w] \in IF w \in Appliers THEN ApplierStages ELSE MaterializerStages
  BY <1>typed, FeastTypes, WriterIs
     DEF FeastTypeOK, MaterializerKilled, Move, ApplierStages, MaterializerStages
<1> QED BY <1>typed, <1>stage, <1>feastFaults, <1>target, <1>obj, <1>seen, <1>stale, <1>stages
     DEF FeastTypeOK, MaterializerKilled, feastHistory

-----------------------------------------------------------------------------
(* What each action is to the other writers. *)

LEMMA ListEntitiesKeeps ==
  ASSUME FeastAssumption, FeastTypeOK, NEW a \in Appliers, ListEntities(a)
  PROVE  Keeps(a)
BY FeastTypes, WriterIs DEF ListEntities, Keeps, Spares, Kept, Apart, Move

LEMMA ListViewsKeeps ==
  ASSUME FeastAssumption, FeastTypeOK, NEW a \in Appliers, ListViews(a)
  PROVE  Keeps(a)
BY FeastTypes, WriterIs DEF ListViews, Keeps, Spares, Kept, Apart, Move, feastHistory

LEMMA ApplySelectKeeps ==
  ASSUME FeastAssumption, FeastTypeOK, NEW a \in Appliers, ApplySelect(a)
  PROVE  Keeps(a)
BY FeastTypes, WriterIs DEF ApplySelect, Keeps, Spares, Kept, Apart, Select, Finished

(* Items of phase 5 come last, so what DropRows drops is deleted by then. *)
LEMMA DropRowsSpares ==
  ASSUME FeastTypeOK, NEW a \in Appliers, DropRows(a)
  PROVE  Spares
<1>1. PICK i \in todo[a] :
        /\ Turn(a, i) /\ i.phase = 5
        /\ LET rows == {row \in online : row[1] = i.name}
               deleted == \A j \in todo[a] : j.name = i.name => j.phase \notin Delete
               back == Exists(i.name) \/ \E w \in Writers : target[w] = i.name
           IN  /\ online' = online \ rows
               /\ swept' = IF deleted /\ back THEN swept \cup rows ELSE swept
  BY Zenon DEF DropRows
<1>2. \A j \in todo[a] : j.phase \notin Delete
  <2>1. \A j \in todo[a] : 5 <= j.phase
    BY <1>1 DEF Turn
  <2> QED BY <2>1 DEF Delete
<1>3. CASE Exists(i.name) \/ \E w \in Writers : target[w] = i.name
  <2>1. swept' = swept \cup {row \in online : row[1] = i.name}
    BY <1>1, <1>2, <1>3
  <2>2. Kept \subseteq Kept'
    BY <1>1, <2>1 DEF Kept
  <2> QED BY <2>2 DEF Spares
<1>4. CASE ~(Exists(i.name) \/ \E w \in Writers : target[w] = i.name)
  <2>1. Unused(i.name) /\ swept' = swept
    BY <1>1, <1>4 DEF Unused
  <2>2. ASSUME NEW v \in Views, NEW m \in Materializers, <<v, m>> \in Kept, v # i.name
        PROVE  <<v, m>> \in Kept'
    <3>1. <<v, m>>[1] # i.name
      BY <2>2
    <3> QED BY <3>1, <2>1, <2>2, <1>1 DEF Kept
  <2> QED BY <2>1, <2>2 DEF Spares
<1> QED BY <1>3, <1>4

LEMMA DropRowsKeeps ==
  ASSUME FeastAssumption, FeastTypeOK, NEW a \in Appliers, DropRows(a)
  PROVE  Keeps(a)
BY FeastTypes, WriterIs, DropRowsSpares DEF DropRows, Keeps, Apart, Finished

LEMMA ApplyDoneKeeps ==
  ASSUME FeastAssumption, FeastTypeOK, NEW a \in Appliers, ApplyDone(a)
  PROVE  Keeps(a)
BY FeastTypes, WriterIs DEF ApplyDone, Keeps, Spares, Kept, Apart, Move, feastHistory

LEMMA ApplyFailsKeeps ==
  ASSUME FeastAssumption, FeastTypeOK, NEW a \in Appliers, ApplyFails(a)
  PROVE  Keeps(a)
BY FeastTypes, WriterIs DEF ApplyFails, Keeps, Spares, Kept, Apart, Move, Forget, feastHistory

LEMMA ListToMaterializeKeeps ==
  ASSUME FeastAssumption, FeastTypeOK, NEW m \in Materializers, ListToMaterialize(m)
  PROVE  Keeps(m)
BY FeastTypes, WriterIs DEF ListToMaterialize, Keeps, Spares, Kept, Apart, Move, feastHistory

LEMMA EmitStartKeeps ==
  ASSUME FeastAssumption, FeastTypeOK, NEW m \in Materializers, EmitStart(m)
  PROVE  Keeps(m)
BY FeastTypes, WriterIs DEF EmitStart, Keeps, Spares, Kept, Apart, Move, Emit, feastHistory

LEMMA WriteOnlineKeeps ==
  ASSUME FeastAssumption, FeastTypeOK, NEW m \in Materializers, WriteOnline(m)
  PROVE  Keeps(m)
BY FeastTypes, WriterIs DEF WriteOnline, Keeps, Spares, Kept, Apart, Move, feastHistory

LEMMA GetViewKeeps ==
  ASSUME FeastAssumption, FeastTypeOK, NEW m \in Materializers, GetView(m)
  PROVE  Keeps(m)
BY FeastTypes, WriterIs DEF GetView, Keeps, Spares, Kept, Apart, Move, feastHistory

LEMMA MaterializeSelectKeeps ==
  ASSUME FeastAssumption, FeastTypeOK, NEW m \in Materializers, MaterializeSelect(m)
  PROVE  Keeps(m)
BY FeastTypes, WriterIs DEF MaterializeSelect, Keeps, Spares, Kept, Apart, Move, Select, feastHistory

LEMMA MaterializeRaisesKeeps ==
  ASSUME FeastAssumption, FeastTypeOK, NEW m \in Materializers, MaterializeRaises(m)
  PROVE  Keeps(m)
BY FeastTypes, WriterIs DEF MaterializeRaises, Keeps, Spares, Kept, Apart, Move, Forget, feastHistory

LEMMA MaterializeEndsKeeps ==
  ASSUME FeastAssumption, FeastTypeOK, NEW m \in Materializers, MaterializeEnds(m)
  PROVE  Keeps(m)
BY FeastTypes, WriterIs DEF MaterializeEnds, Keeps, Spares, Kept, Apart, Move, Emit, EmitEnd, feastHistory

LEMMA MaterializerKilledKeeps ==
  ASSUME FeastAssumption, FeastTypeOK, NEW m \in Materializers, MaterializerKilled(m)
  PROVE  Keeps(m)
BY FeastTypes, WriterIs DEF MaterializerKilled, Keeps, Spares, Kept, Apart, Move, Forget, feastHistory

LEMMA ApplyStorePuts ==
  ASSUME FeastAssumption, FeastTypeOK, NEW a \in Appliers, ApplyStore(a),
         target[a] \in Objects
  PROVE  Puts(a, target[a])
BY FeastTypes, WriterIs DEF ApplyStore, Puts, Kept, Apart, Store, Outdates, Disturbs, Forget, Finished

LEMMA MaterializeStorePuts ==
  ASSUME FeastAssumption, FeastTypeOK, NEW m \in Materializers, MaterializeStore(m),
         target[m] \in Objects
  PROVE  Puts(m, target[m])
BY FeastTypes, WriterIs DEF MaterializeStore, Puts, Kept, Apart, Store, Outdates, Disturbs, Forget, Move

LEMMA ApplyDeletePuts ==
  ASSUME FeastAssumption, FeastTypeOK, NEW a \in Appliers, NEW o \in Objects,
         ApplyDelete(a), registry' = [registry EXCEPT ![o] = NoRow],
         sequential' = [sequential EXCEPT ![o] = NoRow], Outdates(a, o), Finished(a, o, Delete)
  PROVE  Puts(a, o)
BY FeastTypes, WriterIs DEF ApplyDelete, Puts, Kept, Apart, Outdates, Disturbs, Finished

LEMMA OtherAppliersKeep ==
  ASSUME FeastAssumption, FeastInv, NEW w \in Writers, NEW a \in Appliers \ {w},
         Keeps(w) \/ \E o \in Objects : Puts(w, o)
  PROVE  ApplierInv(a)'
<1> USE FeastAssumption
<1>typed. FeastTypeOK /\ a \in Writers
  BY WriterIs DEF FeastInv
<1>inv. ApplierInv(a)
  BY DEF FeastInv
<1>same. /\ stage'[a] = stage[a] /\ target'[a] = target[a] /\ obj'[a] = obj[a]
         /\ seen'[a] = seen[a] /\ todo'[a] = todo[a] /\ repo' = repo
  BY <1>typed DEF Keeps, Puts, Apart
<1>wanted. /\ Wanted(a)' = Wanted(a)
           /\ \A o : Declared(a, o)' = Declared(a, o)
           /\ \A o : Due(a, o)' = Due(a, o)
  BY <1>same DEF Wanted, Declared, Due
<1>kept. CASE Keeps(w)
  <2>1. registry' = registry /\ stale'[a] = stale[a] /\ alone'[a] = alone[a]
    BY <1>kept, <1>typed DEF Keeps
  <2>2. \A o : Right(a, o)' = Right(a, o)
    BY <2>1, <1>wanted DEF Right
  <2>3. seen[a] \in Rows
    BY <1>typed, FeastTypes
  <2>4. ASSUME target[a] # None, target[a] \in Views, NEW m \in seen[a].intervals
        PROVE  <<target[a], m>> \in Kept'
    <3>1. <<target[a], m>> \in Kept
      BY <2>4, <1>inv DEF ApplierInv
    <3>3. m \in Materializers
      BY <2>4, <2>3 DEF Rows, Row, NoRow
    <3>2. ~Unused(target[a])
      BY <1>typed DEF Unused
    <3> QED BY <3>1, <3>2, <3>3, <2>4, <1>kept DEF Keeps, Spares
  <2> QED BY <2>1, <2>2, <2>4, <1>inv, <1>same, <1>wanted DEF ApplierInv
<1>put. ASSUME NEW o \in Objects, Puts(w, o)
        PROVE  ApplierInv(a)'
  <2>1. \A p \in Objects \ {o} : registry'[p] = registry[p]
    BY <1>put DEF Puts
  <2>2. stale'[a] = (stale[a] \/ target[a] = o) /\ ~alone'[a]
    BY <1>put, <1>typed DEF Puts
  <2>3. (target[a] # None => target[a] \in Objects) /\ Kept' = Kept
    BY <1>put, <1>typed, FeastTypes DEF Puts
  <2> QED BY <2>1, <2>2, <2>3, <1>inv, <1>same, <1>wanted DEF ApplierInv
<1> QED BY <1>kept, <1>put

LEMMA OtherMaterializersKeep ==
  ASSUME FeastAssumption, FeastInv, NEW w \in Writers, NEW m \in Materializers \ {w},
         Keeps(w) \/ \E o \in Objects : Puts(w, o)
  PROVE  MaterializerInv(m)' /\ ReportInv(m)'
<1> USE FeastAssumption
<1>typed. FeastTypeOK /\ m \in Writers
  BY WriterIs DEF FeastInv
<1>inv. MaterializerInv(m) /\ ReportInv(m)
  BY DEF FeastInv
<1>same. /\ stage'[m] = stage[m] /\ target'[m] = target[m] /\ obj'[m] = obj[m]
         /\ seen'[m] = seen[m] /\ sent'[m] = sent[m] /\ left'[m] = left[m] /\ runId'[m] = runId[m]
  BY <1>typed DEF Keeps, Puts, Apart
<1>report. ReportInv(m)'
  BY <1>inv, <1>same DEF ReportInv
<1>kept. CASE Keeps(w)
  <2>1. registry' = registry /\ stale'[m] = stale[m]
    BY <1>kept, <1>typed DEF Keeps
  <2>2. ASSUME target[m] \in Views, NEW n \in Materializers, <<target[m], n>> \in Kept
        PROVE  <<target[m], n>> \in Kept'
    <3>1. ~Unused(target[m])
      BY <1>typed DEF Unused
    <3> QED BY <3>1, <2>2, <1>kept DEF Keeps, Spares
  <2>3. obj[m] \in Rows /\ seen[m] \in Rows
    BY <1>typed, FeastTypes
  <2>4. obj[m].intervals \subseteq Materializers /\ seen[m].intervals \subseteq Materializers
    BY <2>3 DEF Rows, Row, NoRow
  <2> QED BY <2>1, <2>2, <2>4, <1>inv, <1>same, <1>report DEF MaterializerInv, Exists
<1>put. ASSUME NEW o \in Objects, Puts(w, o)
        PROVE  MaterializerInv(m)'
  <2>1. \A p \in Objects \ {o} : registry'[p] = registry[p]
    BY <1>put DEF Puts
  <2>2. stale'[m] = (stale[m] \/ target[m] = o)
    BY <1>put, <1>typed DEF Puts
  <2>3. (stage[m] \in {"select", "update"} => target[m] \in Objects) /\ Kept' = Kept
    BY <1>put, <1>inv DEF MaterializerInv, Objects, Puts
  <2> QED BY <2>1, <2>2, <2>3, <1>inv, <1>same DEF MaterializerInv, Exists
<1> QED BY <1>kept, <1>put, <1>report

-----------------------------------------------------------------------------
(* What a step of an apply means to itself. *)

LEMMA WhatIsNotStored ==
  ASSUME NEW a \in Appliers, NEW o \in Objects, o \notin Wanted(a), ~Exists(o)
  PROVE  Right(a, o)
BY DEF Right, Exists, NoRow

LEMMA ListEntitiesOwn ==
  ASSUME FeastAssumption, FeastInv, NEW a \in Appliers, ListEntities(a)
  PROVE  ApplierInv(a)'
<1> USE FeastAssumption
<1>typed. FeastTypeOK /\ a \in Writers
  BY WriterIs DEF FeastInv
<1>inv. ApplierInv(a)
  BY DEF FeastInv
<1> DEFINE wanted == {[phase |-> 2, name |-> e] : e \in Wanted(a) \cap Entities}
           unwanted == {[phase |-> 3, name |-> e] : e \in {f \in Entities : Exists(f)} \ Wanted(a)}
<1>todo. todo'[a] = wanted \cup unwanted
  BY <1>typed, FeastTypes DEF ListEntities
<1>now. /\ stage[a] = "list entities" /\ stage'[a] = "list views" /\ alone'[a]
        /\ registry' = registry /\ repo' = repo /\ target' = target
  BY <1>typed, FeastTypes DEF ListEntities, Move
<1>declared. Wanted(a)' = Wanted(a) /\ \A o : Declared(a, o)' = Declared(a, o)
  BY <1>now DEF Wanted, Declared
<1>same. Wanted(a)' = Wanted(a) /\ \A o : Right(a, o)' = Right(a, o)
  BY <1>now, <1>declared DEF Right
<1>1. \A i \in todo'[a] : i.phase <= 2 <=> i.name \in Wanted(a)
  BY <1>todo
<1>2. target'[a] = None
  BY <1>now, <1>inv DEF ApplierInv
<1>3. ASSUME NEW e \in Entities
      PROVE  Right(a, e) \/ \E i \in todo'[a] : i.name = e /\ i.phase # 5
  <2>1. CASE e \in Wanted(a)
    <3>1. [phase |-> 2, name |-> e] \in todo'[a]
      BY <2>1, <1>todo
    <3> QED BY <3>1
  <2>2. CASE e \notin Wanted(a) /\ Exists(e)
    <3>1. [phase |-> 3, name |-> e] \in todo'[a]
      BY <2>2, <1>todo
    <3> QED BY <3>1
  <2>3. CASE e \notin Wanted(a) /\ ~Exists(e)
    BY <2>3, WhatIsNotStored DEF Objects
  <2> QED BY <2>1, <2>2, <2>3
<1> QED BY <1>1, <1>2, <1>3, <1>same, <1>now DEF ApplierInv, Due

LEMMA ListViewsOwn ==
  ASSUME FeastAssumption, FeastInv, NEW a \in Appliers, ListViews(a)
  PROVE  ApplierInv(a)'
<1> USE FeastAssumption
<1>typed. FeastTypeOK /\ a \in Writers
  BY WriterIs DEF FeastInv
<1>inv. ApplierInv(a)
  BY DEF FeastInv
<1> DEFINE wanted == {[phase |-> 1, name |-> v] : v \in Wanted(a) \cap Views}
           unwanted == [phase : {4, 5}, name : {u \in Views : Exists(u)} \ Wanted(a)]
<1>todo. todo'[a] = todo[a] \cup wanted \cup unwanted
  BY <1>typed, FeastTypes DEF ListViews
<1>now. /\ stage[a] = "list views" /\ stage'[a] = "apply" /\ alone' = alone
        /\ registry' = registry /\ repo' = repo /\ target' = target
  BY <1>typed, FeastTypes DEF ListViews, Move, feastHistory
<1>declared. Wanted(a)' = Wanted(a) /\ \A o : Declared(a, o)' = Declared(a, o)
  BY <1>now DEF Wanted, Declared
<1>same. Wanted(a)' = Wanted(a) /\ \A o : Right(a, o)' = Right(a, o)
  BY <1>now, <1>declared DEF Right
<1>1. \A i \in todo'[a] : i.phase <= 2 <=> i.name \in Wanted(a)
  <2>1. \A i \in wanted : i.phase = 1 /\ i.name \in Wanted(a)
    OBVIOUS
  <2>2. \A i \in unwanted : i.phase \in {4, 5} /\ i.name \notin Wanted(a)
    OBVIOUS
  <2>3. \A i \in todo[a] : i.phase <= 2 <=> i.name \in Wanted(a)
    BY <1>inv DEF ApplierInv
  <2> HIDE DEF wanted, unwanted
  <2> QED BY <2>1, <2>2, <2>3, <1>todo
<1>2. target'[a] = None
  BY <1>now, <1>inv DEF ApplierInv
<1>3. ASSUME NEW v \in Views
      PROVE  Right(a, v) \/ \E i \in todo'[a] : i.name = v /\ i.phase # 5
  <2>1. CASE v \in Wanted(a)
    <3>1. [phase |-> 1, name |-> v] \in todo'[a]
      BY <2>1, <1>todo
    <3> QED BY <3>1
  <2>2. CASE v \notin Wanted(a) /\ Exists(v)
    <3>1. [phase |-> 4, name |-> v] \in todo'[a]
      BY <2>2, <1>todo
    <3> QED BY <3>1
  <2>3. CASE v \notin Wanted(a) /\ ~Exists(v)
    BY <2>3, WhatIsNotStored DEF Objects
  <2> QED BY <2>1, <2>2, <2>3
<1>4. alone[a] => \A e \in Entities : Right(a, e) \/ \E i \in todo'[a] : i.name = e /\ i.phase # 5
  BY <1>inv, <1>now, <1>todo DEF ApplierInv, Due
<1>5. alone[a] => \A o \in Objects : Right(a, o) \/ \E i \in todo'[a] : i.name = o /\ i.phase # 5
  BY <1>3, <1>4 DEF Objects
<1> QED BY <1>1, <1>2, <1>5, <1>same, <1>now DEF ApplierInv, Due

(* An item is finished when its object is right. *)
LEMMA FinishedItem ==
  ASSUME FeastTypeOK, NEW a \in Appliers, NEW name, NEW phases, Finished(a, name, phases)
  PROVE  /\ \A i \in todo'[a] : i \in todo[a]
         /\ \A i \in todo[a] : i.name # name \/ i.phase \notin phases => i \in todo'[a]
BY FeastTypes DEF Finished

LEMMA ApplySelectOwn ==
  ASSUME FeastAssumption, FeastInv, NEW a \in Appliers, ApplySelect(a)
  PROVE  ApplierInv(a)'
<1> USE FeastAssumption
<1>typed. FeastTypeOK /\ a \in Writers
  BY WriterIs DEF FeastInv
<1>inv. ApplierInv(a)
  BY DEF FeastInv
<1>now. /\ stage' = stage /\ alone' = alone /\ registry' = registry /\ repo' = repo /\ Kept' = Kept
  BY DEF ApplySelect, Kept
<1>same. /\ Wanted(a)' = Wanted(a) /\ \A o : Right(a, o)' = Right(a, o)
         /\ \A o : Declared(a, o)' = Declared(a, o)
  BY <1>now DEF Wanted, Declared, Right
<1>1. PICK i \in todo[a] :
        /\ Turn(a, i) /\ i.phase <= 2
        /\ \/ /\ Select(a, i.name, Declared(a, i.name))
              /\ stale' = [stale EXCEPT ![a] = FALSE]
              /\ UNCHANGED <<todo, sequential>>
           \/ /\ registry[i.name] = Declared(a, i.name)
              /\ Finished(a, i.name, {1, 2})
              /\ UNCHANGED <<target, obj, seen, stale, sequential>>
  BY DEF ApplySelect
<1>2. i.name \in Wanted(a) /\ i.name \in Objects
  BY <1>1, <1>inv, <1>typed, DeclaredIsRow DEF ApplierInv
<1>3. stage[a] = "apply" /\ target[a] = None
  BY <1>1 DEF Turn
<1>4. CASE /\ Select(a, i.name, Declared(a, i.name))
           /\ stale' = [stale EXCEPT ![a] = FALSE]
           /\ UNCHANGED <<todo, sequential>>
  <2>1. /\ target'[a] = i.name /\ obj'[a] = Declared(a, i.name) /\ seen'[a] = registry[i.name]
        /\ todo' = todo /\ ~stale'[a]
    BY <1>4, <1>typed, FeastTypes DEF Select
  <2>2. \A m \in seen'[a].intervals : i.name \in Views => <<i.name, m>> \in Kept
    BY <2>1 DEF FeastInv, RecordedIsOnline, Kept
  <2>3. \A o : Due(a, o)' = Due(a, o)
    BY <2>1 DEF Due
  <2>4. Due(a, i.name)
    BY <1>1 DEF Due
  <2> QED BY <2>1, <2>2, <2>3, <2>4, <1>2, <1>3, <1>inv, <1>now, <1>same DEF ApplierInv
<1>5. CASE /\ registry[i.name] = Declared(a, i.name)
           /\ Finished(a, i.name, {1, 2})
           /\ UNCHANGED <<target, obj, seen, stale, sequential>>
  <2>1. Right(a, i.name)
    BY <1>5, <1>2 DEF Right
  <2>2. /\ \A j \in todo'[a] : j \in todo[a]
        /\ \A j \in todo[a] : j.name # i.name => j \in todo'[a]
    BY <1>5, <1>typed, FinishedItem
  <2>3. target'[a] = None
    BY <1>5, <1>3
  <2>4. \A o \in Objects : Right(a, o) \/ Due(a, o) => Right(a, o) \/ Due(a, o)'
    BY <2>1, <2>2 DEF Due
  <2> QED BY <2>2, <2>3, <2>4, <1>3, <1>inv, <1>now, <1>same DEF ApplierInv
<1> QED BY <1>1, <1>4, <1>5

LEMMA ApplyStoreOwn ==
  ASSUME FeastAssumption, FeastInv, NEW a \in Appliers, ApplyStore(a)
  PROVE  ApplierInv(a)'
<1> USE FeastAssumption
<1> DEFINE o == target[a]
<1>typed. FeastTypeOK /\ a \in Writers
  BY WriterIs DEF FeastInv
<1>inv. ApplierInv(a)
  BY DEF FeastInv
<1>now. /\ stage' = stage /\ stage[a] = "apply" /\ repo' = repo /\ target'[a] = None
        /\ alone'[a] => alone[a]
  BY <1>typed, FeastTypes DEF ApplyStore, Store, Disturbs, Forget
<1>own. o # None /\ o \in Wanted(a) /\ obj[a] = Declared(a, o) /\ o \in Objects
  BY <1>inv, <1>typed, FeastTypes DEF ApplierInv, ApplyStore
<1>same. Wanted(a)' = Wanted(a) /\ \A p : Declared(a, p)' = Declared(a, p)
  BY <1>now DEF Wanted, Declared
<1>1. /\ \A j \in todo'[a] : j \in todo[a]
      /\ \A j \in todo[a] : j.name # o => j \in todo'[a]
  BY <1>typed, FinishedItem DEF ApplyStore
<1>2. \A p \in Objects \ {o} : registry'[p] = registry[p]
  BY <1>typed, FeastTypes DEF ApplyStore, Store
<1>3. alone[a] => registry'[o].entity = Declared(a, o).entity
  <2>1. SUFFICES ASSUME alone[a]
                 PROVE  registry'[o].entity = Declared(a, o).entity
    OBVIOUS
  <2>2. seen[a] = registry[o]
    BY <2>1, <1>own, <1>inv DEF ApplierInv
  <2>3. registry'[o] = IF seen[a] = NoRow THEN obj[a] ELSE Merge(obj[a], seen[a])
    BY <2>2, <1>own, <1>typed, FeastTypes DEF ApplyStore, Store, Exists
  <2>4. obj[a] \in Row
    BY <1>own, <1>typed, DeclaredIsRow
  <2>5. Merge(obj[a], seen[a]).entity = obj[a].entity
    BY <2>4 DEF Merge, Row
  <2> QED BY <2>3, <2>5, <1>own
<1>4. \A p \in Objects : alone[a] /\ (Right(a, p) \/ Due(a, p)) => (Right(a, p) \/ Due(a, p))'
  BY <1>1, <1>2, <1>3, <1>own, <1>same DEF Right, Due
<1> QED BY <1>1, <1>4, <1>now, <1>same, <1>inv DEF ApplierInv

LEMMA ApplyDeleteOwn ==
  ASSUME FeastAssumption, FeastInv, NEW a \in Appliers, ApplyDelete(a)
  PROVE  ApplierInv(a)'
<1> USE FeastAssumption
<1>typed. FeastTypeOK /\ a \in Writers
  BY WriterIs DEF FeastInv
<1>inv. ApplierInv(a)
  BY DEF FeastInv
<1>1. PICK i \in todo[a] :
        /\ Turn(a, i) /\ i.phase \in Delete
        /\ registry' = [registry EXCEPT ![i.name] = NoRow]
        /\ Disturbs(a) /\ Finished(a, i.name, Delete)
  BY DEF ApplyDelete
<1>2. i \in Item
  BY <1>typed, FeastTypes
<1>3. i.name \in Objects /\ i.name \notin Wanted(a)
  <2>1. i.name \in Objects
    BY <1>2 DEF Item
  <2>2. i.phase <= 2 <=> i.name \in Wanted(a)
    BY <1>inv DEF ApplierInv
  <2>4. ~(i.phase <= 2)
    BY <1>1 DEF Delete
  <2> QED BY <2>1, <2>2, <2>4
<1>now. /\ stage' = stage /\ stage[a] = "apply" /\ repo' = repo /\ target' = target /\ target[a] = None
        /\ alone'[a] = alone[a]
  BY <1>1, <1>typed, FeastTypes DEF ApplyDelete, Disturbs, Turn
<1>same. Wanted(a)' = Wanted(a) /\ \A p : Declared(a, p)' = Declared(a, p)
  BY <1>now DEF Wanted, Declared
<1>4. /\ \A j \in todo'[a] : j \in todo[a]
      /\ \A j \in todo[a] : j.name # i.name => j \in todo'[a]
  BY <1>1, <1>typed, FinishedItem
<1>5. /\ registry'[i.name] = NoRow
      /\ \A p \in Objects \ {i.name} : registry'[p] = registry[p]
  BY <1>1, <1>3, <1>typed, FeastTypes
<1>6. \A p \in Objects : Right(a, p) \/ Due(a, p) => (Right(a, p) \/ Due(a, p))'
  BY <1>3, <1>4, <1>5, <1>same DEF Right, Due, NoRow
<1> QED BY <1>4, <1>6, <1>now, <1>same, <1>inv DEF ApplierInv

LEMMA DropRowsOwn ==
  ASSUME FeastAssumption, FeastInv, NEW a \in Appliers, DropRows(a)
  PROVE  ApplierInv(a)'
<1> USE FeastAssumption
<1>typed. FeastTypeOK /\ a \in Writers
  BY WriterIs DEF FeastInv
<1>inv. ApplierInv(a)
  BY DEF FeastInv
<1>1. PICK i \in todo[a] : Turn(a, i) /\ Finished(a, i.name, {5})
  BY DEF DropRows
<1>now. /\ stage' = stage /\ stage[a] = "apply" /\ repo' = repo /\ target' = target /\ target[a] = None
        /\ alone' = alone /\ registry' = registry
  BY <1>1 DEF DropRows, Turn
<1>same. Wanted(a)' = Wanted(a) /\ \A p : Declared(a, p)' = Declared(a, p)
  BY <1>now DEF Wanted, Declared
<1>2. /\ \A j \in todo'[a] : j \in todo[a]
      /\ \A j \in todo[a] : j.phase # 5 => j \in todo'[a]
  BY <1>1, <1>typed, FinishedItem
<1>3. \A p \in Objects : (Right(a, p) \/ Due(a, p)) => (Right(a, p) \/ Due(a, p))'
  BY <1>2, <1>now, <1>same DEF Right, Due
<1> QED BY <1>2, <1>3, <1>now, <1>same, <1>inv DEF ApplierInv

LEMMA ApplyEndsOwn ==
  ASSUME FeastAssumption, FeastInv, NEW a \in Appliers, ApplyDone(a) \/ ApplyFails(a)
  PROVE  ApplierInv(a)'
<1> USE FeastAssumption
<1>typed. FeastTypeOK /\ a \in Writers
  BY WriterIs DEF FeastInv
<1>inv. ApplierInv(a)
  BY DEF FeastInv
<1>now. /\ registry' = registry /\ repo' = repo /\ todo' = todo /\ alone' = alone
  BY DEF ApplyDone, ApplyFails, feastHistory
<1>same. /\ Wanted(a)' = Wanted(a) /\ \A o : Right(a, o)' = Right(a, o) /\ Due(a, o)' = Due(a, o)
  BY <1>now DEF Wanted, Declared, Right, Due
<1>1. CASE ApplyDone(a)
  <2>1. /\ stage[a] = "apply" /\ stage'[a] = "applied" /\ todo[a] = {} /\ target' = target
    BY <1>1, <1>typed, FeastTypes DEF ApplyDone, Move
  <2>2. target[a] = None
    BY <1>inv, <2>1 DEF ApplierInv, Due
  <2> QED BY <2>1, <2>2, <1>inv, <1>now, <1>same DEF ApplierInv
<1>2. CASE ApplyFails(a)
  <2>1. stage'[a] = "failed" /\ target'[a] = None
    BY <1>2, <1>typed, FeastTypes DEF ApplyFails, Move, Forget
  <2> QED BY <2>1, <1>inv, <1>now, <1>same DEF ApplierInv
<1> QED BY <1>1, <1>2

-----------------------------------------------------------------------------
(* What a step of materialize means to itself. *)

LEMMA ListToMaterializeReports ==
  ASSUME FeastAssumption, FeastInv, NEW m \in Materializers, ListToMaterialize(m)
  PROVE  ReportInv(m)'
<1>typed. FeastTypeOK /\ m \in Writers
  BY WriterIs DEF FeastInv
<1>inv. ReportInv(m)
  BY DEF FeastInv
<1> QED BY <1>typed, <1>inv, FeastTypes DEF ReportInv, ListToMaterialize, Move

LEMMA EmitStartReports ==
  ASSUME FeastAssumption, FeastInv, NEW m \in Materializers, EmitStart(m)
  PROVE  ReportInv(m)'
<1>typed. FeastTypeOK /\ m \in Writers
  BY WriterIs DEF FeastInv
<1>inv. ReportInv(m)
  BY DEF FeastInv
<1> QED BY <1>typed, <1>inv, FeastTypes DEF ReportInv, EmitStart, Move, Emit

LEMMA WriteOnlineReports ==
  ASSUME FeastAssumption, FeastInv, NEW m \in Materializers, WriteOnline(m)
  PROVE  ReportInv(m)'
<1>typed. FeastTypeOK /\ m \in Writers
  BY WriterIs DEF FeastInv
<1>inv. ReportInv(m)
  BY DEF FeastInv
<1> QED BY <1>typed, <1>inv, FeastTypes DEF ReportInv, WriteOnline, Move

LEMMA GetViewReports ==
  ASSUME FeastAssumption, FeastInv, NEW m \in Materializers, GetView(m)
  PROVE  ReportInv(m)'
<1>typed. FeastTypeOK /\ m \in Writers
  BY WriterIs DEF FeastInv
<1>inv. ReportInv(m)
  BY DEF FeastInv
<1> QED BY <1>typed, <1>inv, FeastTypes DEF ReportInv, GetView, Move

LEMMA MaterializeSelectReports ==
  ASSUME FeastAssumption, FeastInv, NEW m \in Materializers, MaterializeSelect(m)
  PROVE  ReportInv(m)'
<1>typed. FeastTypeOK /\ m \in Writers
  BY WriterIs DEF FeastInv
<1>inv. ReportInv(m)
  BY DEF FeastInv
<1> QED BY <1>typed, <1>inv, FeastTypes DEF ReportInv, MaterializeSelect, Move

LEMMA MaterializeStoreReports ==
  ASSUME FeastAssumption, FeastInv, NEW m \in Materializers, MaterializeStore(m)
  PROVE  ReportInv(m)'
<1>typed. FeastTypeOK /\ m \in Writers
  BY WriterIs DEF FeastInv
<1>inv. ReportInv(m)
  BY DEF FeastInv
<1> QED BY <1>typed, <1>inv, FeastTypes DEF ReportInv, MaterializeStore, Move

LEMMA MaterializeRaisesReports ==
  ASSUME FeastAssumption, FeastInv, NEW m \in Materializers, MaterializeRaises(m)
  PROVE  ReportInv(m)'
<1>typed. FeastTypeOK /\ m \in Writers
  BY WriterIs DEF FeastInv
<1>inv. ReportInv(m)
  BY DEF FeastInv
<1> QED BY <1>typed, <1>inv, FeastTypes DEF ReportInv, MaterializeRaises, Move

LEMMA MaterializeEndsReports ==
  ASSUME FeastAssumption, FeastInv, NEW m \in Materializers, MaterializeEnds(m)
  PROVE  ReportInv(m)'
<1>typed. FeastTypeOK /\ m \in Writers
  BY WriterIs DEF FeastInv
<1>inv. ReportInv(m)
  BY DEF FeastInv
<1> QED BY <1>typed, <1>inv, FeastTypes DEF ReportInv, MaterializeEnds, Move, EmitEnd, Emit

LEMMA MaterializerKilledReports ==
  ASSUME FeastAssumption, FeastInv, NEW m \in Materializers, MaterializerKilled(m)
  PROVE  ReportInv(m)'
<1>typed. FeastTypeOK /\ m \in Writers
  BY WriterIs DEF FeastInv
<1>inv. ReportInv(m)
  BY DEF FeastInv
<1> QED BY <1>typed, <1>inv, FeastTypes DEF ReportInv, MaterializerKilled, Move

LEMMA MaterializeOwn ==
  ASSUME FeastAssumption, FeastInv, NEW m \in Materializers, Materialize(m)
  PROVE  MaterializerInv(m)'
<1> USE FeastAssumption
<1>typed. FeastTypeOK /\ m \in Writers
  BY WriterIs DEF FeastInv
<1>inv. MaterializerInv(m)
  BY DEF FeastInv
<1>0. CASE stage'[m] \notin {"get", "select", "update"}
  BY <1>0 DEF MaterializerInv
<1>1. CASE WriteOnline(m)
  <2>1. PICK v \in left[m] : <<v, m>> \in Kept' /\ target' = [target EXCEPT ![m] = v]
    BY <1>1 DEF WriteOnline, Kept
  <2>2. v \in Views /\ stage'[m] = "get"
    BY <1>1, <1>typed, FeastTypes DEF WriteOnline, Move
  <2>3. target'[m] = v
    BY <2>1, <1>typed, FeastTypes
  <2> QED BY <2>1, <2>2, <2>3 DEF MaterializerInv
<1>2. CASE GetView(m)
  <2> DEFINE v == target[m]
  <2>1. /\ stage[m] = "get" /\ stage'[m] = "select" /\ target' = target /\ registry' = registry
        /\ Kept' = Kept /\ obj'[m] = With(m, registry[v]) /\ Exists(v)
    BY <1>2, <1>typed, FeastTypes DEF GetView, Move, Kept, feastHistory
  <2>2. v \in Views /\ <<v, m>> \in Kept /\ v \in Objects
    BY <2>1, <1>inv DEF MaterializerInv, Objects
  <2>3. registry[v] \in Row
    BY <2>1, <2>2, <1>typed, FeastTypes DEF Exists, Rows
  <2>4. obj'[m] \in Row /\ obj'[m].intervals = registry[v].intervals \cup {m}
    BY <2>1, <2>3, IntervalsOfRow DEF With, Row
  <2>5. \A n \in registry[v].intervals : <<v, n>> \in Kept
    BY <2>2 DEF FeastInv, RecordedIsOnline, Kept
  <2> QED BY <2>1, <2>2, <2>4, <2>5 DEF MaterializerInv, Exists
<1>3. CASE MaterializeSelect(m)
  <2> DEFINE v == target[m]
  <2>1. /\ stage[m] = "select" /\ stage'[m] = "update" /\ registry' = registry
        /\ Kept' = Kept /\ stale' = stale
        /\ target'[m] = v /\ obj'[m] = obj[m] /\ seen'[m] = registry[v]
    BY <1>3, <1>typed, FeastTypes DEF MaterializeSelect, Move, Select, Kept, feastHistory
  <2>2. v \in Views
    BY <2>1, <1>inv DEF MaterializerInv
  <2>3. \A n \in registry[v].intervals : <<v, n>> \in Kept
    BY <2>2 DEF FeastInv, RecordedIsOnline, Kept
  <2> QED BY <2>1, <2>2, <2>3, <1>inv DEF MaterializerInv, Exists
<1>4. CASE ListToMaterialize(m) \/ EmitStart(m) \/ MaterializeStore(m) \/ MaterializeRaises(m)
           \/ MaterializeEnds(m) \/ MaterializerKilled(m)
  <2>1. stage'[m] \in {"start", "write", "fail", "done", "failed"}
    BY <1>4, <1>typed, FeastTypes DEF ListToMaterialize, EmitStart, MaterializeStore,
       MaterializeRaises, MaterializeEnds, MaterializerKilled, Move
  <2> QED BY <2>1, <1>0
<1> QED BY <1>1, <1>2, <1>3, <1>4 DEF Materialize

-----------------------------------------------------------------------------
(* What a step means to the rows. *)

LEMMA KeepsRows ==
  ASSUME FeastInv, NEW w \in Writers, Keeps(w)
  PROVE  UnracedRowsAreSequential' /\ RecordedIsOnline'
<1>1. UnracedRowsAreSequential'
  BY DEF FeastInv, Keeps, UnracedRowsAreSequential
<1>2. ASSUME NEW v \in Views, NEW m \in registry'[v].intervals
      PROVE  <<v, m>> \in Kept'
  <2>1. v \in Objects /\ registry[v] \in Rows /\ m \in registry[v].intervals
    BY <1>2, FeastTypes DEF Keeps, FeastInv, Objects
  <2>2. Exists(v) /\ m \in Materializers
    BY <2>1 DEF Exists, Rows, Row, NoRow
  <2>3. <<v, m>> \in Kept
    BY <2>1 DEF FeastInv, RecordedIsOnline, Kept
  <2> QED BY <2>2, <2>3 DEF Keeps, Spares, Unused
<1> QED BY <1>1, <1>2 DEF RecordedIsOnline, Kept

(* The row a writer stores has no interval that was never online. *)
LEMMA PutsOnline ==
  ASSUME FeastInv, NEW w \in Writers, NEW o \in Objects, Puts(w, o),
         o \in Views => \A n \in registry'[o].intervals : <<o, n>> \in Kept
  PROVE  RecordedIsOnline'
<1>1. ASSUME NEW v \in Views, NEW n \in registry'[v].intervals
      PROVE  <<v, n>> \in Kept'
  <2>1. Kept' = Kept /\ (v # o => registry'[v] = registry[v])
    BY DEF Puts, Objects
  <2>2. \A m \in registry[v].intervals : <<v, m>> \in Kept
    BY DEF FeastInv, RecordedIsOnline, Kept
  <2> QED BY <2>1, <2>2, <1>1
<1> QED BY <1>1 DEF RecordedIsOnline, Kept

(* The row a writer stores is the sequential one if its reading was not    *)
(* stale.                                                                  *)
LEMMA PutsSequential ==
  ASSUME FeastInv, NEW w \in Writers, NEW o \in Objects, Puts(w, o),
     raced \subseteq raced' \cup {o},
         o \notin raced' => registry'[o] = sequential'[o]
  PROVE  UnracedRowsAreSequential'
BY DEF FeastInv, Puts, UnracedRowsAreSequential

LEMMA MergeIs ==
  ASSUME NEW new \in Row, NEW old \in Rows
  PROVE  /\ Merge(new, old).entity = new.entity
         /\ new.intervals = {} => Merge(new, old) = WithEntity(new.entity, old)
         /\ Merge(new, old).intervals \subseteq new.intervals \cup old.intervals
BY DEF Merge, WithEntity, Row, Rows, NoRow

LEMMA ApplyStoreRows ==
  ASSUME FeastAssumption, FeastInv, NEW a \in Appliers, ApplyStore(a)
  PROVE  /\ UnracedRowsAreSequential' /\ RecordedIsOnline'
         /\ \E o \in Objects : Puts(a, o)
<1> USE FeastAssumption
<1> DEFINE o == target[a]
<1>typed. FeastTypeOK /\ a \in Writers
  BY WriterIs DEF FeastInv
<1>inv. ApplierInv(a)
  BY DEF FeastInv
<1>own. /\ o \in Wanted(a) /\ obj[a] = Declared(a, o)
        /\ ~stale[a] => seen[a] = registry[o]
        /\ \A m \in seen[a].intervals : o \in Views => <<o, m>> \in Kept
  BY <1>inv DEF ApplierInv, ApplyStore
<1>row. o \in Objects /\ obj[a] \in Row /\ obj[a].intervals = {} /\ seen[a] \in Rows
  BY <1>own, <1>typed, DeclaredIsRow, FeastTypes
<1>puts. Puts(a, o)
  BY <1>typed, <1>row, ApplyStorePuts
<1>new. registry'[o] = IF seen[a] # NoRow /\ ~Exists(o) THEN NoRow
                       ELSE IF seen[a] = NoRow THEN obj[a] ELSE Merge(obj[a], seen[a])
  BY <1>typed, <1>row, FeastTypes DEF ApplyStore, Store
<1>1. RecordedIsOnline'
  <2>1. registry'[o].intervals \subseteq seen[a].intervals
    BY <1>new, <1>row, MergeIs DEF NoRow
  <2> QED BY <2>1, <1>own, <1>row, <1>puts, <1>typed, PutsOnline
<1>2. raced \subseteq raced' \cup {o}
  BY DEF ApplyStore, Store
<1>3. ASSUME o \notin raced'
      PROVE  registry'[o] = sequential'[o]
  <2>1. ~stale[a] /\ o \notin raced
    BY <1>3 DEF ApplyStore, Store
  <2>2. seen[a] = registry[o] /\ sequential[o] = registry[o]
    BY <2>1, <1>own, <1>row DEF FeastInv, UnracedRowsAreSequential
  <2>3. sequential'[o] = WithEntity(obj[a].entity, seen[a])
    BY <2>2, <1>typed, <1>row, FeastTypes DEF ApplyStore
  <2>4. seen[a] = NoRow => obj[a] = WithEntity(obj[a].entity, seen[a])
    BY <1>row DEF WithEntity, NoRow, Row
  <2>5. Merge(obj[a], seen[a]) = WithEntity(obj[a].entity, seen[a])
    BY <1>row, MergeIs
  <2>6. seen[a] # NoRow => Exists(o)
    BY <2>2 DEF Exists
  <2> QED BY <2>3, <2>4, <2>5, <2>6, <1>new
<1>4. UnracedRowsAreSequential'
  BY <1>2, <1>3, <1>puts, <1>row, <1>typed, PutsSequential
<1> QED BY <1>1, <1>4, <1>puts, <1>row

LEMMA MaterializeStoreRows ==
  ASSUME FeastAssumption, FeastInv, NEW m \in Materializers, MaterializeStore(m)
  PROVE  /\ UnracedRowsAreSequential' /\ RecordedIsOnline'
         /\ \E o \in Objects : Puts(m, o)
<1> USE FeastAssumption
<1> DEFINE o == target[m]
<1>typed. FeastTypeOK /\ m \in Writers
  BY WriterIs DEF FeastInv
<1>inv. MaterializerInv(m)
  BY DEF FeastInv
<1>own. /\ o \in Views /\ o \in Objects /\ obj[m] \in Row /\ m \in obj[m].intervals
        /\ \A n \in obj[m].intervals \cup seen[m].intervals : <<o, n>> \in Kept
        /\ ~stale[m] => Exists(o) /\ obj[m] = With(m, registry[o]) /\ seen[m] = registry[o]
  BY <1>inv DEF MaterializerInv, MaterializeStore, Objects
<1>row. seen[m] \in Rows
  BY <1>typed, FeastTypes
<1>puts. Puts(m, o)
  BY <1>typed, <1>own, MaterializeStorePuts
<1>new. registry'[o] = IF seen[m] # NoRow /\ ~Exists(o) THEN NoRow
                       ELSE IF seen[m] = NoRow THEN obj[m] ELSE Merge(obj[m], seen[m])
  BY <1>typed, <1>own, FeastTypes DEF MaterializeStore, Store
<1>1. RecordedIsOnline'
  <2>1. registry'[o].intervals \subseteq obj[m].intervals \cup seen[m].intervals
    BY <1>new, <1>own, <1>row, MergeIs DEF NoRow
  <2> QED BY <2>1, <1>own, <1>puts, <1>typed, PutsOnline
<1>2. raced \subseteq raced' \cup {o}
  BY DEF MaterializeStore, Store
<1>3. ASSUME o \notin raced'
      PROVE  registry'[o] = sequential'[o]
  <2>1. ~stale[m] /\ o \notin raced
    BY <1>3 DEF MaterializeStore, Store
  <2>2. sequential[o] = registry[o] /\ registry[o] # NoRow
    BY <2>1, <1>own DEF FeastInv, UnracedRowsAreSequential, Exists
  <2>3. sequential'[o] = With(m, registry[o])
    BY <2>2, <1>typed, <1>own, FeastTypes DEF MaterializeStore
  <2>4. Merge(obj[m], seen[m]) = obj[m]
    BY <1>own DEF Merge
  <2> QED BY <2>1, <2>3, <2>4, <1>new, <1>own DEF Exists
<1>4. UnracedRowsAreSequential'
  BY <1>2, <1>3, <1>puts, <1>own, <1>typed, PutsSequential
<1> QED BY <1>1, <1>4, <1>puts, <1>own

LEMMA ApplyDeleteRows ==
  ASSUME FeastAssumption, FeastInv, NEW a \in Appliers, ApplyDelete(a)
  PROVE  /\ UnracedRowsAreSequential' /\ RecordedIsOnline'
         /\ \E o \in Objects : Puts(a, o)
<1> USE FeastAssumption
<1>typed. FeastTypeOK /\ a \in Writers
  BY WriterIs DEF FeastInv
<1>1. PICK i \in todo[a] :
        /\ registry' = [registry EXCEPT ![i.name] = NoRow]
        /\ sequential' = [sequential EXCEPT ![i.name] = NoRow]
        /\ raced' = raced \ {i.name}
        /\ Outdates(a, i.name) /\ Finished(a, i.name, Delete)
  BY DEF ApplyDelete
<1>2. i.name \in Objects
  BY <1>typed, FeastTypes DEF Item
<1>puts. Puts(a, i.name)
  BY <1>1, <1>2, <1>typed, ApplyDeletePuts
<1>3. registry'[i.name] = NoRow /\ sequential'[i.name] = NoRow
  BY <1>1, <1>2, <1>typed, FeastTypes
<1>4. RecordedIsOnline'
  BY <1>2, <1>3, <1>puts, <1>typed, PutsOnline DEF NoRow
<1>5. UnracedRowsAreSequential'
  BY <1>1, <1>2, <1>3, <1>puts, <1>typed, PutsSequential
<1> QED BY <1>2, <1>4, <1>5, <1>puts

-----------------------------------------------------------------------------
LEMMA FeastInitInv ==
  ASSUME FeastAssumption, FeastInit
  PROVE  FeastInv
<1>1. FeastTypeOK
  <2>1. registry \in [Objects -> Rows] /\ sequential \in [Objects -> Rows]
    BY RowsAre DEF FeastInit
  <2>2. obj \in [Writers -> Rows] /\ seen \in [Writers -> Rows]
    BY RowsAre DEF FeastInit
  <2>3. /\ stage \in [Writers -> ApplierStages \cup MaterializerStages]
        /\ \A w \in Writers :
             stage[w] \in IF w \in Appliers THEN ApplierStages ELSE MaterializerStages
    BY DEF FeastInit, ApplierStages, MaterializerStages
  <2>4. 0 \in 0 .. MaxFeastFaults
    BY DEF FeastAssumption
  <2> QED BY <2>1, <2>2, <2>3, <2>4 DEF FeastInit, FeastTypeOK
<1>2. ASSUME NEW a \in Appliers
      PROVE  ApplierInv(a)
  BY DEF FeastInit, ApplierInv, Writers
<1>3. ASSUME NEW m \in Materializers
      PROVE  MaterializerInv(m) /\ ReportInv(m)
  BY DEF FeastAssumption, FeastInit, MaterializerInv, ReportInv, Writers
<1>4. UnracedRowsAreSequential /\ RecordedIsOnline
  BY DEF FeastInit, UnracedRowsAreSequential, RecordedIsOnline, Objects, NoRow
<1> QED BY <1>1, <1>2, <1>3, <1>4 DEF FeastInv

LEMMA ApplyStep ==
  ASSUME FeastAssumption, FeastInv, NEW a \in Appliers, Apply(a)
  PROVE  FeastInv'
<1> USE FeastAssumption
<1>writer. a \in Writers /\ FeastTypeOK /\ a \notin Materializers
  BY WriterIs DEF FeastInv
<1>1. FeastTypeOK'
  BY ListEntitiesType, ListViewsType, ApplySelectType, ApplyStoreType, ApplyDeleteType,
     DropRowsType, ApplyDoneType, ApplyFailsType DEF Apply
<1>2. ApplierInv(a)'
  BY ListEntitiesOwn, ListViewsOwn, ApplySelectOwn, ApplyStoreOwn, ApplyDeleteOwn, DropRowsOwn,
     ApplyEndsOwn
     DEF Apply
<1>3. Keeps(a) \/ \E o \in Objects : Puts(a, o)
  BY <1>writer, ListEntitiesKeeps, ListViewsKeeps, ApplySelectKeeps, DropRowsKeeps, ApplyDoneKeeps,
     ApplyFailsKeeps, ApplyStoreRows, ApplyDeleteRows DEF Apply
<1>4. UnracedRowsAreSequential' /\ RecordedIsOnline'
  <2>1. CASE ApplyStore(a) \/ ApplyDelete(a)
    BY <2>1, ApplyStoreRows, ApplyDeleteRows
  <2>2. CASE ~(ApplyStore(a) \/ ApplyDelete(a))
    <3>1. Keeps(a)
      BY <2>2, <1>writer, ListEntitiesKeeps, ListViewsKeeps, ApplySelectKeeps, DropRowsKeeps,
         ApplyDoneKeeps, ApplyFailsKeeps DEF Apply
    <3> QED BY <3>1, <1>writer, KeepsRows
  <2> QED BY <2>1, <2>2
<1>5. \A q \in Appliers \ {a} : ApplierInv(q)'
  BY <1>3, <1>writer, OtherAppliersKeep
<1>6. \A m \in Materializers : MaterializerInv(m)' /\ ReportInv(m)'
  BY <1>3, <1>writer, OtherMaterializersKeep
<1> QED BY <1>1, <1>2, <1>4, <1>5, <1>6 DEF FeastInv

LEMMA MaterializeStep ==
  ASSUME FeastAssumption, FeastInv, NEW m \in Materializers, Materialize(m)
  PROVE  FeastInv'
<1> USE FeastAssumption
<1>writer. m \in Writers /\ FeastTypeOK /\ m \notin Appliers
  BY WriterIs DEF FeastInv
<1>1. FeastTypeOK'
  BY ListToMaterializeType, EmitStartType, WriteOnlineType, GetViewType, MaterializeSelectType,
     MaterializeStoreType, MaterializeRaisesType, MaterializeEndsType, MaterializerKilledType
     DEF Materialize
<1>2. MaterializerInv(m)' /\ ReportInv(m)'
  BY MaterializeOwn, ListToMaterializeReports, EmitStartReports, WriteOnlineReports, GetViewReports,
     MaterializeSelectReports, MaterializeStoreReports, MaterializeRaisesReports,
     MaterializeEndsReports, MaterializerKilledReports DEF Materialize
<1>4. ~MaterializeStore(m) => Keeps(m)
  BY <1>writer, ListToMaterializeKeeps, EmitStartKeeps, WriteOnlineKeeps, GetViewKeeps,
     MaterializeSelectKeeps, MaterializeRaisesKeeps, MaterializeEndsKeeps, MaterializerKilledKeeps
     DEF Materialize
<1>5. Keeps(m) \/ \E o \in Objects : Puts(m, o)
  BY <1>4, MaterializeStoreRows
<1>6. UnracedRowsAreSequential' /\ RecordedIsOnline'
  BY <1>4, <1>writer, MaterializeStoreRows, KeepsRows
<1>7. \A a \in Appliers : ApplierInv(a)'
  BY <1>5, <1>writer, OtherAppliersKeep
<1>8. \A n \in Materializers \ {m} : MaterializerInv(n)' /\ ReportInv(n)'
  BY <1>5, <1>writer, OtherMaterializersKeep
<1> QED BY <1>1, <1>2, <1>6, <1>7, <1>8 DEF FeastInv

LEMMA StutterKeepsFeastInv ==
  ASSUME FeastInv, UNCHANGED feastVars
  PROVE  FeastInv'
<1>1. FeastTypeOK'
  BY DEF FeastInv, feastVars, FeastTypeOK
<1>2. ASSUME NEW a \in Appliers
      PROVE  ApplierInv(a)'
  <2>1. Wanted(a)' = Wanted(a) /\ \A o : Declared(a, o)' = Declared(a, o)
    BY DEF feastVars, Wanted, Declared
  <2>2. \A o : Right(a, o)' = Right(a, o) /\ Due(a, o)' = Due(a, o)
    BY <2>1 DEF feastVars, Right, Due
  <2>3. /\ stage' = stage /\ target' = target /\ obj' = obj /\ seen' = seen /\ todo' = todo
        /\ stale' = stale /\ alone' = alone /\ registry' = registry /\ Kept' = Kept
    BY DEF feastVars, Kept
  <2>4. ApplierInv(a)
    BY <1>2 DEF FeastInv
  <2>5. Due(a, target[a])' = Due(a, target[a])
    BY <2>3 DEF Due
  <2> QED BY <2>1, <2>2, <2>3, <2>4, <2>5 DEF ApplierInv
<1>3. ASSUME NEW m \in Materializers
      PROVE  MaterializerInv(m)' /\ ReportInv(m)'
  BY DEF FeastInv, feastVars, MaterializerInv, ReportInv, Exists, Kept
<1>4. UnracedRowsAreSequential' /\ RecordedIsOnline'
  BY DEF FeastInv, feastVars, UnracedRowsAreSequential, RecordedIsOnline
<1> QED BY <1>1, <1>2, <1>3, <1>4 DEF FeastInv

LEMMA FaultKeepsFeastInv ==
  ASSUME FeastAssumption, FeastInv, Fault,
         UNCHANGED <<registry, online, sent, stage, repo, todo, left, runId, target, obj, seen,
                     stale, feastHistory>>
  PROVE  FeastInv'
<1>1. FeastTypeOK'
  <2>1. feastFaults' \in 0 .. MaxFeastFaults
    BY DEF Fault, FeastInv, FeastTypeOK, FeastAssumption
  <2> QED BY <2>1 DEF FeastInv, FeastTypeOK, feastHistory
<1>2. ASSUME NEW a \in Appliers
      PROVE  ApplierInv(a)'
  <2>1. Wanted(a)' = Wanted(a) /\ \A o : Declared(a, o)' = Declared(a, o)
    BY DEF Wanted, Declared
  <2>2. \A o : Right(a, o)' = Right(a, o) /\ Due(a, o)' = Due(a, o)
    BY <2>1 DEF Right, Due
  <2>3. /\ stage' = stage /\ target' = target /\ obj' = obj /\ seen' = seen /\ todo' = todo
        /\ stale' = stale /\ alone' = alone /\ registry' = registry /\ Kept' = Kept
    BY DEF feastHistory, Kept
  <2>4. ApplierInv(a)
    BY <1>2 DEF FeastInv
  <2>5. Due(a, target[a])' = Due(a, target[a])
    BY <2>3 DEF Due
  <2> QED BY <2>1, <2>2, <2>3, <2>4, <2>5 DEF ApplierInv
<1>3. ASSUME NEW m \in Materializers
      PROVE  MaterializerInv(m)' /\ ReportInv(m)'
  BY DEF FeastInv, feastHistory, MaterializerInv, ReportInv, Exists, Kept
<1>4. UnracedRowsAreSequential' /\ RecordedIsOnline'
  BY DEF FeastInv, feastHistory, UnracedRowsAreSequential, RecordedIsOnline
<1> QED BY <1>1, <1>2, <1>3, <1>4 DEF FeastInv

LEMMA FeastInvImplies ==
  ASSUME FeastInv
  PROVE  /\ UnracedRowsAreSequential /\ RecordedIsOnline
         /\ NoOrphanedEnd /\ UndisturbedApplyIsExact
<1>1. NoOrphanedEnd
  BY DEF FeastInv, ReportInv, NoOrphanedEnd
<1>2. UndisturbedApplyIsExact
  <2>1. SUFFICES ASSUME NEW a \in Appliers, stage[a] = "applied", alone[a], NEW o \in Objects
                 PROVE  Right(a, o)
    BY DEF UndisturbedApplyIsExact, Right
  <2>2. ApplierInv(a)
    BY <2>1 DEF FeastInv
  <2> QED BY <2>1, <2>2 DEF ApplierInv, Due
<1> QED BY <1>1, <1>2 DEF FeastInv

(* The invariant, and what the runs check of it. *)
THEOREM FeastInvariant == FeastSpec => []FeastInv
<1> USE FeastAssumption
<1>1. FeastInit => FeastInv
  BY FeastInitInv
<1>2. FeastInv /\ [FeastNext]_feastVars => FeastInv'
  BY ApplyStep, MaterializeStep, StutterKeepsFeastInv DEF FeastNext
<1> QED BY <1>1, <1>2, PTL DEF FeastSpec

(* A row that no writer stored over a change it had not read is what       *)
(* storing one after the other would have left.                            *)
THEOREM RowsAreSequential == FeastSpec => []UnracedRowsAreSequential
BY FeastInvariant, FeastInvImplies, PTL

(* A recorded interval is in the online store, whatever raced, unless the  *)
(* clean-up of an apply took its rows from a view that was back or being   *)
(* stored, or while they were written.                                     *)
THEOREM RecordedIntervalsAreOnline == FeastSpec => []RecordedIsOnline
BY FeastInvariant, FeastInvImplies, PTL

(* No end of a materialization is reported without its start, no two ends, *)
(* and COMPLETE only when every view was gone through.                     *)
THEOREM EndsAreNotOrphaned == FeastSpec => []NoOrphanedEnd
BY FeastInvariant, FeastInvImplies, PTL

(* An apply that ran alone leaves exactly what its repository defines. *)
THEOREM AppliesAreExact == FeastSpec => []UndisturbedApplyIsExact
BY FeastInvariant, FeastInvImplies, PTL

=============================================================================
