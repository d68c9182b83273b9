--------------------------- MODULE ChurnPipeline ---------------------------
(***************************************************************************)
(* Runs of the churn pipeline (src/pipeline/kfp_pipeline.py).  Each run is *)
(* a chain of eight pods.  A pod passes the guard of security/guards.py    *)
(* (an audit entry), opens kfp_lineage (START), does its work, closes      *)
(* kfp_lineage (COMPLETE or FAIL), appends the end of its audit trail and  *)
(* lets the next pod of the run begin.  Runs share the warehouse table,    *)
(* the model registry and Marquez; nothing orders one run against another. *)
(*                                                                         *)
(* The log a pod audits to is its own (TransparencyLog, OwnLogIsLinear),   *)
(* so an audit entry is appended in one step here.  The artifacts passed   *)
(* from pod to pod bear names of their run and need no versions.           *)
(***************************************************************************)
EXTENDS Naturals, Sequences

CONSTANTS
  Runs,       (* pipeline runs *)
  MaxFaults   (* bound: lost events, killed pods, and exceptions nothing forces *)

ASSUME PipelineAssumption ==
  /\ {"unread", "absent"} \cap Runs = {}
  /\ MaxFaults \in Nat

(* The steps, in the order of their dependencies. *)
Etl == 1
Apply == 2
Materialize == 3
Extract == 4
Engineer == 5
Train == 6
Evaluate == 7
Register == 8
Steps == 1 .. 8

VARIABLES
  step,        (* per run: its current step *)
  pc,          (* per run: where the pod of that step is *)
  table,       (* the runs whose rows are in customer_features, or Absent *)
  served,      (* per run: the rows it put into the online store *)
  labels,      (* per run: the rows its labels come from *)
  features,    (* per run: the rows its features come from *)
  accepted,    (* runs whose model reaches the ROC-AUC threshold *)
  registry,    (* model versions: the run of each *)
  champion,    (* the version the alias names, 0 when none *)
  marquez,     (* per run and step: the state Marquez shows *)
  lost,        (* COMPLETE and FAIL events that did not reach Marquez *)
  versions,    (* Marquez: the runs that produced the versions of the table *)
  attributed,  (* Marquez: the version of the table each run materialized from *)
  audit,       (* per run and step: what the log of its pod says of it *)
  faults,      (* number of faults so far *)
  killed,      (* runs one of whose pods was killed *)
  disturbed    (* history: runs whose table another run changed or reported *)
               (* between its replacement and the extraction               *)

data == <<table, served, labels, features, accepted, registry, champion, disturbed>>
events == <<marquez, lost, versions, attributed>>
lineage == <<events, faults>>
pipelineVars == <<step, pc, data, lineage, audit, killed>>

(* In place of a set of rows: nothing read yet, no table to read from. *)
Unread == {"unread"}
Absent == {"absent"}

Body == {"body", "create", "insert", "features", "alias"}
Over == {"succeeded", "failed"}
Shown == {"NONE", "RUNNING", "COMPLETED", "FAILED"}
Event == Runs \X Steps \X {"COMPLETE", "FAIL"}
Rows == (SUBSET Runs) \cup {Unread}

Phase == {"guard", "enter", "exit", "raise", "finalize"} \cup Body \cup Over

PodTypeOK ==
  /\ step \in [Runs -> Steps]
  /\ pc \in [Runs -> Phase]
  /\ audit \in [Runs -> [Steps -> {"nothing", "started", "ended"}]]
  /\ faults \in 0 .. MaxFaults
  /\ killed \subseteq Runs

DataTypeOK ==
  /\ table \in (SUBSET Runs) \cup {Absent}
  /\ served \in [Runs -> Rows] /\ labels \in [Runs -> Rows] /\ features \in [Runs -> Rows]
  /\ accepted \subseteq Runs
  /\ registry \in Seq(Runs)
  /\ champion \in 0 .. Len(registry)
  /\ disturbed \subseteq Runs

MarquezTypeOK ==
  /\ marquez \in [Runs -> [Steps -> Shown]]
  /\ lost \subseteq Event
  /\ versions \in Seq(Runs)
  /\ attributed \in [Runs -> 0 .. Len(versions)]

PipelineTypeOK == PodTypeOK /\ DataTypeOK /\ MarquezTypeOK

PipelineInit ==
  /\ step = [r \in Runs |-> Etl]
  /\ pc = [r \in Runs |-> "guard"]
  /\ table = Absent
  /\ served = [r \in Runs |-> Unread]
  /\ labels = [r \in Runs |-> Unread]
  /\ features = [r \in Runs |-> Unread]
  /\ accepted = {}
  /\ registry = <<>>
  /\ champion = 0
  /\ marquez = [r \in Runs |-> [s \in Steps |-> "NONE"]]
  /\ lost = {}
  /\ versions = <<>>
  /\ attributed = [r \in Runs |-> 0]
  /\ audit = [r \in Runs |-> [s \in Steps |-> "nothing"]]
  /\ faults = 0
  /\ killed = {}
  /\ disturbed = {}

-----------------------------------------------------------------------------
(* The operators named Faulty... are not the code: each is a bug that could *)
(* be made in the definition that follows it.                               *)

Goto(r, from, to) == pc[r] = from /\ pc' = [pc EXCEPT ![r] = to]
At(r, s, from, to) == step[r] = s /\ Goto(r, from, to)
Audit(r, entry) == audit' = [audit EXCEPT ![r][step[r]] = entry]
Fault == faults < MaxFaults /\ faults' = faults + 1

(* Run q is between replacing the table and reading its features from it. *)
Relies(q) ==
  /\ step[q] > Etl \/ pc[q] \notin {"guard", "enter", "body"}
  /\ features[q] = Unread

(* Run r changes or reports the table under the runs that rely on it. *)
Touch(r) == disturbed' = disturbed \cup {q \in Runs \ {r} : Relies(q)}

(* A post is made once, and whether it arrives nobody will know. *)
Arrives(r, shown) ==
  /\ marquez' = [marquez EXCEPT ![r][step[r]] = shown]
  /\ UNCHANGED <<lost, faults>>
IsLost(r, type) ==
  /\ Fault
  /\ lost' = lost \cup {<<r, step[r], type>>}
  /\ UNCHANGED <<marquez, versions, attributed>>

-----------------------------------------------------------------------------
(* A pod around its work *)

(* The work starts before the guard has appended its entry. *)
FaultyGuard(r) ==
  /\ Goto(r, "guard", "enter")
  /\ UNCHANGED <<step, data, lineage, audit, killed>>

(* pipeline_step_guard: the start of the step is audited. *)
Guard(r) ==
  /\ Goto(r, "guard", "enter")
  /\ Audit(r, "started")
  /\ UNCHANGED <<step, data, lineage, killed>>

(* An exception outside kfp_lineage: the guard, what follows it, or the    *)
(* end of the audit trail raises, and the pod fails.                       *)
RaiseOutside(r) ==
  /\ \E phase \in {"guard", "enter", "finalize"} : Goto(r, phase, "failed")
  /\ Fault
  /\ UNCHANGED <<step, data, events, audit, killed>>

(* kfp_lineage.__enter__ *)
Enter(r) ==
  /\ Goto(r, "enter", "body")
  /\ \/ Arrives(r, "RUNNING")
     \/ Fault /\ UNCHANGED <<marquez, lost>>
  /\ UNCHANGED <<step, data, versions, attributed, audit, killed>>

(* The table is not as the next statement needs it: another run is at it.  *)
TableClash(r) ==
  \/ pc[r] = "create" /\ table # Absent
  \/ pc[r] \in {"insert", "features"} /\ table = Absent
  \/ pc[r] = "body" /\ step[r] \in {Materialize, Extract} /\ table = Absent

(* An exception leaves the pod without passing __exit__. *)
FaultyRaiseInside(r) ==
  /\ pc[r] \in Body
  /\ pc' = [pc EXCEPT ![r] = "failed"]
  /\ IF TableClash(r) THEN UNCHANGED faults ELSE Fault
  /\ UNCHANGED <<step, data, events, audit, killed>>

(* The work of the pod raises. *)
RaiseInside(r) ==
  /\ pc[r] \in Body
  /\ pc' = [pc EXCEPT ![r] = "raise"]
  /\ IF TableClash(r) THEN UNCHANGED faults ELSE Fault
  /\ UNCHANGED <<step, data, events, audit, killed>>

(* __exit__ swallows the exception, and the pod goes on. *)
FaultyExitRaising(r) ==
  /\ Goto(r, "raise", "finalize")
  /\ \/ Arrives(r, "FAILED") /\ UNCHANGED <<versions, attributed>>
     \/ IsLost(r, "FAIL")
  /\ UNCHANGED <<step, data, audit, killed>>

(* kfp_lineage.__exit__ with an exception, which it does not swallow *)
ExitRaising(r) ==
  /\ Goto(r, "raise", "failed")
  /\ \/ Arrives(r, "FAILED") /\ UNCHANGED <<versions, attributed>>
     \/ IsLost(r, "FAIL")
  /\ UNCHANGED <<step, data, audit, killed>>

(* kfp_lineage.__exit__ without an exception.  On COMPLETE Marquez gives   *)
(* every output a new version, and links every input to the newest version *)
(* it knows of; kept are the versions of the warehouse table, and the one  *)
(* that materialize is linked to.                                          *)
Exit(r) ==
  /\ Goto(r, "exit", "finalize")
  /\ \/ /\ Arrives(r, "COMPLETED")
        /\ IF step[r] = Etl
           THEN versions' = Append(versions, r) /\ Touch(r)
           ELSE UNCHANGED <<versions, disturbed>>
        /\ attributed' = IF step[r] = Materialize THEN [attributed EXCEPT ![r] = Len(versions)]
                         ELSE attributed
     \/ IsLost(r, "COMPLETE") /\ UNCHANGED disturbed
  /\ UNCHANGED <<step, table, served, labels, features, accepted, registry, champion,
                 audit, killed>>

(* finalize_step_audit, after which Argo starts the pod of the next step.  *)
Finalize(r) ==
  /\ Audit(r, "ended")
  /\ IF step[r] = Register
     THEN Goto(r, "finalize", "succeeded") /\ UNCHANGED step
     ELSE Goto(r, "finalize", "guard") /\ step' = [step EXCEPT ![r] = @ + 1]
  /\ UNCHANGED <<data, lineage, killed>>

(* The pod is killed (node lost, memory, eviction); there are no retries.  *)
Kill(r) ==
  /\ pc[r] \notin Over
  /\ Fault
  /\ killed' = killed \cup {r}
  /\ pc' = [pc EXCEPT ![r] = "failed"]
  /\ UNCHANGED <<step, data, events, audit>>

-----------------------------------------------------------------------------
(* The work of each pod *)

(* Rows are appended to what is there. *)
FaultyDropTable(r) ==
  /\ At(r, Etl, "body", IF table = Absent THEN "create" ELSE "insert")
  /\ Touch(r)
  /\ UNCHANGED <<step, table, served, labels, features, accepted, registry, champion,
                 lineage, audit, killed>>

(* spark_etl.load with mode "overwrite" drops the table if it exists, ...  *)
DropTable(r) ==
  /\ At(r, Etl, "body", "create")
  /\ table' = Absent
  /\ Touch(r)
  /\ UNCHANGED <<step, served, labels, features, accepted, registry, champion,
                 lineage, audit, killed>>

(* ... creates it (an error when another run has) ... *)
CreateTable(r) ==
  /\ table = Absent
  /\ At(r, Etl, "create", "insert")
  /\ table' = {}
  /\ Touch(r)
  /\ UNCHANGED <<step, served, labels, features, accepted, registry, champion,
                 lineage, audit, killed>>

(* ... and inserts, partition by partition (an error when another run has  *)
(* dropped it): what was inserted stays when a later partition raises.     *)
InsertRows(r) ==
  /\ table # Absent
  /\ \/ At(r, Etl, "insert", "exit") /\ UNCHANGED faults
     \/ At(r, Etl, "insert", "raise") /\ Fault
  /\ table' = table \cup {r}
  /\ Touch(r)
  /\ UNCHANGED <<step, served, labels, features, accepted, registry, champion,
                 events, audit, killed>>

(* feast apply, feature engineering and evaluation touch nothing shared.   *)
Work(r) ==
  /\ \E s \in {Apply, Engineer, Evaluate} : At(r, s, "body", "exit")
  /\ UNCHANGED <<step, data, lineage, audit, killed>>

(* Feast copies the table to the online store. *)
MaterializeRows(r) ==
  /\ table # Absent
  /\ At(r, Materialize, "body", "exit")
  /\ served' = [served EXCEPT ![r] = table]
  /\ UNCHANGED <<step, table, labels, features, accepted, registry, champion, disturbed,
                 lineage, audit, killed>>

(* The extraction reads the labels ... *)
ReadLabels(r) ==
  /\ table # Absent
  /\ At(r, Extract, "body", "features")
  /\ labels' = [labels EXCEPT ![r] = table]
  /\ UNCHANGED <<step, table, served, features, accepted, registry, champion, disturbed,
                 lineage, audit, killed>>

(* ... and then, in a query of its own, the features. *)
ReadFeatures(r) ==
  /\ table # Absent
  /\ At(r, Extract, "features", "exit")
  /\ features' = [features EXCEPT ![r] = table]
  /\ UNCHANGED <<step, table, served, labels, accepted, registry, champion, disturbed,
                 lineage, audit, killed>>

(* Training leaves a model whose metrics reach the threshold or do not.    *)
TrainModel(r) ==
  /\ At(r, Train, "body", "exit")
  /\ \/ accepted' = accepted \cup {r}
     \/ UNCHANGED accepted
  /\ UNCHANGED <<step, table, served, labels, features, registry, champion, disturbed,
                 lineage, audit, killed>>

(* Registration is skipped below the threshold; an exception of MLflow is  *)
(* caught, and the step completes without a version.                       *)
SkipRegistration(r) ==
  /\ At(r, Register, "body", "exit")
  /\ UNCHANGED <<step, data, lineage, audit, killed>>

(* mlflow.register_model *)
RegisterModel(r) ==
  /\ r \in accepted
  /\ At(r, Register, "body", "alias")
  /\ registry' = Append(registry, r)
  /\ UNCHANGED <<step, table, served, labels, features, accepted, champion, disturbed,
                 lineage, audit, killed>>

(* set_registered_model_alias; an exception of it is caught as well.       *)
SetChampion(r) ==
  /\ At(r, Register, "alias", "exit")
  /\ \/ champion' = CHOOSE v \in 1 .. Len(registry) : registry[v] = r
     \/ UNCHANGED champion
  /\ UNCHANGED <<step, table, served, labels, features, accepted, registry, disturbed,
                 lineage, audit, killed>>

(* Every run has been submitted and has ended. *)
AllOver ==
  /\ \A r \in Runs : pc[r] \in Over
  /\ UNCHANGED pipelineVars

PipelineNext ==
  \/ \E r \in Runs :
       \/ Guard(r) \/ RaiseOutside(r) \/ Enter(r) \/ RaiseInside(r)
       \/ Exit(r) \/ ExitRaising(r) \/ Finalize(r) \/ Kill(r)
       \/ DropTable(r) \/ CreateTable(r) \/ InsertRows(r)
       \/ Work(r) \/ MaterializeRows(r) \/ ReadLabels(r) \/ ReadFeatures(r)
       \/ TrainModel(r) \/ SkipRegistration(r) \/ RegisterModel(r) \/ SetChampion(r)
  \/ AllOver

PipelineSpec == PipelineInit /\ [][PipelineNext]_pipelineVars

-----------------------------------------------------------------------------
(* Properties *)

LostEvent(r, s, type) == <<r, s, type>> \in lost

(* A run under which nobody changes or reports the table serves and trains *)
(* on exactly the rows its own ETL wrote, labels and features alike, and   *)
(* Marquez links its materialization to the version its own ETL reported.  *)
IsolatedRunIsItsOwn ==
  \A r \in Runs \ disturbed :
    /\ {served[r], labels[r], features[r]} \subseteq {Unread, {r}}
    /\ marquez[r][Materialize] = "COMPLETED" /\ ~LostEvent(r, Etl, "COMPLETE")
         => attributed[r] > 0 /\ versions[attributed[r]] = r

(* A registered model can be traced: the lineage of everything it was made *)
(* from is in Marquez, unless Marquez was not there to record it.          *)
RegisteredIsTraceable ==
  \A v \in DOMAIN registry : \A s \in Steps \ {Register} :
    marquez[registry[v]][s] = "COMPLETED" \/ LostEvent(registry[v], s, "COMPLETE")

(* Marquez does not show a step as RUNNING for ever: when a run is over    *)
(* the end of each of its steps has been sent, unless a pod was killed.    *)
NoStepStaysRunning ==
  \A r \in Runs \ killed : \A s \in Steps :
    pc[r] \in Over /\ marquez[r][s] = "RUNNING"
      => LostEvent(r, s, "COMPLETE") \/ LostEvent(r, s, "FAIL")

(* What a run leaves behind is audited: rows, copies and model versions    *)
(* have a start entry; an end entry never stands beside a FAIL.            *)
EffectsAreAudited ==
  /\ \A r \in Runs :
       /\ r \in table => audit[r][Etl] # "nothing"
       /\ served[r] # Unread => audit[r][Materialize] # "nothing"
  /\ \A v \in DOMAIN registry : audit[registry[v]][Register] # "nothing"
  /\ \A r \in Runs : \A s \in Steps :
       audit[r][s] = "ended" => marquez[r][s] = "COMPLETED" \/ LostEvent(r, s, "COMPLETE")

(* Whatever runs overlap, fail or are killed, and whatever events are      *)
(* lost, Marquez shows each run as a chain: the pods implement StepChain   *)
(* (kfp_pipeline.py:779-849, lineage.py:177-248).                          *)
Chain == INSTANCE StepChain WITH shown <- marquez, missing <- lost
ImplementsChain == Chain!Spec

(* "Where did the training data come from?  Trace left from model/model to *)
(* customers.csv" (docs/pipeline-walkthrough.md): the version of the table *)
(* that a run is linked to was produced by the run whose rows it trains on.*)
TraceLeadsToRows ==
  \A r \in Runs :
    features[r] # Unread /\ attributed[r] > 0
      => features[r] = {versions[attributed[r]]}
=============================================================================
