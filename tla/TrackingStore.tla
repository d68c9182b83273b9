---------------------------- MODULE TrackingStore ----------------------------
(***************************************************************************)
(* The MLflow tracking-store wrapper of openlineage-oai                    *)
(* (adapters/mlflow/tracking_store.py): every call goes to the real        *)
(* ("delegate") store first, what it logged is accumulated per run under   *)
(* one non-reentrant lock, and update_run_info turns the accumulated state *)
(* into a COMPLETE or FAIL event.                                          *)
(*                                                                         *)
(* Several threads of one process share the store.  A step is one call on  *)
(* the delegate, one critical section, one iteration of a loop executed    *)
(* under the lock, or one HTTP post of the emitter; the code holds no lock *)
(* between them, except where a loop body runs inside "with self._lock".   *)
(*                                                                         *)
(* The delegate is a store of MLflow 3 (requirements.txt:17), which has    *)
(* every method the wrapper looks for with hasattr.                        *)
(***************************************************************************)
EXTENDS Naturals, Sequences, FiniteSets

CONSTANTS
  Threads,        (* threads of the MLflow client process *)
  NoThread,       (* holder of a free lock *)
  Runs,           (* run ids the delegate may hand out *)
  Params, Metrics, Tags, Inputs, Outputs,   (* keys and dataset names *)
  HistoryTags,    (* values of the tag mlflow.log-model.history *)
  HistoryModels,  (* the models the JSON list of such a value names *)
  BatchTags,      (* tags callers pass to set_tags and log_batch *)
  Taggers,        (* threads that set tags of a run, for each run *)
  Finishers,      (* threads that call update_run_info, for each run *)
  Statuses,       (* run statuses they pass *)
  Lossy,          (* whether a post to the lineage backend may be lost *)
  MaxCalls,       (* bound: calls the process receives *)
  MaxCrashes      (* bound: crashes of the process *)

Item == Params \cup Metrics \cup Tags \cup HistoryTags \cup Inputs \cup Outputs
AllTags == Tags \cup HistoryTags
Datasets == Inputs \cup Outputs

ASSUME StoreAssumption ==
  /\ NoThread \notin Threads
  /\ Runs # {}
  /\ HistoryModels \in [HistoryTags -> SUBSET Outputs]
  /\ BatchTags \subseteq AllTags
  /\ Taggers \in [Runs -> SUBSET Threads]
  /\ Finishers \in [Runs -> SUBSET Threads]
  /\ Statuses \subseteq {"RUNNING", "FINISHED", "FAILED", "KILLED"}
  /\ Lossy \in BOOLEAN
  /\ MaxCalls \in Nat
  /\ MaxCrashes \in Nat

ASSUME KindsAreDisjoint ==
  /\ Params \cap (Metrics \cup AllTags \cup Datasets) = {}
  /\ Metrics \cap (AllTags \cup Datasets) = {}
  /\ AllTags \cap Datasets = {}
  /\ Tags \cap HistoryTags = {}
  /\ Inputs \cap Outputs = {}

VARIABLES
  status,     (* delegate: the run's status, "none" before create_run *)
  stored,     (* delegate: what it accepted for the run *)
  live,       (* keys of self._run_states *)
  state,      (* the RunState object of each run; survives the pop while a
                 thread still refers to it *)
  lock,       (* holder of self._lock *)
  marquez,    (* run events the lineage backend received, in order *)
  pc, method, run, request,   (* per thread: where it is, in which call *)
  todo,       (* values still to accumulate in the critical section *)
  pending,    (* datasets or models still to announce and append *)
  current,    (* the one announced and about to be appended *)
  snap,       (* update_run_info: RunState contents read so far *)
  result,     (* outcome of the thread's last call *)
  logged,     (* history: what the current call logs *)
  acked,      (* history: what calls that returned have logged for a run *)
  owed,       (* history: acked when update_run_info was called *)
  calls, crashes              (* bounded counters *)

delegate == <<status, stored>>
memory   == <<live, state, lock>>
control  == <<pc, method, run, request>>
local    == <<todo, pending, current, snap, logged, owed>>
counters == <<calls, crashes>>
vars == <<delegate, memory, marquez, control, local, result, acked, counters>>

PCs == {"idle", "register", "start", "lookup", "filter", "iterate", "emit", "forget",
        "acquire", "locked", "announce", "append"}
Methods == {"create_run", "update_run_info", "log_batch", "set_tag",
            "log_inputs", "log_outputs"}
Event == [type : {"START", "COMPLETE", "FAIL"},
          items : SUBSET Item, owed : SUBSET Item]

TypeOK ==
  /\ status \in [Runs -> {"none", "RUNNING", "FINISHED", "FAILED", "KILLED"}]
  /\ stored \in [Runs -> SUBSET Item]
  /\ live \subseteq Runs
  /\ state \in [Runs -> SUBSET Item]
  /\ lock \in Threads \cup {NoThread}
  /\ marquez \in [Runs -> Seq(Event)]
  /\ pc \in [Threads -> PCs]
  /\ method \in [Threads -> Methods]
  /\ run \in [Threads -> Runs]
  /\ request \in [Threads -> Statuses \cup {"none"}]
  /\ todo \in [Threads -> SUBSET Item]
  /\ pending \in [Threads -> SUBSET Datasets]
  /\ current \in [Threads -> SUBSET Datasets]
  /\ snap \in [Threads -> SUBSET Item]
  /\ result \in [Threads -> {"ok", "delegate_error", "lineage_error"}]
  /\ logged \in [Threads -> SUBSET Item]
  /\ acked \in [Runs -> SUBSET Item]
  /\ owed \in [Threads -> SUBSET Item]
  /\ calls \in Nat
  /\ crashes \in Nat

Init ==
  /\ status = [r \in Runs |-> "none"]
  /\ stored = [r \in Runs |-> {}]
  /\ live = {}
  /\ state = [r \in Runs |-> {}]
  /\ lock = NoThread
  /\ marquez = [r \in Runs |-> <<>>]
  /\ pc = [t \in Threads |-> "idle"]
  /\ method = [t \in Threads |-> "create_run"]
  /\ run = [t \in Threads |-> CHOOSE r \in Runs : TRUE]
  /\ request = [t \in Threads |-> "none"]
  /\ todo = [t \in Threads |-> {}]
  /\ pending = [t \in Threads |-> {}]
  /\ current = [t \in Threads |-> {}]
  /\ snap = [t \in Threads |-> {}]
  /\ result = [t \in Threads |-> "ok"]
  /\ logged = [t \in Threads |-> {}]
  /\ acked = [r \in Runs |-> {}]
  /\ owed = [t \in Threads |-> {}]
  /\ calls = 0
  /\ crashes = 0

-----------------------------------------------------------------------------
(* The operators named Faulty... are not the code: each is a bug that could *)
(* be made in the definition that follows it, kept to show that a property  *)
(* would notice it.                                                         *)

FaultyModelsOf(I) == {HistoryModels[g] : g \in I \cap HistoryTags}

(* The models the history tags of I name. *)
ModelsOf(I) == UNION {HistoryModels[g] : g \in I \cap HistoryTags}
WithModels(I) == I \cup ModelsOf(I)

(* Callers learn a run id from the return of create_run. *)
Created(r) ==
  /\ status[r] # "none"
  /\ \A t \in Threads : run[t] = r => pc[t] \notin {"register", "start"}

(* A thread enters a method: it is idle, and the bound on calls allows it. *)
Enter(t, m, r, label) ==
  /\ pc[t] = "idle"
  /\ calls < MaxCalls
  /\ calls' = calls + 1
  /\ method' = [method EXCEPT ![t] = m]
  /\ run' = [run EXCEPT ![t] = r]
  /\ pc' = [pc EXCEPT ![t] = label]

Goto(t, label) == pc' = [pc EXCEPT ![t] = label]

(* The method returns or raises; what a logging call logged is now owed. *)
Return(t, outcome, done) ==
  /\ Goto(t, "idle")
  /\ result' = [result EXCEPT ![t] = outcome]
  /\ request' = [request EXCEPT ![t] = "none"]
  /\ todo' = [todo EXCEPT ![t] = {}]
  /\ pending' = [pending EXCEPT ![t] = {}]
  /\ current' = [current EXCEPT ![t] = {}]
  /\ snap' = [snap EXCEPT ![t] = {}]
  /\ logged' = [logged EXCEPT ![t] = {}]
  /\ owed' = [owed EXCEPT ![t] = {}]
  /\ acked' = [acked EXCEPT ![run[t]] = @ \cup done]
  /\ UNCHANGED <<method, run>>

(* A post that is retried although the first one arrived. *)
FaultyPost(r, event) ==
  marquez' = [marquez EXCEPT ![r] = @ \o <<event, event>>]

(* The emitter posts once and never raises: an event arrives or is gone. *)
Post(r, event) ==
  \/ marquez' = [marquez EXCEPT ![r] = Append(@, event)]
  \/ Lossy /\ UNCHANGED marquez

(* The delegate call at the head of a method raises; the error reaches the *)
(* caller.  A batch the wrapper unrolls may have been stored in part; a run *)
(* is created or its status changed only by a call that returns.           *)
DelegateRaises(t, r, part) ==
  /\ part = {} \/ Created(r)
  /\ pc[t] = "idle"
  /\ calls < MaxCalls
  /\ calls' = calls + 1
  /\ stored' = [stored EXCEPT ![r] = @ \cup part]
  /\ result' = [result EXCEPT ![t] = "delegate_error"]
  /\ UNCHANGED <<status, memory, marquez, control, local, acked, crashes>>

-----------------------------------------------------------------------------
(* create_run *)

(* The tags given to create_run are for MLflow alone: they enter no state. *)
CreateRun(t, r) ==
  /\ status[r] = "none"
  /\ Enter(t, "create_run", r, "register")
  /\ status' = [status EXCEPT ![r] = "RUNNING"]
  /\ UNCHANGED <<stored, memory, marquez, request, local, result, acked, crashes>>

RegisterRun(t) ==
  /\ pc[t] = "register"
  /\ lock = NoThread
  /\ live' = live \cup {run[t]}
  /\ state' = [state EXCEPT ![run[t]] = {}]
  /\ Goto(t, "start")
  /\ UNCHANGED <<delegate, lock, marquez, method, run, request, local, result,
                 acked, counters>>

EmitStart(t) ==
  /\ pc[t] = "start"
  /\ Post(run[t], [type |-> "START", items |-> {}, owed |-> {}])
  /\ Return(t, "ok", logged[t])
  /\ UNCHANGED <<delegate, memory, counters>>

-----------------------------------------------------------------------------
(* update_run_info *)

UpdateRunInfo(t, r, s) ==
  /\ t \in Finishers[r]
  /\ Created(r)
  /\ Enter(t, "update_run_info", r, "lookup")
  /\ request' = [request EXCEPT ![t] = s]
  /\ status' = [status EXCEPT ![r] = s]
  /\ owed' = [owed EXCEPT ![t] = acked[r]]
  /\ UNCHANGED <<stored, memory, marquez, todo, pending, current, snap, logged,
                 result, acked, crashes>>

(* Only the successful end of a run is reported. *)
FaultyLookupState(t) ==
  /\ pc[t] = "lookup"
  /\ lock = NoThread
  /\ \/ /\ run[t] \notin live
        /\ Return(t, "ok", logged[t])
     \/ /\ run[t] \in live
        /\ Goto(t, IF request[t] = "FINISHED" THEN "filter" ELSE "forget")
        /\ UNCHANGED <<method, run, request, local, result, acked>>
  /\ UNCHANGED <<delegate, memory, marquez, counters>>

(* The state is looked up under the lock and used after its release. *)
LookupState(t) ==
  /\ pc[t] = "lookup"
  /\ lock = NoThread
  /\ \/ /\ run[t] \notin live
        /\ Return(t, "ok", logged[t])
     \/ /\ run[t] \in live
        /\ Goto(t, IF request[t] = "FINISHED" THEN "filter"
                   ELSE IF request[t] = "FAILED" THEN "emit" ELSE "forget")
        /\ UNCHANGED <<method, run, request, local, result, acked>>
  /\ UNCHANGED <<delegate, memory, marquez, counters>>

(* filter_system_tags iterates over the live tags dictionary without the   *)
(* lock; an empty dictionary is not iterated.                              *)
BeginFilter(t) ==
  /\ pc[t] = "filter"
  /\ snap' = [snap EXCEPT ![t] = state[run[t]]]
  /\ Goto(t, IF state[run[t]] \cap AllTags = {} THEN "emit" ELSE "iterate")
  /\ UNCHANGED <<delegate, memory, marquez, method, run, request, todo, pending,
                 current, logged, owed, result, acked, counters>>

(* The whole RunState is iterated over, not only its tags. *)
FaultyEndFilter(t) ==
  /\ pc[t] = "iterate"
  /\ \/ /\ state[run[t]] # snap[t]
        /\ Return(t, "lineage_error", {})
     \/ /\ state[run[t]] = snap[t]
        /\ Goto(t, "emit")
        /\ snap' = [snap EXCEPT ![t] = @ \ HistoryTags]
        /\ UNCHANGED <<method, run, request, todo, pending, current, logged,
                       owed, result, acked>>
  /\ UNCHANGED <<delegate, memory, marquez, counters>>

(* A key inserted since the iteration began raises RuntimeError out of     *)
(* update_run_info; otherwise the system tags are dropped from the copy.   *)
EndFilter(t) ==
  LET seen == snap[t] \cap AllTags
      now  == state[run[t]]
  IN /\ pc[t] = "iterate"
     /\ \/ /\ now \cap AllTags # seen
           /\ Return(t, "lineage_error", {})
        \/ /\ now \cap AllTags = seen
           /\ Goto(t, "emit")
           /\ snap' = [snap EXCEPT ![t] = now \ HistoryTags]
           /\ UNCHANGED <<method, run, request, todo, pending, current, logged,
                          owed, result, acked>>
     /\ UNCHANGED <<delegate, memory, marquez, counters>>

(* The facet holds the filtered copy of the tags and references to the     *)
(* other collections, which are serialized now; "params or {}" replaced a  *)
(* dictionary that was empty when the facet was built by a fresh one.      *)
CompleteItems(t) ==
  LET now == state[run[t]]
      ByReference(kind) == IF snap[t] \cap kind = {} THEN {} ELSE now \cap kind
  IN (snap[t] \cap Tags) \cup ByReference(Params) \cup ByReference(Metrics)
       \cup (now \cap Datasets)

EmitTerminal(t) ==
  /\ pc[t] = "emit"
  /\ Post(run[t],
       IF request[t] = "FINISHED"
       THEN [type |-> "COMPLETE", items |-> CompleteItems(t), owed |-> owed[t]]
       ELSE [type |-> "FAIL", items |-> state[run[t]] \cap Datasets,
             owed |-> owed[t] \cap Datasets])
  /\ Goto(t, "forget")
  /\ UNCHANGED <<delegate, memory, method, run, request, local, result, acked,
                 counters>>

(* The state of a finished run is kept. *)
FaultyForgetRun(t) ==
  /\ pc[t] = "forget"
  /\ lock = NoThread
  /\ Return(t, "ok", logged[t])
  /\ UNCHANGED <<delegate, memory, marquez, counters>>

ForgetRun(t) ==
  /\ pc[t] = "forget"
  /\ lock = NoThread
  /\ live' = live \ {run[t]}
  /\ Return(t, "ok", logged[t])
  /\ UNCHANGED <<delegate, state, lock, marquez, counters>>

-----------------------------------------------------------------------------
(* Logging calls: the delegate first, then the accumulation *)

(* An error of the delegate is swallowed and the values accumulated.       *)
FaultyLogBatch(t, r, I) ==
  /\ I \subseteq Params \cup Metrics \cup BatchTags
  /\ I # {}
  /\ I \cap AllTags # {} => t \in Taggers[r]
  /\ Created(r)
  /\ Enter(t, "log_batch", r, "acquire")
  /\ todo' = [todo EXCEPT ![t] = I]
  /\ logged' = [logged EXCEPT ![t] = WithModels(I)]
  /\ UNCHANGED <<delegate, memory, marquez, request, pending, current, snap,
                 owed, result, acked, crashes>>

(* log_param(s), log_metric(s), set_tags and log_batch: values for run r   *)
LogBatch(t, r, I) ==
  /\ I \subseteq Params \cup Metrics \cup BatchTags
  /\ I # {}
  /\ I \cap AllTags # {} => t \in Taggers[r]
  /\ Created(r)
  /\ Enter(t, "log_batch", r, "acquire")
  /\ stored' = [stored EXCEPT ![r] = @ \cup I]
  /\ todo' = [todo EXCEPT ![t] = I]
  /\ logged' = [logged EXCEPT ![t] = WithModels(I)]
  /\ UNCHANGED <<status, memory, marquez, request, pending, current, snap, owed,
                 result, acked, crashes>>

(* set_tag handles the models of a history tag after releasing the lock.   *)
SetTag(t, r, g) ==
  /\ t \in Taggers[r]
  /\ Created(r)
  /\ Enter(t, "set_tag", r, "acquire")
  /\ stored' = [stored EXCEPT ![r] = @ \cup {g}]
  /\ todo' = [todo EXCEPT ![t] = {g}]
  /\ pending' = [pending EXCEPT ![t] = ModelsOf({g})]
  /\ logged' = [logged EXCEPT ![t] = WithModels({g})]
  /\ UNCHANGED <<status, memory, marquez, request, current, snap, owed, result,
                 acked, crashes>>

(* log_input(s): datasets D are announced and appended one by one, then    *)
(* models M are appended to the outputs in one critical section.           *)
LogInputs(t, r, D, M) ==
  /\ Created(r)
  /\ Enter(t, "log_inputs", r, IF D = {} THEN "acquire" ELSE "announce")
  /\ stored' = [stored EXCEPT ![r] = @ \cup D \cup M]
  /\ pending' = [pending EXCEPT ![t] = D]
  /\ todo' = [todo EXCEPT ![t] = M]
  /\ logged' = [logged EXCEPT ![t] = D \cup M]
  /\ UNCHANGED <<status, memory, marquez, request, current, snap, owed, result,
                 acked, crashes>>

(* log_outputs: models M are announced and appended one by one.            *)
LogOutputs(t, r, M) ==
  /\ M # {}
  /\ Created(r)
  /\ Enter(t, "log_outputs", r, "announce")
  /\ stored' = [stored EXCEPT ![r] = @ \cup M]
  /\ pending' = [pending EXCEPT ![t] = M]
  /\ logged' = [logged EXCEPT ![t] = M]
  /\ UNCHANGED <<status, memory, marquez, request, todo, current, snap, owed,
                 result, acked, crashes>>

(* The accumulation is skipped when the lock is taken. *)
FaultyAcquire(t) ==
  /\ pc[t] = "acquire"
  /\ \/ /\ lock = NoThread
        /\ lock' = t
        /\ Goto(t, "locked")
        /\ UNCHANGED <<method, run, request, local, result, acked>>
     \/ /\ lock # NoThread
        /\ Return(t, "ok", logged[t])
        /\ UNCHANGED lock
  /\ UNCHANGED <<delegate, live, state, marquez, counters>>

(* with self._lock: threading.Lock blocks its own holder too.              *)
Acquire(t) ==
  /\ pc[t] = "acquire"
  /\ lock = NoThread
  /\ lock' = t
  /\ Goto(t, "locked")
  /\ UNCHANGED <<delegate, live, state, marquez, method, run, request, local,
                 result, acked, counters>>

(* The RunStates share one dictionary. *)
FaultyAccumulate(t, i) ==
  /\ pc[t] = "locked"
  /\ run[t] \in live
  /\ i \in todo[t]
  /\ state' = [r \in Runs |-> IF r \in live THEN state[r] \cup {i} ELSE state[r]]
  /\ todo' = [todo EXCEPT ![t] = @ \ {i}]
  /\ UNCHANGED <<delegate, live, lock, marquez, control, pending, current, snap,
                 logged, owed, result, acked, counters>>

(* One value enters the RunState; set_tags and log_batch call              *)
(* _handle_model_history_tag from inside the critical section.             *)
Accumulate(t, i) ==
  LET models == IF method[t] = "log_batch" THEN ModelsOf({i}) ELSE {}
  IN /\ pc[t] = "locked"
     /\ run[t] \in live
     /\ i \in todo[t]
     /\ state' = [state EXCEPT ![run[t]] = @ \cup {i}]
     /\ todo' = [todo EXCEPT ![t] = @ \ {i}]
     /\ pending' = [pending EXCEPT ![t] = @ \cup models]
     /\ Goto(t, IF models # {} THEN "announce" ELSE "locked")
     /\ UNCHANGED <<delegate, live, lock, marquez, method, run, request, current,
                    snap, logged, owed, result, acked, counters>>

(* set_tag handles the models of a history tag under the lock. *)
FaultyRelease(t) ==
  /\ pc[t] = "locked"
  /\ run[t] \notin live \/ todo[t] = {}
  /\ \/ /\ pending[t] = {}
        /\ lock' = NoThread
        /\ Return(t, "ok", logged[t])
     \/ /\ pending[t] # {}
        /\ Goto(t, "announce")
        /\ UNCHANGED <<lock, method, run, request, local, result, acked>>
  /\ UNCHANGED <<delegate, live, state, marquez, counters>>

(* The critical section ends, at once when the run is not known here.      *)
Release(t) ==
  /\ pc[t] = "locked"
  /\ run[t] \notin live \/ todo[t] = {}
  /\ lock' = NoThread
  /\ \/ /\ pending[t] = {}
        /\ Return(t, "ok", logged[t])
     \/ /\ pending[t] # {}
        /\ Goto(t, "announce")
        /\ UNCHANGED <<method, run, request, local, result, acked>>
  /\ UNCHANGED <<delegate, live, state, marquez, counters>>

(* The DatasetEvent of one dataset or model is posted, whatever its fate.  *)
AnnounceDataset(t, d) ==
  /\ pc[t] = "announce"
  /\ d \in pending[t]
  /\ current' = [current EXCEPT ![t] = {d}]
  /\ Goto(t, "append")
  /\ UNCHANGED <<delegate, memory, marquez, method, run, request, todo, pending,
                 snap, logged, owed, result, acked, counters>>

(* The loop goes on with rest; after it comes the loop under the lock the  *)
(* thread still holds, the models of log_inputs, or the return.            *)
Advance(t, rest, done) ==
  LET label == IF rest # {} THEN "announce"
               ELSE IF lock = t THEN "locked"
               ELSE IF method[t] = "log_inputs" THEN "acquire" ELSE "idle"
  IN \/ label = "idle" /\ Return(t, "ok", done)
     \/ /\ label # "idle"
        /\ Goto(t, label)
        /\ pending' = [pending EXCEPT ![t] = rest]
        /\ current' = [current EXCEPT ![t] = {}]
        /\ logged' = [logged EXCEPT ![t] = done]
        /\ UNCHANGED <<method, run, request, todo, snap, owed, result, acked>>

(* Appending takes the lock: a thread that holds it already waits forever. *)
AppendDataset(t) ==
  /\ pc[t] = "append"
  /\ lock = NoThread
  /\ state' = IF run[t] \in live
              THEN [state EXCEPT ![run[t]] = @ \cup current[t]]
              ELSE state
  /\ Advance(t, pending[t] \ current[t], logged[t])
  /\ UNCHANGED <<delegate, live, lock, marquez, counters>>

(* Extracting or parsing fails with a warning: log_inputs and log_outputs  *)
(* skip that dataset, the history handler gives up on all that are left.   *)
SkipDataset(t, d) ==
  LET dropped == IF method[t] \in {"log_inputs", "log_outputs"}
                 THEN {d} ELSE pending[t]
  IN /\ pc[t] = "announce"
     /\ d \in pending[t]
     /\ Advance(t, pending[t] \ dropped, logged[t] \ dropped)
     /\ UNCHANGED <<delegate, memory, marquez, counters>>

-----------------------------------------------------------------------------
(* The process dies: its memory and threads are lost; the delegate and the *)
(* lineage backend are not.  A new process may go on with the same runs.   *)
Crash ==
  /\ crashes < MaxCrashes
  /\ crashes' = crashes + 1
  /\ live' = {}
  /\ lock' = NoThread
  /\ pc' = [t \in Threads |-> "idle"]
  /\ request' = [t \in Threads |-> "none"]
  /\ todo' = [t \in Threads |-> {}]
  /\ pending' = [t \in Threads |-> {}]
  /\ current' = [t \in Threads |-> {}]
  /\ snap' = [t \in Threads |-> {}]
  /\ logged' = [t \in Threads |-> {}]
  /\ owed' = [t \in Threads |-> {}]
  /\ UNCHANGED <<delegate, state, marquez, method, run, result, acked, calls>>

(* Every call of the bounded workload has returned. *)
Quiescent ==
  /\ calls = MaxCalls
  /\ \A t \in Threads : pc[t] = "idle"
  /\ UNCHANGED vars

Call(t) ==
  \E r \in Runs :
    \/ CreateRun(t, r)
    \/ \E s \in Statuses : UpdateRunInfo(t, r, s)
    \/ \E I \in SUBSET (Params \cup Metrics \cup BatchTags) : LogBatch(t, r, I)
    \/ \E g \in AllTags : SetTag(t, r, g)
    \/ \E D \in SUBSET Inputs, M \in SUBSET Outputs : LogInputs(t, r, D, M)
    \/ \E M \in SUBSET Outputs : LogOutputs(t, r, M)
    \/ \E part \in SUBSET (Params \cup Metrics \cup BatchTags) :
         DelegateRaises(t, r, part)

(* The steps a call takes once the delegate has answered. *)
Progress(t) ==
  \/ RegisterRun(t)
  \/ EmitStart(t)
  \/ LookupState(t)
  \/ BeginFilter(t)
  \/ EndFilter(t)
  \/ EmitTerminal(t)
  \/ ForgetRun(t)
  \/ Acquire(t)
  \/ \E i \in Item : Accumulate(t, i)
  \/ Release(t)
  \/ \E d \in Datasets : AnnounceDataset(t, d)
  \/ AppendDataset(t)
  \/ \E d \in Datasets : SkipDataset(t, d)

Next ==
  \/ \E t \in Threads : Call(t) \/ Progress(t)
  \/ Crash
  \/ Quiescent

Spec == Init /\ [][Next]_vars

(* Python runs every thread again and again; the calls are the callers'.   *)
FairSpec == Spec /\ \A t \in Threads : WF_vars(Progress(t))

-----------------------------------------------------------------------------
(* Properties *)

IsTerminal(event) == event.type \in {"COMPLETE", "FAIL"}

(* What the delegate holds for r, with the models its history tags name.   *)
Backed(r) == WithModels(stored[r])

(* Dual write, and isolation of concurrent runs: whatever a run event      *)
(* reports, and whatever is accumulated for one, MLflow accepted for that  *)
(* very run, however the calls of several threads interleave.              *)
ReportedIsStored ==
  \A r \in Runs :
    /\ state[r] \subseteq Backed(r)
    /\ \A i \in DOMAIN marquez[r] : marquez[r][i].items \subseteq Backed(r)

(* The store implements the ledger its readers rely on: its steps append   *)
(* to MLflow's record or report what is recorded, or change neither.       *)
Ledger == INSTANCE RunLedger
            WITH recorded <- [r \in Runs |-> Backed(r)], reported <- marquez
ImplementsLedger == Ledger!Spec

(* The accumulator forgets nothing: a COMPLETE (FAIL) event carries every  *)
(* value (dataset) whose logging call had returned before update_run_info  *)
(* was called; system tags are left out on purpose.                        *)
TerminalCarriesLogged ==
  \A r \in Runs : \A i \in DOMAIN marquez[r] :
    marquez[r][i].owed \ HistoryTags \subseteq marquez[r][i].items

(* A run ends once: no two terminal events for it.                         *)
AtMostOneTerminal ==
  \A r \in Runs : \A i, j \in DOMAIN marquez[r] :
    IsTerminal(marquez[r][i]) /\ IsTerminal(marquez[r][j]) => i = j

(* With a backend that loses nothing, a run's first event is its START and *)
(* the START is not repeated.                                              *)
StartOpensRun ==
  \A r \in Runs : \A i \in DOMAIN marquez[r] :
    (marquez[r][i].type = "START") <=> (i = 1)

Ending(r) ==
  \E t \in Threads :
    run[t] = r /\ method[t] = "update_run_info" /\ pc[t] # "idle"

(* A run the delegate holds as finished or failed has had its terminal     *)
(* event, once the call that ended it is over.                             *)
FinishedRunReported ==
  \A r \in Runs :
    status[r] \in {"FINISHED", "FAILED"} /\ ~Ending(r)
      => \E i \in DOMAIN marquez[r] : IsTerminal(marquez[r][i])

(* The per-run memory is released: the store keeps the state of a run      *)
(* that is over only while the call that ends it is still at work.         *)
StateReleased ==
  \A r \in live : status[r] = "RUNNING" \/ Ending(r)

(* A lineage problem never fails an MLflow call: the only error a caller   *)
(* sees is the delegate's own.                                             *)
MLflowStillSucceeds == \A t \in Threads : result[t] # "lineage_error"

(* No thread waits for the lock it holds itself.                           *)
NoSelfDeadlock ==
  \A t \in Threads : pc[t] = "append" => lock # t

(* Every call on the store returns, whatever the other threads do.         *)
CallsReturn == \A t \in Threads : pc[t] # "idle" ~> pc[t] = "idle"

=============================================================================
