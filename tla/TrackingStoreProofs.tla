------------------------- MODULE TrackingStoreProofs -------------------------
(***************************************************************************)
(* Theorems about TrackingStore for any threads, runs, keys and workload.  *)
(***************************************************************************)
EXTENDS TrackingStore, TLAPS

USE StoreAssumption, KindsAreDisjoint

(* The models of a set of tags are outputs, and grow with the set.         *)
LEMMA ModelsOfType == \A I : ModelsOf(I) \subseteq Outputs
  BY DEF ModelsOf

(* Growing a set of values grows what its history tags name.               *)
LEMMA ModelsOfMonotone ==
  ASSUME NEW I, NEW J, I \subseteq J
  PROVE  /\ ModelsOf(I) \subseteq ModelsOf(J)
         /\ WithModels(I) \subseteq WithModels(J)
  BY DEF ModelsOf, WithModels

(* Returning from a call leaves the variables of the thread well typed.    *)
LEMMA ReturnType ==
  ASSUME TypeOK, NEW t \in Threads,
         NEW outcome \in {"ok", "delegate_error", "lineage_error"},
         NEW done \in SUBSET Item, Return(t, outcome, done)
  PROVE  /\ pc' \in [Threads -> PCs]
         /\ method' \in [Threads -> Methods]
         /\ run' \in [Threads -> Runs]
         /\ request' \in [Threads -> Statuses \cup {"none"}]
         /\ todo' \in [Threads -> SUBSET Item]
         /\ pending' \in [Threads -> SUBSET Datasets]
         /\ current' \in [Threads -> SUBSET Datasets]
         /\ snap' \in [Threads -> SUBSET Item]
         /\ result' \in [Threads -> {"ok", "delegate_error", "lineage_error"}]
         /\ logged' \in [Threads -> SUBSET Item]
         /\ acked' \in [Runs -> SUBSET Item]
         /\ owed' \in [Threads -> SUBSET Item]
  BY DEF Return, Goto, TypeOK, PCs

(* So does moving on in a loop over datasets or models.                    *)
LEMMA AdvanceType ==
  ASSUME TypeOK, NEW t \in Threads,
         NEW rest \in SUBSET Datasets, NEW done \in SUBSET Item,
         Advance(t, rest, done)
  PROVE  /\ pc' \in [Threads -> PCs]
         /\ method' \in [Threads -> Methods]
         /\ run' \in [Threads -> Runs]
         /\ request' \in [Threads -> Statuses \cup {"none"}]
         /\ todo' \in [Threads -> SUBSET Item]
         /\ pending' \in [Threads -> SUBSET Datasets]
         /\ current' \in [Threads -> SUBSET Datasets]
         /\ snap' \in [Threads -> SUBSET Item]
         /\ result' \in [Threads -> {"ok", "delegate_error", "lineage_error"}]
         /\ logged' \in [Threads -> SUBSET Item]
         /\ acked' \in [Runs -> SUBSET Item]
         /\ owed' \in [Threads -> SUBSET Item]
<1> DEFINE label == IF rest # {} THEN "announce"
                    ELSE IF lock = t THEN "locked"
                    ELSE IF method[t] = "log_inputs" THEN "acquire" ELSE "idle"
<1>1. CASE label = "idle"
  BY <1>1, ReturnType DEF Advance
<1>2. CASE label # "idle"
  <2>1. label \in PCs
    BY DEF PCs
  <2>2. /\ pc' = [pc EXCEPT ![t] = label]
        /\ pending' = [pending EXCEPT ![t] = rest]
        /\ current' = [current EXCEPT ![t] = {}]
        /\ logged' = [logged EXCEPT ![t] = done]
        /\ UNCHANGED <<method, run, request, todo, snap, owed, result, acked>>
    BY <1>2 DEF Advance, Goto
  <2>3. QED
    BY <2>1, <2>2 DEF TypeOK
<1>3. QED
  BY <1>1, <1>2

(* Posting an event keeps the backend's record a sequence of events.       *)
LEMMA PostType ==
  ASSUME TypeOK, NEW r \in Runs, NEW event \in Event, Post(r, event)
  PROVE  marquez' \in [Runs -> Seq(Event)]
<1>1. Append(marquez[r], event) \in Seq(Event)
  BY DEF TypeOK
<1>2. CASE marquez' = [marquez EXCEPT ![r] = Append(@, event)]
  BY <1>1, <1>2 DEF TypeOK
<1>3. CASE UNCHANGED marquez
  BY <1>3 DEF TypeOK
<1>4. QED
  BY <1>2, <1>3 DEF Post

(* For any constants, every reachable state of the store is well typed.    *)
THEOREM TypeCorrect == Spec => []TypeOK
<1>1. Init => TypeOK
  BY DEF Init, TypeOK, PCs, Methods
<1>2. TypeOK /\ [Next]_vars => TypeOK'
  <2> SUFFICES ASSUME TypeOK, [Next]_vars PROVE TypeOK'
    OBVIOUS
  <2> USE DEF TypeOK, delegate, memory, control, local, counters, Enter, Goto
  <2>1. ASSUME NEW t \in Threads, NEW r \in Runs, CreateRun(t, r)
        PROVE TypeOK'
    BY <2>1 DEF CreateRun, PCs, Methods
  <2>2. ASSUME NEW t \in Threads, NEW r \in Runs, NEW s \in Statuses,
               UpdateRunInfo(t, r, s)
        PROVE TypeOK'
    BY <2>2 DEF UpdateRunInfo, PCs, Methods
  <2>3. ASSUME NEW t \in Threads, NEW r \in Runs,
               NEW I \in SUBSET (Params \cup Metrics \cup BatchTags),
               LogBatch(t, r, I)
        PROVE TypeOK'
    BY <2>3, ModelsOfType DEF LogBatch, WithModels, PCs, Methods, Item, AllTags
  <2>4. ASSUME NEW t \in Threads, NEW r \in Runs, NEW g \in AllTags,
               SetTag(t, r, g)
        PROVE TypeOK'
    BY <2>4, ModelsOfType
       DEF SetTag, WithModels, PCs, Methods, Item, AllTags, Datasets
  <2>5. ASSUME NEW t \in Threads, NEW r \in Runs, NEW D \in SUBSET Inputs,
               NEW M \in SUBSET Outputs, LogInputs(t, r, D, M)
        PROVE TypeOK'
    BY <2>5 DEF LogInputs, PCs, Methods, Item, Datasets
  <2>6. ASSUME NEW t \in Threads, NEW r \in Runs, NEW M \in SUBSET Outputs,
               LogOutputs(t, r, M)
        PROVE TypeOK'
    BY <2>6 DEF LogOutputs, PCs, Methods, Item, Datasets
  <2>7. ASSUME NEW t \in Threads, NEW r \in Runs,
               NEW part \in SUBSET (Params \cup Metrics \cup BatchTags),
               DelegateRaises(t, r, part)
        PROVE TypeOK'
    BY <2>7 DEF DelegateRaises, Item, AllTags
  <2>8. ASSUME NEW t \in Threads, RegisterRun(t)
        PROVE TypeOK'
    BY <2>8 DEF RegisterRun, PCs
  <2>9. ASSUME NEW t \in Threads, EmitStart(t)
        PROVE TypeOK'
    <3>1. logged[t] \in SUBSET Item
      OBVIOUS
    <3>2. marquez' \in [Runs -> Seq(Event)]
      <4>1. [type |-> "START", items |-> {}, owed |-> {}] \in Event
        BY DEF Event
      <4>2. QED
        BY <2>9, <4>1, PostType DEF EmitStart
    <3>3. QED
      BY <2>9, <3>1, <3>2, ReturnType DEF EmitStart
  <2>10. ASSUME NEW t \in Threads, LookupState(t)
         PROVE TypeOK'
    <3>1. CASE run[t] \notin live
      BY <2>10, <3>1, ReturnType DEF LookupState
    <3>2. CASE run[t] \in live
      <4>1. PICK label \in {"filter", "emit", "forget"} :
              pc' = [pc EXCEPT ![t] = label]
        BY <2>10, <3>2 DEF LookupState
      <4>2. UNCHANGED <<method, run, request, local, result, acked>>
        BY <2>10, <3>2 DEF LookupState
      <4>3. QED
        BY <2>10, <4>1, <4>2 DEF LookupState, PCs
    <3>3. QED
      BY <3>1, <3>2
  <2>11. ASSUME NEW t \in Threads, BeginFilter(t) \/ EndFilter(t)
         PROVE TypeOK'
    <3>1. CASE BeginFilter(t)
      BY <3>1 DEF BeginFilter, PCs
    <3>2. CASE EndFilter(t)
      <4>1. CASE state[run[t]] \cap AllTags # snap[t] \cap AllTags
        BY <3>2, <4>1, ReturnType DEF EndFilter
      <4>2. CASE state[run[t]] \cap AllTags = snap[t] \cap AllTags
        <5>1. /\ pc' = [pc EXCEPT ![t] = "emit"]
              /\ snap' = [snap EXCEPT ![t] = state[run[t]] \ HistoryTags]
              /\ UNCHANGED <<method, run, request, todo, pending, current,
                             logged, owed, result, acked>>
          BY <3>2, <4>2 DEF EndFilter
        <5>2. QED
          BY <3>2, <5>1 DEF EndFilter, PCs
      <4>3. QED
        BY <4>1, <4>2
    <3>3. QED
      BY <2>11, <3>1, <3>2
  <2>12. ASSUME NEW t \in Threads, EmitTerminal(t)
         PROVE TypeOK'
    <3>1. CompleteItems(t) \in SUBSET Item
      BY DEF CompleteItems
    <3>2. PICK event \in Event : Post(run[t], event)
      BY <2>12, <3>1 DEF EmitTerminal, Event
    <3>3. marquez' \in [Runs -> Seq(Event)]
      BY <3>2, PostType
    <3>4. QED
      BY <2>12, <3>3 DEF EmitTerminal, PCs
  <2>13. ASSUME NEW t \in Threads, ForgetRun(t)
         PROVE TypeOK'
    BY <2>13, ReturnType DEF ForgetRun
  <2>14. ASSUME NEW t \in Threads, Acquire(t) \/ Release(t)
         PROVE TypeOK'
    <3>1. CASE Acquire(t)
      BY <3>1 DEF Acquire, PCs
    <3>2. CASE Release(t) /\ pending[t] = {}
      BY <3>2, ReturnType DEF Release
    <3>3. CASE Release(t) /\ pending[t] # {}
      <4>1. /\ pc' = [pc EXCEPT ![t] = "announce"]
            /\ UNCHANGED <<method, run, request, local, result, acked>>
        BY <3>3 DEF Release
      <4>2. QED
        BY <3>3, <4>1 DEF Release, PCs
    <3>4. QED
      BY <2>14, <3>1, <3>2, <3>3
  <2>15. ASSUME NEW t \in Threads, NEW i \in Item, Accumulate(t, i)
         PROVE TypeOK'
    BY <2>15, ModelsOfType DEF Accumulate, PCs, Datasets
  <2>16. ASSUME NEW t \in Threads, NEW d \in Datasets, AnnounceDataset(t, d)
         PROVE TypeOK'
    BY <2>16 DEF AnnounceDataset, PCs
  <2>17. ASSUME NEW t \in Threads, AppendDataset(t)
         PROVE TypeOK'
    <3>1. state' \in [Runs -> SUBSET Item]
      BY <2>17 DEF AppendDataset, Item, Datasets
    <3>2. /\ pending[t] \ current[t] \in SUBSET Datasets /\ logged[t] \in SUBSET Item
          /\ Advance(t, pending[t] \ current[t], logged[t])
          /\ UNCHANGED <<delegate, live, lock, marquez, counters>>
      BY <2>17 DEF AppendDataset
    <3>3. QED
      BY <3>1, <3>2, AdvanceType
  <2>18. ASSUME NEW t \in Threads, NEW d \in Datasets, SkipDataset(t, d)
         PROVE TypeOK'
    <3> DEFINE dropped == IF method[t] \in {"log_inputs", "log_outputs"}
                          THEN {d} ELSE pending[t]
    <3>1. Advance(t, pending[t] \ dropped, logged[t] \ dropped)
      BY <2>18 DEF SkipDataset
    <3>2. /\ pending[t] \ dropped \in SUBSET Datasets
          /\ logged[t] \ dropped \in SUBSET Item
      OBVIOUS
    <3> HIDE DEF dropped
    <3>3. QED
      BY <2>18, <3>1, <3>2, AdvanceType DEF SkipDataset
  <2>19. CASE Crash
    BY <2>19 DEF Crash, PCs
  <2>20. CASE UNCHANGED vars
    BY <2>20 DEF vars
  <2>21. QED
    BY <2>1, <2>2, <2>3, <2>4, <2>5, <2>6, <2>7, <2>8, <2>9, <2>10, <2>11,
       <2>12, <2>13, <2>14, <2>15, <2>16, <2>17, <2>18, <2>19, <2>20
       DEF Next, Call, Progress, Quiescent
<1>3. QED
  BY <1>1, <1>2, PTL DEF Spec
-----------------------------------------------------------------------------
(* Nothing unrecorded is reported.  ReportedIsStored is not inductive: the *)
(* values a thread carries between its delegate call and its critical      *)
(* section, and the copy update_run_info took, must be recorded as well.   *)
Carried(t) == todo[t] \cup pending[t] \cup current[t] \cup snap[t]

CarriedIsStored ==
  \A t \in Threads :
    /\ Carried(t) \subseteq Backed(run[t])
    /\ pc[t] = "idle" => Carried(t) = {}

RecordInv == TypeOK /\ CarriedIsStored /\ ReportedIsStored

(* A step records values for one run at the most, and never removes any.   *)
LEMMA StoreStep ==
  ASSUME TypeOK, [Next]_vars
  PROVE  \/ UNCHANGED stored
         \/ \E r \in Runs, I \in SUBSET Item :
              stored' = [stored EXCEPT ![r] = @ \cup I]
<1> USE DEF delegate, memory, control, local, counters, Item, AllTags, Datasets
<1>1. CASE UNCHANGED vars
  BY <1>1 DEF vars
<1>2. CASE Crash \/ Quiescent
  BY <1>2 DEF Crash, Quiescent, vars
<1>3. ASSUME NEW t \in Threads, Progress(t)
      PROVE  UNCHANGED stored
  BY <1>3 DEF Progress, RegisterRun, EmitStart, LookupState, BeginFilter,
     EndFilter, EmitTerminal, ForgetRun, Acquire, Accumulate, Release,
     AnnounceDataset, AppendDataset, SkipDataset
<1>4. ASSUME NEW t \in Threads, Call(t)
      PROVE  \/ UNCHANGED stored
             \/ \E r \in Runs, I \in SUBSET Item :
                  stored' = [stored EXCEPT ![r] = @ \cup I]
  <2> PICK r \in Runs :
        \/ CreateRun(t, r)
        \/ \E s \in Statuses : UpdateRunInfo(t, r, s)
        \/ \E I \in SUBSET (Params \cup Metrics \cup BatchTags) : LogBatch(t, r, I)
        \/ \E g \in AllTags : SetTag(t, r, g)
        \/ \E D \in SUBSET Inputs, M \in SUBSET Outputs : LogInputs(t, r, D, M)
        \/ \E M \in SUBSET Outputs : LogOutputs(t, r, M)
        \/ \E part \in SUBSET (Params \cup Metrics \cup BatchTags) :
             DelegateRaises(t, r, part)
    BY <1>4 DEF Call
  <2>1. CASE CreateRun(t, r) \/ \E s \in Statuses : UpdateRunInfo(t, r, s)
    BY <2>1 DEF CreateRun, UpdateRunInfo
  <2>2. CASE \E I \in SUBSET (Params \cup Metrics \cup BatchTags) :
               LogBatch(t, r, I) \/ DelegateRaises(t, r, I)
    <3> PICK I \in SUBSET (Params \cup Metrics \cup BatchTags) :
               LogBatch(t, r, I) \/ DelegateRaises(t, r, I)
      BY <2>2
    <3>1. I \in SUBSET Item /\ stored' = [stored EXCEPT ![r] = @ \cup I]
      BY DEF LogBatch, DelegateRaises
    <3>2. QED
      BY <3>1
  <2>3. CASE \E g \in AllTags : SetTag(t, r, g)
    <3> PICK g \in AllTags : SetTag(t, r, g)
      BY <2>3
    <3>1. {g} \in SUBSET Item /\ stored' = [stored EXCEPT ![r] = @ \cup {g}]
      BY DEF SetTag
    <3>2. QED
      BY <3>1
  <2>4. CASE \E D \in SUBSET Inputs, M \in SUBSET Outputs : LogInputs(t, r, D, M)
    <3> PICK D \in SUBSET Inputs, M \in SUBSET Outputs : LogInputs(t, r, D, M)
      BY <2>4
    <3>1. D \cup M \in SUBSET Item /\ stored' = [stored EXCEPT ![r] = @ \cup (D \cup M)]
      BY DEF LogInputs
    <3>2. QED
      BY <3>1
  <2>5. CASE \E M \in SUBSET Outputs : LogOutputs(t, r, M)
    <3> PICK M \in SUBSET Outputs : LogOutputs(t, r, M)
      BY <2>5
    <3>1. M \in SUBSET Item /\ stored' = [stored EXCEPT ![r] = @ \cup M]
      BY DEF LogOutputs
    <3>2. QED
      BY <3>1
  <2>6. QED
    BY <2>1, <2>2, <2>3, <2>4, <2>5
<1>5. QED
  BY <1>1, <1>2, <1>3, <1>4 DEF Next

(* MLflow forgets nothing: what backs a run's events only grows.           *)
LEMMA BackedGrows ==
  ASSUME TypeOK, [Next]_vars, NEW r \in Runs
  PROVE  /\ stored[r] \subseteq stored'[r]
         /\ WithModels(stored[r]) \subseteq WithModels(stored'[r])
<1>1. stored[r] \subseteq stored'[r]
  <2>1. CASE UNCHANGED stored
    BY <2>1
  <2>2. ASSUME NEW s \in Runs, NEW I \in SUBSET Item,
               stored' = [stored EXCEPT ![s] = @ \cup I]
        PROVE  stored[r] \subseteq stored'[r]
    BY <2>2 DEF TypeOK
  <2>3. QED
    BY <2>1, <2>2, StoreStep
<1>2. QED
  BY <1>1, ModelsOfMonotone

(* The values a call logs are recorded once the delegate has accepted them. *)
LEMMA LoggedIsBacked ==
  ASSUME TypeOK, NEW r \in Runs, NEW I \in SUBSET Item,
         stored' = [stored EXCEPT ![r] = @ \cup I]
  PROVE  /\ I \subseteq WithModels(stored'[r])
         /\ WithModels(I) \subseteq WithModels(stored'[r])
<1>1. I \subseteq stored'[r]
  BY DEF TypeOK
<1>2. QED
  BY <1>1, ModelsOfMonotone DEF WithModels

(* It is enough to look at the thread that takes the step.                 *)
LEMMA CarriedFrame ==
  ASSUME RecordInv, [Next]_vars, NEW t \in Threads,
         \A u \in Threads \ {t} :
           /\ pc'[u] = pc[u] /\ run'[u] = run[u]
           /\ todo'[u] = todo[u] /\ pending'[u] = pending[u]
           /\ current'[u] = current[u] /\ snap'[u] = snap[u],
         todo'[t] \cup pending'[t] \cup current'[t] \cup snap'[t]
           \subseteq WithModels(stored'[run'[t]]),
         pc'[t] = "idle"
           => todo'[t] \cup pending'[t] \cup current'[t] \cup snap'[t] = {}
  PROVE  CarriedIsStored'
<1> SUFFICES ASSUME NEW u \in Threads
             PROVE  /\ Carried(u)' \subseteq Backed(run[u])'
                    /\ pc'[u] = "idle" => Carried(u)' = {}
  BY DEF CarriedIsStored
<1>1. CASE u = t
  BY <1>1 DEF Carried, Backed
<1>2. CASE u # t
  <2>1. run[u] \in Runs
    BY DEF RecordInv, TypeOK
  <2>2. WithModels(stored[run[u]]) \subseteq WithModels(stored'[run[u]])
    BY <2>1, BackedGrows DEF RecordInv
  <2>3. /\ Carried(u) \subseteq WithModels(stored[run[u]])
        /\ pc[u] = "idle" => Carried(u) = {}
    BY DEF RecordInv, CarriedIsStored, Backed
  <2>4. QED
    BY <1>2, <2>2, <2>3 DEF Carried, Backed
<1>3. QED
  BY <1>1, <1>2

(* A step that records nothing and gives the thread no new value.          *)
LEMMA CarriedShrinks ==
  ASSUME RecordInv, [Next]_vars, NEW t \in Threads,
         \A u \in Threads \ {t} :
           /\ pc'[u] = pc[u] /\ run'[u] = run[u]
           /\ todo'[u] = todo[u] /\ pending'[u] = pending[u]
           /\ current'[u] = current[u] /\ snap'[u] = snap[u],
         run'[t] = run[t],
         todo'[t] \cup pending'[t] \cup current'[t] \cup snap'[t]
           \subseteq Carried(t) \cup state[run[t]],
         pc'[t] = "idle"
           => todo'[t] \cup pending'[t] \cup current'[t] \cup snap'[t] = {}
  PROVE  CarriedIsStored'
<1>1. run[t] \in Runs
  BY DEF RecordInv, TypeOK
<1>2. WithModels(stored[run[t]]) \subseteq WithModels(stored'[run[t]])
  BY <1>1, BackedGrows DEF RecordInv
<1>3. Carried(t) \cup state[run[t]] \subseteq WithModels(stored[run[t]])
  BY <1>1 DEF RecordInv, CarriedIsStored, ReportedIsStored, Backed
<1>4. QED
  BY <1>2, <1>3, CarriedFrame

(* Returning clears what the thread carried.                               *)
LEMMA ReturnCarriesNothing ==
  ASSUME RecordInv, [Next]_vars, NEW t \in Threads, NEW outcome, NEW done,
         Return(t, outcome, done)
  PROVE  CarriedIsStored'
<1>1. /\ todo'[t] = {} /\ pending'[t] = {} /\ current'[t] = {} /\ snap'[t] = {}
      /\ run' = run
      /\ \A u \in Threads \ {t} :
           /\ pc'[u] = pc[u] /\ run'[u] = run[u]
           /\ todo'[u] = todo[u] /\ pending'[u] = pending[u]
           /\ current'[u] = current[u] /\ snap'[u] = snap[u]
  BY DEF RecordInv, TypeOK, Return, Goto
<1>2. QED
  BY <1>1, CarriedShrinks

(* Moving on in a loop adds no value to those the thread carries.          *)
LEMMA AdvanceCarriesNoMore ==
  ASSUME RecordInv, [Next]_vars, NEW t \in Threads,
         NEW rest \in SUBSET pending[t], NEW done, Advance(t, rest, done)
  PROVE  CarriedIsStored'
<1> DEFINE label == IF rest # {} THEN "announce"
                    ELSE IF lock = t THEN "locked"
                    ELSE IF method[t] = "log_inputs" THEN "acquire" ELSE "idle"
<1>1. CASE label = "idle"
  BY <1>1, ReturnCarriesNothing DEF Advance
<1>2. CASE label # "idle"
  <2>1. /\ pc' = [pc EXCEPT ![t] = label]
        /\ pending' = [pending EXCEPT ![t] = rest]
        /\ current' = [current EXCEPT ![t] = {}]
        /\ UNCHANGED <<run, todo, snap>>
    BY <1>2 DEF Advance, Goto
  <2>2. /\ todo'[t] \cup pending'[t] \cup current'[t] \cup snap'[t] \subseteq Carried(t)
        /\ pc'[t] # "idle"
        /\ \A u \in Threads \ {t} :
             /\ pc'[u] = pc[u] /\ run'[u] = run[u]
             /\ todo'[u] = todo[u] /\ pending'[u] = pending[u]
             /\ current'[u] = current[u] /\ snap'[u] = snap[u]
    BY <1>2, <2>1 DEF RecordInv, TypeOK, Carried
  <2>3. QED
    BY <2>1, <2>2, CarriedShrinks
<1>3. QED
  BY <1>1, <1>2

(* Every step leaves the threads with recorded values only. *)
LEMMA CarriedStep ==
  ASSUME RecordInv, [Next]_vars
  PROVE  CarriedIsStored'
<1> USE DEF RecordInv, TypeOK, delegate, memory, control, local, counters,
            Enter, Goto
<1> DEFINE Others(t) ==
      \A u \in Threads \ {t} :
        /\ pc'[u] = pc[u] /\ run'[u] = run[u]
        /\ todo'[u] = todo[u] /\ pending'[u] = pending[u]
        /\ current'[u] = current[u] /\ snap'[u] = snap[u]
<1>0. \A t \in Threads : pc[t] = "idle" => Carried(t) = {}
  BY DEF CarriedIsStored
<1>1. ASSUME NEW t \in Threads, NEW r \in Runs, CreateRun(t, r)
      PROVE  CarriedIsStored'
  <2>1. Carried(t) = {}
    BY <1>0, <1>1 DEF CreateRun
  <2>2. /\ todo'[t] \cup pending'[t] \cup current'[t] \cup snap'[t] = {}
        /\ Others(t)
    BY <1>1, <2>1 DEF CreateRun, Carried
  <2>3. QED
    BY <2>2, CarriedFrame
<1>2. ASSUME NEW t \in Threads, NEW r \in Runs, NEW s \in Statuses,
             UpdateRunInfo(t, r, s)
      PROVE  CarriedIsStored'
  <2>1. Carried(t) = {}
    BY <1>0, <1>2 DEF UpdateRunInfo
  <2>2. /\ todo'[t] \cup pending'[t] \cup current'[t] \cup snap'[t] = {}
        /\ Others(t)
    BY <1>2, <2>1 DEF UpdateRunInfo, Carried
  <2>3. QED
    BY <2>2, CarriedFrame
<1>3. ASSUME NEW t \in Threads, NEW r \in Runs,
             NEW I \in SUBSET (Params \cup Metrics \cup BatchTags),
             LogBatch(t, r, I)
      PROVE  CarriedIsStored'
  <2>1. Carried(t) = {}
    BY <1>0, <1>3 DEF LogBatch
  <2>2. I \in SUBSET Item
    BY DEF Item, AllTags
  <2>3. I \subseteq WithModels(stored'[r])
    BY <1>3, <2>2, LoggedIsBacked DEF LogBatch
  <2>4. /\ todo'[t] \cup pending'[t] \cup current'[t] \cup snap'[t] = I
        /\ run'[t] = r /\ pc'[t] = "acquire"
        /\ Others(t)
    BY <1>3, <2>1 DEF LogBatch, Carried
  <2>5. QED
    BY <2>3, <2>4, CarriedFrame
<1>4. ASSUME NEW t \in Threads, NEW r \in Runs, NEW g \in AllTags,
             SetTag(t, r, g)
      PROVE  CarriedIsStored'
  <2>1. Carried(t) = {}
    BY <1>0, <1>4 DEF SetTag
  <2>2. {g} \in SUBSET Item
    BY DEF Item, AllTags
  <2>3. {g} \cup ModelsOf({g}) \subseteq WithModels(stored'[r])
    BY <1>4, <2>2, LoggedIsBacked DEF SetTag, WithModels
  <2>4. /\ todo'[t] \cup pending'[t] \cup current'[t] \cup snap'[t]
             = {g} \cup ModelsOf({g})
        /\ run'[t] = r /\ pc'[t] = "acquire"
        /\ Others(t)
    BY <1>4, <2>1 DEF SetTag, Carried
  <2>5. QED
    BY <2>3, <2>4, CarriedFrame
<1>5. ASSUME NEW t \in Threads, NEW r \in Runs, NEW D \in SUBSET Inputs,
             NEW M \in SUBSET Outputs, LogInputs(t, r, D, M)
      PROVE  CarriedIsStored'
  <2>1. Carried(t) = {}
    BY <1>0, <1>5 DEF LogInputs
  <2>2. D \cup M \in SUBSET Item /\ stored' = [stored EXCEPT ![r] = @ \cup (D \cup M)]
    BY <1>5 DEF Item, LogInputs
  <2>3. D \cup M \subseteq WithModels(stored'[r])
    <3> DEFINE I == D \cup M
    <3>1. I \in SUBSET Item /\ stored' = [stored EXCEPT ![r] = @ \cup I]
      BY <2>2
    <3> HIDE DEF I
    <3>2. I \subseteq WithModels(stored'[r])
      BY <3>1, LoggedIsBacked
    <3>3. QED
      BY <3>2 DEF I
  <2>4. /\ todo'[t] \cup pending'[t] \cup current'[t] \cup snap'[t] = D \cup M
        /\ run'[t] = r /\ pc'[t] # "idle"
        /\ Others(t)
    BY <1>5, <2>1 DEF LogInputs, Carried
  <2>5. QED
    BY <2>3, <2>4, CarriedFrame
<1>6. ASSUME NEW t \in Threads, NEW r \in Runs, NEW M \in SUBSET Outputs,
             LogOutputs(t, r, M)
      PROVE  CarriedIsStored'
  <2>1. Carried(t) = {}
    BY <1>0, <1>6 DEF LogOutputs
  <2>2. M \in SUBSET Item
    BY DEF Item
  <2>3. M \subseteq WithModels(stored'[r])
    BY <1>6, <2>2, LoggedIsBacked DEF LogOutputs
  <2>4. /\ todo'[t] \cup pending'[t] \cup current'[t] \cup snap'[t] = M
        /\ run'[t] = r /\ pc'[t] = "announce"
        /\ Others(t)
    BY <1>6, <2>1 DEF LogOutputs, Carried
  <2>5. QED
    BY <2>3, <2>4, CarriedFrame
<1>7. ASSUME NEW t \in Threads, NEW r \in Runs,
             NEW part \in SUBSET (Params \cup Metrics \cup BatchTags),
             DelegateRaises(t, r, part)
      PROVE  CarriedIsStored'
  <2>1. Carried(t) = {}
    BY <1>0, <1>7 DEF DelegateRaises
  <2>2. /\ todo'[t] \cup pending'[t] \cup current'[t] \cup snap'[t] = {}
        /\ Others(t)
    BY <1>7, <2>1 DEF DelegateRaises, Carried
  <2>3. QED
    BY <2>2, CarriedFrame
<1>8. ASSUME NEW t \in Threads, RegisterRun(t) \/ EmitTerminal(t) \/ Acquire(t)
      PROVE  CarriedIsStored'
  <2>1. /\ UNCHANGED <<run, todo, pending, current, snap>>
        /\ pc'[t] # "idle"
        /\ Others(t)
    BY <1>8 DEF RegisterRun, EmitTerminal, Acquire
  <2>2. QED
    BY <2>1, CarriedShrinks DEF Carried
<1>9. ASSUME NEW t \in Threads, EmitStart(t) \/ ForgetRun(t)
      PROVE  CarriedIsStored'
  BY <1>9, ReturnCarriesNothing DEF EmitStart, ForgetRun
<1>10. ASSUME NEW t \in Threads, LookupState(t)
       PROVE  CarriedIsStored'
  <2>1. CASE run[t] \notin live
    BY <1>10, <2>1, ReturnCarriesNothing DEF LookupState
  <2>2. CASE run[t] \in live
    <3>1. PICK label \in {"filter", "emit", "forget"} :
            pc' = [pc EXCEPT ![t] = label]
      BY <1>10, <2>2 DEF LookupState
    <3>2. UNCHANGED <<run, todo, pending, current, snap>>
      BY <1>10, <2>2 DEF LookupState
    <3>3. pc'[t] # "idle" /\ Others(t)
      BY <3>1, <3>2
    <3>4. QED
      BY <3>2, <3>3, CarriedShrinks DEF Carried
  <2>3. QED
    BY <2>1, <2>2
<1>11. ASSUME NEW t \in Threads, BeginFilter(t)
       PROVE  CarriedIsStored'
  <2>1. /\ UNCHANGED <<run, todo, pending, current>>
        /\ snap'[t] = state[run[t]]
        /\ pc'[t] # "idle"
        /\ Others(t)
    BY <1>11 DEF BeginFilter
  <2>2. QED
    BY <2>1, CarriedShrinks DEF Carried
<1>12. ASSUME NEW t \in Threads, EndFilter(t)
       PROVE  CarriedIsStored'
  <2>1. CASE state[run[t]] \cap AllTags # snap[t] \cap AllTags
    BY <1>12, <2>1, ReturnCarriesNothing DEF EndFilter
  <2>2. CASE state[run[t]] \cap AllTags = snap[t] \cap AllTags
    <3>1. /\ pc' = [pc EXCEPT ![t] = "emit"]
          /\ snap' = [snap EXCEPT ![t] = state[run[t]] \ HistoryTags]
          /\ UNCHANGED <<run, todo, pending, current>>
      BY <1>12, <2>2 DEF EndFilter
    <3>2. /\ snap'[t] \subseteq state[run[t]]
          /\ pc'[t] # "idle"
          /\ Others(t)
      BY <3>1
    <3>3. QED
      BY <3>1, <3>2, CarriedShrinks DEF Carried
  <2>3. QED
    BY <2>1, <2>2
<1>13. ASSUME NEW t \in Threads, NEW i \in Item, Accumulate(t, i)
       PROVE  CarriedIsStored'
  <2> DEFINE models == IF method[t] = "log_batch" THEN ModelsOf({i}) ELSE {}
  <2>1. run[t] \in Runs /\ i \in WithModels(stored[run[t]])
    BY <1>13 DEF Accumulate, CarriedIsStored, Carried, Backed
  <2>2. ModelsOf({i}) \subseteq WithModels(stored[run[t]])
    <3>1. CASE i \in HistoryTags
      <4>1. {i} \subseteq stored[run[t]]
        <5>1. i \notin Outputs
          BY <3>1 DEF Datasets, AllTags
        <5>2. i \notin ModelsOf(stored[run[t]])
          BY <5>1, ModelsOfType
        <5>3. QED
          BY <2>1, <5>2 DEF WithModels
      <4>2. ModelsOf({i}) \subseteq ModelsOf(stored[run[t]])
        BY <4>1, ModelsOfMonotone
      <4>3. QED
        BY <4>2 DEF WithModels
    <3>2. CASE i \notin HistoryTags
      BY <3>2 DEF ModelsOf
    <3>3. QED
      BY <3>1, <3>2
  <2>3. /\ run' = run
        /\ todo'[t] = todo[t] \ {i}
        /\ pending'[t] = pending[t] \cup models
        /\ UNCHANGED <<current, snap>>
        /\ pc'[t] # "idle"
        /\ Others(t)
    BY <1>13 DEF Accumulate
  <2>4. WithModels(stored[run[t]]) \subseteq WithModels(stored'[run[t]])
    BY <2>1, BackedGrows
  <2>5. Carried(t) \subseteq WithModels(stored[run[t]])
    BY DEF CarriedIsStored, Backed
  <2>6. todo'[t] \cup pending'[t] \cup current'[t] \cup snap'[t]
          \subseteq WithModels(stored[run[t]])
    BY <2>2, <2>3, <2>5 DEF Carried
  <2>7. QED
    BY <2>3, <2>4, <2>6, CarriedFrame
<1>14. ASSUME NEW t \in Threads, Release(t)
       PROVE  CarriedIsStored'
  <2>1. CASE pending[t] = {}
    BY <1>14, <2>1, ReturnCarriesNothing DEF Release
  <2>2. CASE pending[t] # {}
    <3>1. /\ UNCHANGED <<run, todo, pending, current, snap>>
          /\ pc' = [pc EXCEPT ![t] = "announce"]
      BY <1>14, <2>2 DEF Release
    <3>2. pc'[t] # "idle" /\ Others(t)
      BY <3>1
    <3>3. QED
      BY <3>1, <3>2, CarriedShrinks DEF Carried
  <2>3. QED
    BY <2>1, <2>2
<1>15. ASSUME NEW t \in Threads, NEW d \in Datasets, AnnounceDataset(t, d)
       PROVE  CarriedIsStored'
  <2>1. /\ UNCHANGED <<run, todo, pending, snap>>
        /\ current'[t] \subseteq pending[t]
        /\ pc'[t] # "idle"
        /\ Others(t)
    BY <1>15 DEF AnnounceDataset
  <2>2. QED
    BY <2>1, CarriedShrinks DEF Carried
<1>16. ASSUME NEW t \in Threads, AppendDataset(t)
       PROVE  CarriedIsStored'
  BY <1>16, AdvanceCarriesNoMore DEF AppendDataset
<1>17. ASSUME NEW t \in Threads, NEW d \in Datasets, SkipDataset(t, d)
       PROVE  CarriedIsStored'
  <2> DEFINE dropped == IF method[t] \in {"log_inputs", "log_outputs"}
                        THEN {d} ELSE pending[t]
  <2>1. Advance(t, pending[t] \ dropped, logged[t] \ dropped)
    BY <1>17 DEF SkipDataset
  <2>2. pending[t] \ dropped \in SUBSET pending[t]
    OBVIOUS
  <2> HIDE DEF dropped
  <2>3. QED
    BY <2>1, <2>2, AdvanceCarriesNoMore
<1>18. CASE Crash
  <2>1. \A u \in Threads : Carried(u)' = {}
    BY <1>18 DEF Crash, Carried
  <2>2. QED
    BY <2>1 DEF CarriedIsStored
<1>19. CASE UNCHANGED vars
  BY <1>19 DEF vars, CarriedIsStored, Carried, Backed
<1>20. QED
  BY <1>1, <1>2, <1>3, <1>4, <1>5, <1>6, <1>7, <1>8, <1>9, <1>10, <1>11,
     <1>12, <1>13, <1>14, <1>15, <1>16, <1>17, <1>18, <1>19
     DEF Next, Call, Progress, Quiescent

(* Posting an event made of recorded values keeps every report recorded.   *)
LEMMA PostReportsStored ==
  ASSUME RecordInv, [Next]_vars, NEW r \in Runs, NEW event \in Event,
         Post(r, event), event.items \subseteq WithModels(stored[r])
  PROVE  \A s \in Runs : \A i \in DOMAIN marquez'[s] :
           marquez'[s][i].items \subseteq WithModels(stored'[s])
<1> SUFFICES ASSUME NEW s \in Runs, NEW i \in DOMAIN marquez'[s]
             PROVE  marquez'[s][i].items \subseteq WithModels(stored'[s])
  OBVIOUS
<1>1. WithModels(stored[s]) \subseteq WithModels(stored'[s])
  BY BackedGrows DEF RecordInv
<1>2. \A k \in DOMAIN marquez[s] : marquez[s][k].items \subseteq WithModels(stored[s])
  BY DEF RecordInv, ReportedIsStored, Backed
<1>3. CASE UNCHANGED marquez
  BY <1>1, <1>2, <1>3
<1>4. CASE marquez' = [marquez EXCEPT ![r] = Append(@, event)]
  <2>1. marquez[s] \in Seq(Event) /\ marquez \in [Runs -> Seq(Event)]
    BY DEF RecordInv, TypeOK
  <2>2. CASE s # r
    BY <1>1, <1>2, <1>4, <2>1, <2>2
  <2>3. CASE s = r
    <3>1. marquez'[s] = Append(marquez[s], event)
      BY <1>4, <2>1, <2>3
    <3>2. \/ i \in DOMAIN marquez[s] /\ marquez'[s][i] = marquez[s][i]
          \/ marquez'[s][i] = event
      BY <2>1, <3>1
    <3>3. QED
      BY <1>1, <1>2, <2>3, <3>2
  <2>4. QED
    BY <2>2, <2>3
<1>5. QED
  BY <1>3, <1>4 DEF Post

(* What is accumulated and what is reported stays recorded. *)
LEMMA ReportedStep ==
  ASSUME RecordInv, [Next]_vars
  PROVE  ReportedIsStored'
<1> USE DEF delegate, memory, control, local, counters
<1> DEFINE StateBacked == \A r \in Runs : state'[r] \subseteq WithModels(stored'[r])
           EventsBacked == \A r \in Runs : \A i \in DOMAIN marquez'[r] :
                             marquez'[r][i].items \subseteq WithModels(stored'[r])
<1>a. SUFFICES StateBacked /\ EventsBacked
  BY DEF ReportedIsStored, Backed
<1>b. /\ \A r \in Runs : state[r] \subseteq WithModels(stored[r])
      /\ \A r \in Runs : \A i \in DOMAIN marquez[r] :
           marquez[r][i].items \subseteq WithModels(stored[r])
      /\ \A t \in Threads : Carried(t) \subseteq WithModels(stored[run[t]])
      /\ \A r \in Runs : WithModels(stored[r]) \subseteq WithModels(stored'[r])
      /\ run \in [Threads -> Runs]
      /\ state \in [Runs -> SUBSET Item]
  BY BackedGrows
     DEF RecordInv, TypeOK, ReportedIsStored, CarriedIsStored, Backed
<1>c. UNCHANGED state => StateBacked
  BY <1>b
<1>d. UNCHANGED marquez => EventsBacked
  BY <1>b
<1>1. ASSUME NEW t \in Threads, Call(t)
      PROVE  UNCHANGED <<state, marquez>>
  BY <1>1 DEF Call, CreateRun, UpdateRunInfo, LogBatch, SetTag, LogInputs,
     LogOutputs, DelegateRaises
<1>2. ASSUME NEW t \in Threads,
             \/ LookupState(t) \/ BeginFilter(t) \/ EndFilter(t) \/ ForgetRun(t)
             \/ Acquire(t) \/ Release(t)
             \/ \E d \in Datasets : AnnounceDataset(t, d) \/ SkipDataset(t, d)
      PROVE  UNCHANGED <<state, marquez>>
  BY <1>2 DEF LookupState, BeginFilter, EndFilter, ForgetRun, Acquire, Release,
     AnnounceDataset, SkipDataset
<1>3. ASSUME NEW t \in Threads, RegisterRun(t)
      PROVE  StateBacked /\ EventsBacked
  <2>1. StateBacked
    BY <1>3, <1>b DEF RegisterRun
  <2>2. QED
    BY <1>3, <2>1, <1>d DEF RegisterRun
<1>4. ASSUME NEW t \in Threads, EmitStart(t)
      PROVE  StateBacked /\ EventsBacked
  <2>1. PICK event \in Event : Post(run[t], event) /\ event.items = {}
    BY <1>4 DEF EmitStart, Event
  <2>2. run[t] \in Runs /\ event.items \subseteq WithModels(stored[run[t]])
    BY <2>1, <1>b
  <2>3. EventsBacked
    BY <2>1, <2>2, PostReportsStored
  <2>4. QED
    BY <1>4, <2>3, <1>c DEF EmitStart
<1>5. ASSUME NEW t \in Threads, EmitTerminal(t)
      PROVE  StateBacked /\ EventsBacked
  <2>1. CompleteItems(t) \subseteq snap[t] \cup state[run[t]]
    BY DEF CompleteItems
  <2>2. snap[t] \subseteq Item /\ state[run[t]] \subseteq Item /\ owed[t] \subseteq Item
    BY DEF RecordInv, TypeOK
  <2>3. PICK event \in Event :
          Post(run[t], event) /\ event.items \subseteq snap[t] \cup state[run[t]]
    BY <1>5, <2>1, <2>2 DEF EmitTerminal, Event
  <2>4. run[t] \in Runs /\ event.items \subseteq WithModels(stored[run[t]])
    BY <2>3, <1>b DEF Carried
  <2>5. EventsBacked
    BY <2>3, <2>4, PostReportsStored
  <2>6. QED
    BY <1>5, <2>5, <1>c DEF EmitTerminal
<1>6. ASSUME NEW t \in Threads, NEW i \in Item, Accumulate(t, i)
      PROVE  StateBacked /\ EventsBacked
  <2>1. i \in WithModels(stored[run[t]])
    BY <1>6, <1>b DEF Accumulate, Carried
  <2>2. state' = [state EXCEPT ![run[t]] = @ \cup {i}] /\ UNCHANGED <<marquez>>
    BY <1>6 DEF Accumulate
  <2>3. StateBacked
    BY <2>1, <2>2, <1>b
  <2>4. QED
    BY <2>2, <2>3, <1>d
<1>7. ASSUME NEW t \in Threads, AppendDataset(t)
      PROVE  StateBacked /\ EventsBacked
  <2>1. current[t] \subseteq WithModels(stored[run[t]])
    BY <1>b DEF Carried
  <2>2. /\ \/ state' = [state EXCEPT ![run[t]] = @ \cup current[t]]
           \/ UNCHANGED state
        /\ UNCHANGED marquez
    BY <1>7 DEF AppendDataset
  <2>3. StateBacked
    BY <2>1, <2>2, <1>b
  <2>4. QED
    BY <2>2, <2>3, <1>d
<1>8. CASE Crash
  BY <1>8, <1>c, <1>d DEF Crash
<1>9. CASE UNCHANGED vars
  BY <1>9, <1>c, <1>d DEF vars
<1>10. QED
  BY <1>c, <1>d, <1>1, <1>2, <1>3, <1>4, <1>5, <1>6, <1>7, <1>8, <1>9
     DEF Next, Progress, Quiescent

(* The inductive invariant: carried and reported values are recorded.      *)
LEMMA RecordInvariant == Spec => []RecordInv
<1>1. Init => RecordInv
  <2>1. Init => TypeOK
    BY DEF Init, TypeOK, PCs, Methods
  <2>2. Init => CarriedIsStored /\ ReportedIsStored
    BY DEF Init, CarriedIsStored, ReportedIsStored, Carried
  <2>3. QED
    BY <2>1, <2>2 DEF RecordInv
<1>2. TypeOK' /\ RecordInv /\ [Next]_vars => RecordInv'
  BY CarriedStep, ReportedStep DEF RecordInv
<1>3. QED
  BY <1>1, <1>2, TypeCorrect, PTL DEF Spec

(* For any threads, runs and workload, however calls interleave and crash: *)
(* run events and accumulated state report only what MLflow has accepted   *)
(* for that run.                                                           *)
THEOREM ReportedIsAlwaysStored == Spec => []ReportedIsStored
<1>1. RecordInv => ReportedIsStored
  BY DEF RecordInv
<1>2. QED
  BY <1>1, RecordInvariant, PTL

-----------------------------------------------------------------------------
(* The store implements the ledger of RunLedger.                           *)

(* A union names the models its parts name.                                *)
LEMMA WithModelsOfUnion ==
  ASSUME NEW I, NEW J
  PROVE  WithModels(I \cup J) = WithModels(I) \cup WithModels(J)
  BY DEF WithModels, ModelsOf

(* A step records values, or reports recorded ones, or does neither.       *)
LEMMA StepKind ==
  ASSUME RecordInv, [Next]_vars
  PROVE  \/ UNCHANGED <<stored, marquez>>
         \/ \E r \in Runs, I \in SUBSET Item :
              /\ stored' = [stored EXCEPT ![r] = @ \cup I]
              /\ UNCHANGED marquez
         \/ \E r \in Runs, event \in Event :
              /\ event.items \subseteq WithModels(stored[r])
              /\ marquez' = [marquez EXCEPT ![r] = Append(@, event)]
              /\ UNCHANGED stored
<1> USE DEF delegate, memory, control, local, counters
<1> DEFINE Reports == \E r \in Runs, event \in Event :
                        /\ event.items \subseteq WithModels(stored[r])
                        /\ marquez' = [marquez EXCEPT ![r] = Append(@, event)]
                        /\ UNCHANGED stored
<1>1. ASSUME NEW t \in Threads, EmitStart(t)
      PROVE  UNCHANGED <<stored, marquez>> \/ Reports
  <2>1. PICK event \in Event : Post(run[t], event) /\ event.items = {}
    BY <1>1 DEF EmitStart, Event
  <2>2. run[t] \in Runs /\ event.items \subseteq WithModels(stored[run[t]])
    BY <2>1 DEF RecordInv, TypeOK
  <2>3. UNCHANGED stored
    BY <1>1 DEF EmitStart
  <2>4. QED
    BY <2>1, <2>2, <2>3 DEF Post
<1>2. ASSUME NEW t \in Threads, EmitTerminal(t)
      PROVE  UNCHANGED <<stored, marquez>> \/ Reports
  <2>1. CompleteItems(t) \subseteq snap[t] \cup state[run[t]]
    BY DEF CompleteItems
  <2>2. snap[t] \subseteq Item /\ state[run[t]] \subseteq Item /\ owed[t] \subseteq Item
    BY DEF RecordInv, TypeOK
  <2>3. PICK event \in Event :
          Post(run[t], event) /\ event.items \subseteq snap[t] \cup state[run[t]]
    BY <1>2, <2>1, <2>2 DEF EmitTerminal, Event
  <2>4. run[t] \in Runs /\ event.items \subseteq WithModels(stored[run[t]])
    BY <2>3 DEF RecordInv, TypeOK, CarriedIsStored, ReportedIsStored, Carried, Backed
  <2>5. UNCHANGED stored
    BY <1>2 DEF EmitTerminal
  <2>6. QED
    BY <2>3, <2>4, <2>5 DEF Post
<1>3. ASSUME NEW t \in Threads, Progress(t), ~EmitStart(t), ~EmitTerminal(t)
      PROVE  UNCHANGED <<stored, marquez>>
  BY <1>3 DEF Progress, RegisterRun, LookupState, BeginFilter, EndFilter,
     ForgetRun, Acquire, Accumulate, Release, AnnounceDataset, AppendDataset,
     SkipDataset
<1>4. ASSUME NEW t \in Threads, Call(t)
      PROVE  UNCHANGED marquez
  BY <1>4 DEF Call, CreateRun, UpdateRunInfo, LogBatch, SetTag, LogInputs,
     LogOutputs, DelegateRaises
<1>5. CASE Crash \/ Quiescent \/ UNCHANGED vars
  BY <1>5 DEF Crash, Quiescent, vars
<1>6. TypeOK
  BY DEF RecordInv
<1>7. QED
  BY <1>1, <1>2, <1>3, <1>4, <1>5, <1>6, StoreStep DEF Next

(* Every step of the store is a step of the ledger or leaves it unchanged. *)
THEOREM StoreImplementsLedger == Spec => ImplementsLedger
<1> DEFINE recorded == [r \in Runs |-> Backed(r)]
<1>1. Init => Ledger!Init
  <2>1. WithModels({}) = {}
    BY DEF WithModels, ModelsOf
  <2>2. QED
    BY <2>1 DEF Init, Ledger!Init, Backed
<1>2. RecordInv /\ [Next]_vars => [Ledger!Next]_<<recorded, marquez>>
  <2> SUFFICES ASSUME RecordInv, [Next]_vars
               PROVE  [Ledger!Next]_<<recorded, marquez>>
    OBVIOUS
  <2>1. CASE UNCHANGED <<stored, marquez>>
    BY <2>1 DEF Backed
  <2>2. ASSUME NEW r \in Runs, NEW I \in SUBSET Item, UNCHANGED marquez,
               stored' = [stored EXCEPT ![r] = @ \cup I]
        PROVE  Ledger!Next
    <3>1. WithModels(I) \in SUBSET Item
      BY ModelsOfType DEF WithModels, Item
    <3>2. \A s \in Runs :
            WithModels(stored'[s]) = IF s = r
                                     THEN WithModels(stored[s]) \cup WithModels(I)
                                     ELSE WithModels(stored[s])
      BY <2>2, WithModelsOfUnion DEF RecordInv, TypeOK
    <3>3. recorded' = [recorded EXCEPT ![r] = @ \cup WithModels(I)]
      BY <3>2 DEF Backed
    <3>4. Ledger!Record(r, WithModels(I))
      BY <2>2, <3>3 DEF Ledger!Record
    <3>5. QED
      BY <3>1, <3>4 DEF Ledger!Next
  <2>3. ASSUME NEW r \in Runs, NEW event \in Event, UNCHANGED stored,
               event.items \subseteq WithModels(stored[r]),
               marquez' = [marquez EXCEPT ![r] = Append(@, event)]
        PROVE  Ledger!Next
    <3>1. recorded' = recorded /\ event.items \subseteq recorded[r]
      BY <2>3 DEF Backed
    <3>2. Ledger!Report(r, event)
      BY <2>3, <3>1 DEF Ledger!Report
    <3>3. event \in Ledger!Event
      BY DEF Ledger!Event, Event
    <3>4. QED
      BY <3>2, <3>3 DEF Ledger!Next
  <2>4. QED
    BY <2>1, <2>2, <2>3, StepKind
<1>3. QED
  BY <1>1, <1>2, RecordInvariant, PTL DEF Spec, ImplementsLedger, Ledger!Spec

-----------------------------------------------------------------------------
(* The lock.  A thread holds it only while it runs the accumulation loop,  *)
(* and whoever runs that loop holds it: the loop excludes itself.  Only a  *)
(* history tag in a batch makes the loop enter the handler that waits for  *)
(* the lock again.                                                         *)
LockInv ==
  /\ \A t \in Threads : pc[t] = "locked" <=> lock = t
  /\ \A t \in Threads :
       method[t] = "log_batch" => todo[t] \cap HistoryTags = {}
  /\ \A t \in Threads : pc[t] = "idle" => todo[t] = {}

(* Returning keeps the lock discipline of a thread that does not hold it.  *)
LEMMA ReturnLock ==
  ASSUME TypeOK, LockInv, NEW t \in Threads, NEW outcome, NEW done,
         Return(t, outcome, done), lock' \in {lock, NoThread},
         lock' # t, lock = t \/ lock' = lock
  PROVE  LockInv'
<1>1. /\ pc' = [pc EXCEPT ![t] = "idle"] /\ todo' = [todo EXCEPT ![t] = {}]
      /\ method' = method
  BY DEF Return, Goto
<1>2. QED
  BY <1>1 DEF LockInv, TypeOK

(* No step breaks the lock discipline when batches hold no history tag.    *)
LEMMA LockStep ==
  ASSUME BatchTags \cap HistoryTags = {}, TypeOK, LockInv, [Next]_vars
  PROVE  LockInv'
<1> USE DEF TypeOK, delegate, memory, control, local, counters, Enter, Goto
<1>1. ASSUME NEW t \in Threads, NEW r \in Runs,
             \/ CreateRun(t, r)
             \/ \E s \in Statuses : UpdateRunInfo(t, r, s)
             \/ \E M \in SUBSET Outputs : LogOutputs(t, r, M)
      PROVE  LockInv'
  <2>1. PICK m \in {"create_run", "update_run_info", "log_outputs"},
             label \in {"register", "lookup", "announce"} :
          /\ pc[t] = "idle" /\ pc' = [pc EXCEPT ![t] = label]
          /\ method' = [method EXCEPT ![t] = m]
          /\ UNCHANGED <<lock, todo>>
    BY <1>1 DEF CreateRun, UpdateRunInfo, LogOutputs
  <2>2. QED
    BY <2>1 DEF LockInv
<1>19. ASSUME NEW t \in Threads, NEW r \in Runs,
              NEW part \in SUBSET (Params \cup Metrics \cup BatchTags),
              DelegateRaises(t, r, part)
       PROVE  LockInv'
  BY <1>19 DEF DelegateRaises, LockInv
<1>2. ASSUME NEW t \in Threads, NEW r \in Runs,
             NEW I \in SUBSET (Params \cup Metrics \cup BatchTags),
             LogBatch(t, r, I)
      PROVE  LockInv'
  <2>1. I \cap HistoryTags = {}
    BY DEF AllTags, Datasets
  <2>2. QED
    BY <1>2, <2>1 DEF LogBatch, LockInv
<1>3. ASSUME NEW t \in Threads, NEW r \in Runs, NEW g \in AllTags,
             SetTag(t, r, g)
      PROVE  LockInv'
  BY <1>3 DEF SetTag, LockInv
<1>4. ASSUME NEW t \in Threads, NEW r \in Runs, NEW D \in SUBSET Inputs,
             NEW M \in SUBSET Outputs, LogInputs(t, r, D, M)
      PROVE  LockInv'
  BY <1>4 DEF LogInputs, LockInv
<1>5. ASSUME NEW t \in Threads,
             RegisterRun(t) \/ BeginFilter(t) \/ EmitTerminal(t)
      PROVE  LockInv'
  <2>1. /\ UNCHANGED <<lock, method, todo>>
        /\ pc[t] \notin {"idle", "locked"}
        /\ \E label \in PCs \ {"idle", "locked"} : pc' = [pc EXCEPT ![t] = label]
    BY <1>5 DEF RegisterRun, BeginFilter, EmitTerminal, PCs
  <2>2. QED
    BY <2>1 DEF LockInv
<1>6. ASSUME NEW t \in Threads, EmitStart(t) \/ ForgetRun(t)
      PROVE  LockInv'
  BY <1>6, ReturnLock DEF EmitStart, ForgetRun, LockInv
<1>7. ASSUME NEW t \in Threads, LookupState(t)
      PROVE  LockInv'
  <2>1. CASE run[t] \notin live
    BY <1>7, <2>1, ReturnLock DEF LookupState, LockInv
  <2>2. CASE run[t] \in live
    <3>1. PICK label \in {"filter", "emit", "forget"} :
            pc' = [pc EXCEPT ![t] = label]
      BY <1>7, <2>2 DEF LookupState
    <3>2. UNCHANGED <<lock, method, todo>> /\ pc[t] = "lookup"
      BY <1>7, <2>2 DEF LookupState
    <3>3. QED
      BY <3>1, <3>2 DEF LockInv
  <2>3. QED
    BY <2>1, <2>2
<1>8. ASSUME NEW t \in Threads, EndFilter(t)
      PROVE  LockInv'
  <2>1. CASE state[run[t]] \cap AllTags # snap[t] \cap AllTags
    BY <1>8, <2>1, ReturnLock DEF EndFilter, LockInv
  <2>2. CASE state[run[t]] \cap AllTags = snap[t] \cap AllTags
    <3>1. /\ pc[t] = "iterate" /\ pc' = [pc EXCEPT ![t] = "emit"]
          /\ UNCHANGED <<lock, method, todo>>
      BY <1>8, <2>2 DEF EndFilter
    <3>2. QED
      BY <3>1 DEF LockInv
  <2>3. QED
    BY <2>1, <2>2
<1>9. ASSUME NEW t \in Threads, Acquire(t)
      PROVE  LockInv'
  BY <1>9 DEF Acquire, LockInv
<1>10. ASSUME NEW t \in Threads, NEW i \in Item, Accumulate(t, i)
       PROVE  LockInv'
  <2> DEFINE models == IF method[t] = "log_batch" THEN ModelsOf({i}) ELSE {}
  <2>1. models = {}
    BY <1>10 DEF Accumulate, LockInv, ModelsOf
  <2>2. /\ pc[t] = "locked" /\ pc' = [pc EXCEPT ![t] = "locked"]
        /\ todo' = [todo EXCEPT ![t] = @ \ {i}]
        /\ UNCHANGED <<lock, method>>
    BY <1>10, <2>1 DEF Accumulate
  <2>3. QED
    BY <2>2 DEF LockInv
<1>11. ASSUME NEW t \in Threads, Release(t)
       PROVE  LockInv'
  <2>1. lock = t /\ lock' = NoThread
    BY <1>11 DEF Release, LockInv
  <2>2. CASE pending[t] = {}
    BY <1>11, <2>1, <2>2, ReturnLock DEF Release
  <2>3. CASE pending[t] # {}
    <3>1. /\ pc' = [pc EXCEPT ![t] = "announce"]
          /\ UNCHANGED <<method, todo>>
      BY <1>11, <2>3 DEF Release
    <3>2. QED
      BY <2>1, <3>1 DEF LockInv
  <2>4. QED
    BY <2>2, <2>3
<1>12. ASSUME NEW t \in Threads, NEW d \in Datasets, AnnounceDataset(t, d)
       PROVE  LockInv'
  BY <1>12 DEF AnnounceDataset, LockInv
<1>13. ASSUME NEW t \in Threads, NEW rest, NEW done, Advance(t, rest, done),
              UNCHANGED lock, pc[t] \in {"announce", "append"}
       PROVE  LockInv'
  <2> DEFINE label == IF rest # {} THEN "announce"
                      ELSE IF lock = t THEN "locked"
                      ELSE IF method[t] = "log_inputs" THEN "acquire" ELSE "idle"
  <2>1. lock # t
    BY <1>13 DEF LockInv
  <2>2. CASE label = "idle"
    BY <1>13, <2>1, <2>2, ReturnLock DEF Advance
  <2>3. CASE label # "idle"
    <3>1. /\ label \in {"announce", "acquire"}
          /\ pc' = [pc EXCEPT ![t] = label]
          /\ UNCHANGED <<method, todo>>
      BY <1>13, <2>1, <2>3 DEF Advance
    <3>2. QED
      BY <1>13, <3>1 DEF LockInv
  <2>4. QED
    BY <2>2, <2>3
<1>14. ASSUME NEW t \in Threads, AppendDataset(t)
       PROVE  LockInv'
  BY <1>13, <1>14 DEF AppendDataset
<1>15. ASSUME NEW t \in Threads, NEW d \in Datasets, SkipDataset(t, d)
       PROVE  LockInv'
  BY <1>13, <1>15 DEF SkipDataset
<1>16. CASE Crash
  BY <1>16 DEF Crash, LockInv
<1>17. CASE UNCHANGED vars
  BY <1>17 DEF vars, LockInv
<1>18. QED
  BY <1>1, <1>2, <1>3, <1>4, <1>5, <1>6, <1>7, <1>8, <1>9, <1>10, <1>11,
     <1>12, <1>14, <1>15, <1>16, <1>17, <1>19 DEF Next, Call, Progress, Quiescent

(* No workload without a history tag in set_tags or log_batch ever makes a *)
(* thread wait for the lock it holds itself.                               *)
THEOREM NoSelfDeadlockOutsideBatches ==
  ASSUME BatchTags \cap HistoryTags = {}
  PROVE  Spec => []NoSelfDeadlock
<1>1. Init => LockInv
  BY DEF Init, LockInv
<1>2. TypeOK /\ LockInv /\ [Next]_vars => LockInv'
  BY LockStep
<1>3. LockInv => NoSelfDeadlock
  BY DEF LockInv, NoSelfDeadlock
<1>4. QED
  BY <1>1, <1>2, <1>3, TypeCorrect, PTL DEF Spec
=============================================================================
