----------------------- MODULE TrackingLifecycleProofs -----------------------
(***************************************************************************)
(* Theorems about what the store reports of a run and when it forgets it,  *)
(* for any threads, runs, keys and workload: nothing that was logged is    *)
(* missing in a terminal event; and, where the callers and the backend     *)
(* allow it, a run starts once, ends once, is reported and is forgotten.   *)
(***************************************************************************)
EXTENDS TrackingStoreProofs

USE StoreAssumption, KindsAreDisjoint

Creating == {"register", "start"}
Finishing == {"filter", "iterate", "emit", "forget"}
Logging == {"acquire", "locked", "announce", "append"}

(* What a logging call still has to accumulate. *)
Outstanding(t) ==
  todo[t] \cup pending[t] \cup current[t]
    \cup (IF method[t] = "log_batch" THEN ModelsOf(todo[t]) ELSE {})

(* A call that logs has accumulated, or is going to, what it will have     *)
(* logged when it returns; one that ends a run finds what was owed to it   *)
(* in the state it looked up, and in its copy of the tags.                 *)
ThreadInv(t) ==
  /\ pc[t] = "idle" => todo[t] = {} /\ pending[t] = {}
  /\ pc[t] \notin Logging => logged[t] = {}
  /\ pc[t] # "append" => current[t] = {}
  /\ pc[t] = "locked" => lock = t
  /\ pc[t] \in {"announce", "append"} /\ run[t] \in live /\ lock # t /\ method[t] # "log_inputs"
       => todo[t] = {}
  /\ run[t] \in live => logged[t] \subseteq state[run[t]] \cup Outstanding(t)
  /\ pc[t] = "lookup" => owed[t] \subseteq acked[run[t]]
  /\ pc[t] \in Finishing => owed[t] \subseteq state[run[t]]
  /\ pc[t] = "emit" /\ request[t] = "FINISHED" => owed[t] \ HistoryTags \subseteq snap[t]

(* While a run is created nobody else has heard of it. *)
CreatingInv(t) ==
  pc[t] \in Creating =>
    /\ acked[run[t]] = {} /\ marquez[run[t]] = <<>>
    /\ pc[t] = "register" => run[t] \notin live
    /\ \A u \in Threads \ {t} : run[u] = run[t] => pc[u] = "idle"

RunInv(r) ==
  /\ status[r] = "none" =>
       /\ r \notin live /\ acked[r] = {} /\ marquez[r] = <<>>
       /\ \A t \in Threads : run[t] = r => pc[t] = "idle"
  /\ r \in live => acked[r] \subseteq state[r]

CarriesInv ==
  /\ TypeOK
  /\ \A t \in Threads : ThreadInv(t) /\ CreatingInv(t)
  /\ \A r \in Runs : RunInv(r)
  /\ TerminalCarriesLogged

(* With a backend that loses nothing. *)
StartInv ==
  /\ StartOpensRun
  /\ \A r \in live : marquez[r] # <<>> \/ \E t \in Threads : pc[t] = "start" /\ run[t] = r
  /\ \A t \in Threads : pc[t] \in Finishing => marquez[run[t]] # <<>>

(* The runs that have had a terminal event. *)
Ended == {r \in Runs : \E i \in DOMAIN marquez[r] : IsTerminal(marquez[r][i])}

AtEnd == {"lookup"} \cup Finishing

(* Each run has a thread of its own that sets its tags and ends it; one    *)
(* thread may have any number of runs, and any thread creates runs and logs. *)
OneEnder(own) ==
  /\ own \in [Runs -> Threads]
  /\ \A r \in Runs : Taggers[r] \subseteq {own[r]} /\ Finishers[r] \subseteq {own[r]}

EndedBy(t, r) == pc[t] \in AtEnd /\ run[t] = r

(* A thread then ends only runs of its own, each at most once, over a      *)
(* dictionary nobody else inserts into.                                    *)
EnderInv(own, t) ==
  /\ pc[t] \in AtEnd => method[t] = "update_run_info" /\ own[run[t]] = t
  /\ todo[t] \cap AllTags # {} => own[run[t]] = t
  /\ pc[t] = "register" => status[run[t]] = "RUNNING"
  /\ pc[t] = "iterate" => state[run[t]] \cap AllTags = snap[t] \cap AllTags
  /\ pc[t] \in Finishing => run[t] \in live
  /\ pc[t] \in Finishing \ {"forget"} => run[t] \notin Ended

(* And a run in memory is being forgotten if its end is posted, and being  *)
(* ended if it is over.                                                    *)
OpenInv(own, r) ==
  r \in live =>
    /\ r \in Ended => pc[own[r]] = "forget" /\ run[own[r]] = r
    /\ status[r] = "RUNNING" \/ EndedBy(own[r], r)

EndInv(own) ==
  /\ \A t \in Threads : EnderInv(own, t)
  /\ \A r \in Runs : OpenInv(own, r)
  /\ MLflowStillSucceeds
  /\ AtMostOneTerminal

(* And no crash, no other status than FINISHED and FAILED, nothing lost. *)
NothingFails == ~Lossy /\ MaxCrashes = 0 /\ Statuses \subseteq {"FINISHED", "FAILED"}

TellingInv(t) ==
  /\ pc[t] = "lookup" => request[t] \in {"FINISHED", "FAILED"}
  /\ pc[t] = "forget" => run[t] \in Ended

ToldInv(own, r) ==
  /\ r \in live \/ status[r] = "none" \/ r \in Ended
       \/ \E t \in Threads : pc[t] = "register" /\ run[t] = r
  /\ status[r] \in {"FINISHED", "FAILED"} => r \in Ended \/ EndedBy(own[r], r)

ReportedInv(own) ==
  /\ \A t \in Threads : TellingInv(t)
  /\ \A r \in Runs : ToldInv(own, r)

-----------------------------------------------------------------------------
(* A step of t, as far as others see it: it touches the run it is about,   *)
(* makes that run live or resets its state only when it registers it, and  *)
(* begins to work for a run that others may know or that does not exist.   *)
Step(t) ==
  /\ \A u \in Threads \ {t} :
       /\ pc'[u] = pc[u] /\ method'[u] = method[u] /\ run'[u] = run[u]
       /\ request'[u] = request[u] /\ todo'[u] = todo[u] /\ pending'[u] = pending[u]
       /\ current'[u] = current[u] /\ snap'[u] = snap[u] /\ logged'[u] = logged[u]
       /\ owed'[u] = owed[u] /\ (lock' = u <=> lock = u)
  /\ \A r \in Runs \ {run'[t]} :
       /\ status'[r] = status[r] /\ acked'[r] = acked[r] /\ marquez'[r] = marquez[r]
       /\ state'[r] = state[r] /\ (r \in live' <=> r \in live)
  /\ acked[run'[t]] \subseteq acked'[run'[t]]
  /\ state[run'[t]] \subseteq state'[run'[t]] \/ pc[t] = "register"
  /\ run'[t] \in live' => run'[t] \in live \/ pc[t] = "register"
  /\ pc[t] # "idle" => run'[t] = run[t]
  /\ pc[t] = "idle" => /\ pc'[t] = "idle" \/ Created(run'[t]) \/ status[run'[t]] = "none"
                       /\ UNCHANGED <<acked, marquez, live, state>>

(* It is enough to look at the thread that moves and at its run.           *)
LEMMA StepFrame ==
  ASSUME CarriesInv, TypeOK', NEW t \in Threads, Step(t), NEW q \in Runs, q = run'[t],
         ThreadInv(t)', CreatingInv(t)', RunInv(q)', TerminalCarriesLogged'
  PROVE  CarriesInv'
<1> USE DEF CarriesInv
<1>run. run'[t] \in Runs /\ \A u \in Threads : run[u] \in Runs
  BY DEF TypeOK
<1>1. \A u \in Threads \ {t} : ThreadInv(u)'
  <2> SUFFICES ASSUME NEW u \in Threads \ {t} PROVE ThreadInv(u)'
    OBVIOUS
  <2>1. ThreadInv(u) /\ run[u] \in Runs
    BY <1>run
  <2>2. /\ pc'[u] = pc[u] /\ method'[u] = method[u] /\ run'[u] = run[u]
        /\ request'[u] = request[u] /\ todo'[u] = todo[u] /\ pending'[u] = pending[u]
        /\ current'[u] = current[u] /\ snap'[u] = snap[u] /\ logged'[u] = logged[u]
        /\ owed'[u] = owed[u] /\ (lock' = u <=> lock = u)
    BY DEF Step
  <2>3. acked[run[u]] \subseteq acked'[run[u]]
    BY <2>1 DEF Step
  <2>4. Outstanding(u)' = Outstanding(u)
    BY <2>2 DEF Outstanding, ModelsOf
  <2>5. CASE pc[u] = "idle"
    BY <2>1, <2>2, <2>5 DEF ThreadInv, Logging, Finishing
  <2>6. CASE pc[u] # "idle"
    <3>1. /\ run[u] \in live' => run[u] \in live
          /\ state[run[u]] \subseteq state'[run[u]]
      <4>1. CASE pc[t] = "register"
        <5>1. run[u] # run[t] /\ run'[t] = run[t]
          BY <2>6, <4>1 DEF Step, CreatingInv, Creating
        <5> QED BY <2>1, <5>1 DEF Step
      <4>2. CASE pc[t] # "register"
        BY <2>1, <4>2 DEF Step
      <4> QED BY <4>1, <4>2
    <3> QED BY <2>1, <2>2, <2>3, <2>4, <3>1 DEF ThreadInv
  <2> QED BY <2>5, <2>6
<1>2. \A u \in Threads \ {t} : CreatingInv(u)'
  <2> SUFFICES ASSUME NEW u \in Threads \ {t}, pc[u] \in Creating PROVE CreatingInv(u)'
    BY DEF Step, CreatingInv
  <2> DEFINE Quiet == /\ acked'[run[u]] = {} /\ marquez'[run[u]] = <<>>
                      /\ pc[u] = "register" => run[u] \notin live'
                      /\ run'[t] = run[u] => pc'[t] = "idle"
  <2>1. CreatingInv(u) /\ run[u] \in Runs /\ status[run[u]] # "none"
    BY <1>run DEF RunInv, Creating
  <2>2. ~Created(run[u])
    BY DEF Created, Creating
  <2>3. ASSUME pc[t] = "idle" PROVE Quiet
    <3>1. UNCHANGED <<acked, marquez, live, state>>
      BY <2>3 DEF Step
    <3>2. pc'[t] = "idle" \/ run'[t] # run[u]
      BY <2>1, <2>2, <2>3 DEF Step
    <3> QED BY <2>1, <3>1, <3>2 DEF CreatingInv
  <2>4. ASSUME pc[t] # "idle" PROVE Quiet
    <3>1. run'[t] = run[t] /\ run[t] # run[u]
      BY <2>1, <2>4 DEF Step, CreatingInv
    <3> QED BY <2>1, <3>1 DEF Step, CreatingInv
  <2>5. Quiet
    BY <2>3, <2>4
  <2>6. pc'[u] = pc[u] /\ run'[u] = run[u]
    BY DEF Step
  <2>7. ASSUME NEW w \in Threads \ {u}, run'[w] = run'[u] PROVE pc'[w] = "idle"
    <3>1. CASE w = t
      BY <2>5, <2>6, <2>7, <3>1
    <3>2. CASE w # t
      <4>1. pc'[w] = pc[w] /\ run'[w] = run[w]
        BY <3>2 DEF Step
      <4>2. run[w] = run[u] => pc[w] = "idle"
        BY <2>1 DEF CreatingInv
      <4> QED BY <2>6, <2>7, <4>1, <4>2
    <3> QED BY <3>1, <3>2
  <2> QED BY <2>5, <2>6, <2>7 DEF CreatingInv
<1>3. \A r \in Runs \ {q} : RunInv(r)'
  <2> SUFFICES ASSUME NEW r \in Runs, r # run'[t] PROVE RunInv(r)'
    OBVIOUS
  <2>1. /\ RunInv(r) /\ status'[r] = status[r] /\ acked'[r] = acked[r] /\ marquez'[r] = marquez[r]
        /\ state'[r] = state[r] /\ (r \in live' <=> r \in live)
        /\ \A u \in Threads \ {t} : pc'[u] = pc[u] /\ run'[u] = run[u]
    BY DEF Step
  <2> QED BY <2>1 DEF RunInv
<1> QED BY <1>1, <1>2, <1>3

(* A step of a call that is under way, other than its registration.        *)
LEMMA CallFrame ==
  ASSUME CarriesInv, TypeOK', NEW t \in Threads, Step(t), UNCHANGED status,
         pc[t] # "idle", pc'[t] \notin Creating, ThreadInv(t)', TerminalCarriesLogged',
         run[t] \in live' => acked'[run[t]] \subseteq state'[run[t]]
  PROVE  CarriesInv'
<1>1. run'[t] = run[t] /\ run[t] \in Runs
  BY DEF Step, CarriesInv, TypeOK
<1>2. status[run[t]] # "none"
  BY <1>1 DEF CarriesInv, RunInv
<1>3. RunInv(run[t])'
  BY <1>1, <1>2 DEF RunInv
<1>4. CreatingInv(t)'
  BY DEF CreatingInv
<1> QED BY <1>1, <1>3, <1>4, StepFrame

(* The beginning of a call about a run that was created.                   *)
LEMMA EnterFrame ==
  ASSUME CarriesInv, TypeOK', NEW t \in Threads, Step(t), pc[t] = "idle",
         pc'[t] \notin Creating, ThreadInv(t)', UNCHANGED marquez,
         Created(run'[t]), status'[run'[t]] # "none"
  PROVE  CarriesInv'
<1>1. run'[t] \in Runs /\ UNCHANGED <<acked, live, state>>
  BY DEF Step, TypeOK
<1> DEFINE q == run'[t]
<1>2. RunInv(q)
  BY <1>1 DEF CarriesInv
<1>3. ASSUME NEW r \in Runs, r = run'[t] PROVE RunInv(r)'
  BY <1>1, <1>2, <1>3 DEF RunInv
<1>4. CreatingInv(t)' /\ TerminalCarriesLogged'
  BY DEF CreatingInv, CarriesInv, TerminalCarriesLogged
<1> QED BY <1>1, <1>3, <1>4, StepFrame

(* A call returns: nothing is left of it but what it has logged.           *)
LEMMA ReturnFrame ==
  ASSUME CarriesInv, TypeOK', NEW t \in Threads, NEW outcome, NEW done \in SUBSET Item,
         Return(t, outcome, done), UNCHANGED status, pc[t] # "idle",
         lock' = lock \/ (lock = t /\ lock' = NoThread),
         \A r \in Runs \ {run[t]} : /\ marquez'[r] = marquez[r] /\ state'[r] = state[r]
                                    /\ (r \in live' <=> r \in live),
         state[run[t]] \subseteq state'[run[t]], live' \subseteq live,
         run[t] \in live' => done \subseteq state'[run[t]],
         TerminalCarriesLogged'
  PROVE  CarriesInv'
<1>1. run'[t] = run[t] /\ run[t] \in Runs /\ pc'[t] = "idle" /\ t # NoThread
  BY DEF Return, Goto, CarriesInv, TypeOK
<1>2. acked'[run[t]] = acked[run[t]] \cup done
  BY <1>1 DEF Return, CarriesInv, TypeOK
<1>3. Step(t)
  BY <1>1 DEF Step, Return, Goto, CarriesInv, TypeOK
<1>4. ThreadInv(t)'
  <2>1. /\ todo'[t] = {} /\ pending'[t] = {} /\ current'[t] = {} /\ logged'[t] = {}
        /\ owed'[t] = {}
    BY DEF Return, CarriesInv, TypeOK
  <2> QED BY <1>1, <2>1 DEF ThreadInv, Logging, Finishing
<1>5. run[t] \in live' => acked'[run[t]] \subseteq state'[run[t]]
  BY <1>1, <1>2 DEF CarriesInv, RunInv
<1> QED BY <1>1, <1>3, <1>4, <1>5, CallFrame DEF Creating

-----------------------------------------------------------------------------
(* create_run. *)
LEMMA CreateRunCarries ==
  ASSUME CarriesInv, TypeOK', NEW t \in Threads, NEW r \in Runs, CreateRun(t, r)
  PROVE  CarriesInv'
<1> USE DEF CarriesInv, delegate, memory, local
<1>1. /\ pc[t] = "idle" /\ run'[t] = r /\ pc'[t] = "register" /\ status[r] = "none"
      /\ status'[r] = "RUNNING"
      /\ UNCHANGED <<live, state, lock, marquez, acked, todo, pending, current, snap, logged, owed>>
  BY DEF CreateRun, Enter, TypeOK
<1>2. Step(t)
  BY <1>1 DEF Step, CreateRun, Enter, TypeOK
<1>3. ThreadInv(t)'
  BY <1>1 DEF ThreadInv, Logging, Finishing
<1>4. RunInv(r)
  OBVIOUS
<1>5. CreatingInv(t)'
  <2>1. \A u \in Threads \ {t} : run'[u] = run[u] /\ pc'[u] = pc[u]
    BY <1>2 DEF Step
  <2> QED BY <1>1, <1>4, <2>1 DEF CreatingInv, RunInv
<1>6. RunInv(r)'
  BY <1>1, <1>4 DEF RunInv
<1>7. TerminalCarriesLogged'
  BY <1>1 DEF TerminalCarriesLogged
<1> QED BY <1>1, <1>2, <1>3, <1>5, <1>6, <1>7, StepFrame

LEMMA RegisterRunCarries ==
  ASSUME CarriesInv, TypeOK', NEW t \in Threads, RegisterRun(t)
  PROVE  CarriesInv'
<1> USE DEF CarriesInv, delegate, local
<1>1. /\ pc[t] = "register" /\ run' = run /\ run[t] \in Runs /\ pc'[t] = "start"
      /\ state'[run[t]] = {} /\ run[t] \in live'
      /\ UNCHANGED <<status, stored, lock, marquez, acked, todo, pending, current, snap, logged, owed>>
  BY DEF RegisterRun, Goto, TypeOK
<1>2. Step(t)
  BY <1>1 DEF Step, RegisterRun, Goto, TypeOK, counters
<1>3. ThreadInv(t)'
  BY <1>1 DEF ThreadInv, Logging, Finishing
<1>4. CreatingInv(t)'
  <2>1. \A u \in Threads \ {t} : run'[u] = run[u] /\ pc'[u] = pc[u]
    BY <1>2 DEF Step
  <2> QED BY <1>1, <2>1 DEF CreatingInv, Creating
<1>5. RunInv(run[t])'
  <2>1. acked[run[t]] = {} /\ status[run[t]] # "none"
    BY <1>1 DEF CreatingInv, Creating, RunInv
  <2> QED BY <1>1, <2>1 DEF RunInv
<1>6. TerminalCarriesLogged'
  BY <1>1 DEF TerminalCarriesLogged
<1> QED BY <1>1, <1>2, <1>3, <1>4, <1>5, <1>6, StepFrame

(* What is posted for a run is in the record that grows by it, or lost.    *)
LEMMA PostCarries ==
  ASSUME TypeOK, TerminalCarriesLogged, NEW r \in Runs, NEW event \in Event, Post(r, event),
         event.owed \ HistoryTags \subseteq event.items
  PROVE  /\ TerminalCarriesLogged'
         /\ \A q \in Runs \ {r} : marquez'[q] = marquez[q]
<1>1. CASE UNCHANGED marquez
  BY <1>1 DEF TerminalCarriesLogged
<1>2. CASE marquez' = [marquez EXCEPT ![r] = Append(@, event)]
  <2>1. \A q \in Runs \ {r} : marquez'[q] = marquez[q]
    BY <1>2 DEF TypeOK
  <2>2. marquez[r] \in Seq(Event) /\ marquez'[r] = Append(marquez[r], event)
    BY <1>2 DEF TypeOK
  <2>3. ASSUME NEW i \in DOMAIN marquez'[r]
        PROVE  marquez'[r][i].owed \ HistoryTags \subseteq marquez'[r][i].items
    <3>1. \/ i \in DOMAIN marquez[r] /\ marquez'[r][i] = marquez[r][i]
          \/ marquez'[r][i] = event
      BY <2>2
    <3> QED BY <3>1 DEF TerminalCarriesLogged
  <2> QED BY <2>1, <2>3 DEF TerminalCarriesLogged
<1> QED BY <1>1, <1>2 DEF Post

LEMMA EmitStartCarries ==
  ASSUME CarriesInv, TypeOK', NEW t \in Threads, EmitStart(t)
  PROVE  CarriesInv'
<1> USE DEF CarriesInv, delegate, memory, counters
<1> DEFINE event == [type |-> "START", items |-> {}, owed |-> {}]
<1>1. event \in Event /\ run[t] \in Runs /\ pc[t] = "start"
  BY DEF Event, EmitStart, TypeOK
<1>2. Post(run[t], event)
  BY DEF EmitStart
<1>3. /\ TerminalCarriesLogged'
      /\ \A q \in Runs \ {run[t]} : marquez'[q] = marquez[q]
  BY <1>1, <1>2, PostCarries
<1>4. logged[t] = {} /\ Return(t, "ok", logged[t]) /\ UNCHANGED <<status, live, state, lock>>
  BY <1>1 DEF EmitStart, ThreadInv, Logging
<1> QED BY <1>1, <1>3, <1>4, ReturnFrame

-----------------------------------------------------------------------------
(* update_run_info. *)
LEMMA UpdateRunInfoCarries ==
  ASSUME CarriesInv, TypeOK', NEW t \in Threads, NEW r \in Runs, NEW s \in Statuses,
         UpdateRunInfo(t, r, s)
  PROVE  CarriesInv'
<1> USE DEF CarriesInv, memory
<1>1. /\ pc[t] = "idle" /\ run'[t] = r /\ pc'[t] = "lookup" /\ Created(r) /\ status'[r] = s
      /\ owed'[t] = acked[r]
      /\ UNCHANGED <<live, state, lock, marquez, acked, todo, pending, current, snap, logged>>
  BY DEF UpdateRunInfo, Enter, TypeOK
<1>2. Step(t)
  BY <1>1 DEF Step, UpdateRunInfo, Enter, TypeOK
<1>3. ThreadInv(t)'
  BY <1>1 DEF ThreadInv, Logging, Finishing
<1>4. s # "none"
  OBVIOUS
<1> QED BY <1>1, <1>2, <1>3, <1>4, EnterFrame DEF Creating

LEMMA LookupStateCarries ==
  ASSUME CarriesInv, TypeOK', NEW t \in Threads, LookupState(t)
  PROVE  CarriesInv'
<1> USE DEF CarriesInv, delegate, memory, counters
<1>0. pc[t] = "lookup" /\ logged[t] = {} /\ run[t] \in Runs
  BY DEF LookupState, ThreadInv, Logging, TypeOK
<1>u. TerminalCarriesLogged' /\ UNCHANGED <<status, stored, live, state, lock, marquez>>
  BY DEF LookupState, TerminalCarriesLogged
<1>1. CASE run[t] \notin live
  <2>1. Return(t, "ok", logged[t])
    BY <1>1 DEF LookupState
  <2> QED BY <1>0, <1>u, <2>1, ReturnFrame
<1>2. CASE run[t] \in live
  <2>1. /\ UNCHANGED <<method, run, request, todo, pending, current, snap, logged, owed, acked>>
        /\ pc' = [pc EXCEPT ![t] = pc'[t]] /\ pc'[t] \in {"filter", "emit", "forget"}
        /\ pc'[t] = "emit" => request[t] = "FAILED"
    BY <1>2 DEF LookupState, Goto, local, TypeOK
  <2>2. Step(t)
    BY <1>0, <1>u, <2>1 DEF Step, TypeOK
  <2>3. owed[t] \subseteq state[run[t]]
    BY <1>0, <1>2 DEF ThreadInv, RunInv
  <2>4. Outstanding(t)' = Outstanding(t)
    BY <2>1 DEF Outstanding, ModelsOf
  <2>5. ThreadInv(t)'
    BY <1>0, <1>u, <2>1, <2>3, <2>4 DEF ThreadInv, Logging, Finishing
  <2>6. run[t] \in live' => acked'[run[t]] \subseteq state'[run[t]]
    BY <1>0, <1>u, <2>1 DEF RunInv
  <2> QED BY <1>0, <1>u, <2>1, <2>2, <2>5, <2>6, CallFrame DEF Creating
<1> QED BY <1>1, <1>2

LEMMA BeginFilterCarries ==
  ASSUME CarriesInv, TypeOK', NEW t \in Threads, BeginFilter(t)
  PROVE  CarriesInv'
<1> USE DEF CarriesInv, delegate, memory, counters
<1>0. /\ pc[t] = "filter" /\ pc' = [pc EXCEPT ![t] = pc'[t]] /\ pc'[t] \in {"iterate", "emit"}
      /\ snap' = [snap EXCEPT ![t] = state[run[t]]]
      /\ UNCHANGED <<status, live, state, lock, marquez, method, run, request, todo, pending,
                     current, logged, owed, acked>>
  BY DEF BeginFilter, Goto, TypeOK
<1>1. /\ logged[t] = {} /\ run[t] \in Runs /\ owed[t] \subseteq state[run[t]]
      /\ snap'[t] = state[run[t]]
  <2>1. ThreadInv(t) /\ run[t] \in Runs
    BY DEF TypeOK
  <2>2. snap'[t] = state[run[t]]
    BY <1>0 DEF TypeOK
  <2> QED BY <1>0, <2>1, <2>2 DEF ThreadInv, Logging, Finishing
<1>2. Step(t)
  BY <1>0 DEF Step, TypeOK
<1>3. Outstanding(t)' = Outstanding(t)
  BY <1>0 DEF Outstanding, ModelsOf
<1>4. ThreadInv(t)'
  BY <1>0, <1>1, <1>3 DEF ThreadInv, Logging, Finishing
<1>5. TerminalCarriesLogged' /\ (run[t] \in live' => acked'[run[t]] \subseteq state'[run[t]])
  BY <1>0, <1>1 DEF TerminalCarriesLogged, RunInv
<1> QED BY <1>0, <1>1, <1>2, <1>4, <1>5, CallFrame DEF Creating

LEMMA EndFilterCarries ==
  ASSUME CarriesInv, TypeOK', NEW t \in Threads, EndFilter(t)
  PROVE  CarriesInv'
<1> USE DEF CarriesInv, delegate, memory, counters
<1>1. /\ pc[t] = "iterate" /\ logged[t] = {} /\ run[t] \in Runs /\ owed[t] \subseteq state[run[t]]
      /\ UNCHANGED <<status, live, state, lock, marquez>>
  BY DEF EndFilter, ThreadInv, Logging, Finishing, TypeOK
<1>2. TerminalCarriesLogged'
  BY <1>1 DEF TerminalCarriesLogged
<1>3. CASE Return(t, "lineage_error", {})
  BY <1>1, <1>2, <1>3, ReturnFrame
<1>4. CASE ~Return(t, "lineage_error", {})
  <2>1. /\ pc' = [pc EXCEPT ![t] = "emit"] /\ snap' = [snap EXCEPT ![t] = state[run[t]] \ HistoryTags]
        /\ UNCHANGED <<method, run, request, todo, pending, current, logged, owed, acked>>
    BY <1>4 DEF EndFilter, Goto
  <2>2. Step(t)
    BY <1>1, <2>1 DEF Step, TypeOK
  <2>3. Outstanding(t)' = Outstanding(t)
    BY <2>1 DEF Outstanding, ModelsOf
  <2>4. pc'[t] = "emit" /\ snap'[t] = state[run[t]] \ HistoryTags
    BY <2>1 DEF TypeOK
  <2>5. ThreadInv(t)'
    BY <1>1, <2>1, <2>3, <2>4 DEF ThreadInv, Logging, Finishing
  <2>6. run[t] \in live' => acked'[run[t]] \subseteq state'[run[t]]
    BY <1>1, <2>1 DEF RunInv
  <2> QED BY <1>1, <1>2, <2>2, <2>4, <2>5, <2>6, CallFrame DEF Creating
<1> QED BY <1>3, <1>4

(* A COMPLETE event has all that was owed: tags by its copy, the rest by   *)
(* the collections it refers to.                                           *)
LEMMA CompleteCarries ==
  ASSUME TypeOK, NEW t \in Threads, owed[t] \subseteq state[run[t]],
         owed[t] \ HistoryTags \subseteq snap[t]
  PROVE  /\ owed[t] \ HistoryTags \subseteq CompleteItems(t)
         /\ CompleteItems(t) \subseteq Item
<1>1. owed[t] \subseteq Item /\ state[run[t]] \subseteq Item /\ snap[t] \subseteq Item
  BY DEF TypeOK
<1>2. CompleteItems(t) \subseteq Item
  BY <1>1 DEF CompleteItems
<1>3. ASSUME NEW i \in owed[t] \ HistoryTags PROVE i \in CompleteItems(t)
  <2>1. i \in state[run[t]] /\ i \in snap[t]
    OBVIOUS
  <2>2. i \in Params \cup Metrics \cup Tags \cup Datasets
    BY <1>1 DEF Item, Datasets
  <2> QED BY <2>1, <2>2 DEF CompleteItems
<1> QED BY <1>2, <1>3

LEMMA EmitTerminalCarries ==
  ASSUME CarriesInv, TypeOK', NEW t \in Threads, EmitTerminal(t)
  PROVE  CarriesInv'
<1> USE DEF CarriesInv, delegate, memory, local, counters
<1>1. /\ pc[t] = "emit" /\ logged[t] = {} /\ run[t] \in Runs /\ owed[t] \subseteq state[run[t]]
      /\ request[t] = "FINISHED" => owed[t] \ HistoryTags \subseteq snap[t]
      /\ UNCHANGED <<status, live, state, lock, method, run, request, todo, pending, current, snap,
                     logged, owed, acked>>
      /\ pc' = [pc EXCEPT ![t] = "forget"]
  BY DEF EmitTerminal, Goto, ThreadInv, Logging, Finishing, TypeOK
<1>2. \E event \in Event : Post(run[t], event) /\ event.owed \ HistoryTags \subseteq event.items
  <2>1. owed[t] \subseteq Item /\ state[run[t]] \subseteq Item
    BY <1>1 DEF TypeOK
  <2>2. CASE request[t] = "FINISHED"
    <3> DEFINE event == [type |-> "COMPLETE", items |-> CompleteItems(t), owed |-> owed[t]]
    <3>1. owed[t] \ HistoryTags \subseteq CompleteItems(t) /\ CompleteItems(t) \subseteq Item
      BY <1>1, <2>2, CompleteCarries
    <3>2. event \in Event /\ Post(run[t], event)
      BY <2>1, <2>2, <3>1 DEF Event, EmitTerminal
    <3> QED BY <3>1, <3>2
  <2>3. CASE request[t] # "FINISHED"
    <3> DEFINE event == [type |-> "FAIL", items |-> state[run[t]] \cap Datasets,
                         owed |-> owed[t] \cap Datasets]
    <3>1. event \in Event /\ Post(run[t], event)
      BY <2>1, <2>3 DEF Event, EmitTerminal
    <3> QED BY <1>1, <3>1
  <2> QED BY <2>2, <2>3
<1>3. /\ TerminalCarriesLogged'
      /\ \A q \in Runs \ {run[t]} : marquez'[q] = marquez[q]
  BY <1>1, <1>2, PostCarries
<1>4. Step(t)
  BY <1>1, <1>3 DEF Step, TypeOK
<1>5. Outstanding(t)' = Outstanding(t)
  BY <1>1 DEF Outstanding, ModelsOf
<1>6. pc'[t] = "forget"
  BY <1>1 DEF TypeOK
<1>7. ThreadInv(t)'
  BY <1>1, <1>5, <1>6 DEF ThreadInv, Logging, Finishing
<1>8. run[t] \in live' => acked'[run[t]] \subseteq state'[run[t]]
  BY <1>1 DEF RunInv
<1> QED BY <1>1, <1>3, <1>4, <1>6, <1>7, <1>8, CallFrame DEF Creating

LEMMA ForgetRunCarries ==
  ASSUME CarriesInv, TypeOK', NEW t \in Threads, ForgetRun(t)
  PROVE  CarriesInv'
<1> USE DEF CarriesInv, delegate, counters
<1>1. /\ pc[t] = "forget" /\ logged[t] = {} /\ run[t] \in Runs /\ live' = live \ {run[t]}
      /\ Return(t, "ok", logged[t]) /\ UNCHANGED <<status, state, lock, marquez>>
  BY DEF ForgetRun, ThreadInv, Logging, TypeOK
<1>2. TerminalCarriesLogged'
  BY <1>1 DEF TerminalCarriesLogged
<1> QED BY <1>1, <1>2, ReturnFrame

-----------------------------------------------------------------------------
(* Logging calls.                                                           *)

(* All that the call will have logged is outstanding when it begins.       *)
LEMMA LoggingBegins ==
  ASSUME CarriesInv, TypeOK', NEW t \in Threads, NEW r \in Runs, NEW m, NEW label \in Logging,
         label # "locked", Created(r), Enter(t, m, r, label),
         todo' = [todo EXCEPT ![t] = todo'[t]], pending' = [pending EXCEPT ![t] = pending'[t]],
         logged' = [logged EXCEPT ![t] = logged'[t]],
         label \in {"announce", "append"} /\ m # "log_inputs" => todo'[t] = {},
         logged'[t] \subseteq todo'[t] \cup pending'[t]
                                \cup (IF m = "log_batch" THEN ModelsOf(todo'[t]) ELSE {}),
         UNCHANGED <<status, memory, marquez, request, current, snap, owed, acked>>
  PROVE  CarriesInv'
<1> USE DEF CarriesInv, memory
<1>0. /\ pc[t] = "idle" /\ run'[t] = r /\ pc'[t] = label /\ method'[t] = m
  BY DEF Enter, TypeOK
<1>1. current[t] = {} /\ status[r] # "none"
  BY <1>0 DEF ThreadInv, Created
<1>2. Step(t)
  BY <1>0, <1>1 DEF Step, Enter, TypeOK
<1>3. Outstanding(t)' = todo'[t] \cup pending'[t] \cup current'[t]
                          \cup (IF m = "log_batch" THEN ModelsOf(todo'[t]) ELSE {})
  BY <1>0, <1>1 DEF Outstanding, ModelsOf
<1>4. ThreadInv(t)'
  BY <1>0, <1>1, <1>3 DEF ThreadInv, Logging, Finishing
<1>5. label \notin Creating
  BY DEF Logging, Creating
<1> QED BY <1>0, <1>1, <1>2, <1>4, <1>5, EnterFrame

LEMMA LogBatchCarries ==
  ASSUME CarriesInv, TypeOK', NEW t \in Threads, NEW r \in Runs,
         NEW I \in SUBSET (Params \cup Metrics \cup BatchTags), LogBatch(t, r, I)
  PROVE  CarriesInv'
<1>1. todo'[t] = I /\ logged'[t] = I \cup ModelsOf(I) /\ pending' = pending
      /\ pending' = [pending EXCEPT ![t] = pending'[t]]
  BY DEF LogBatch, WithModels, CarriesInv, TypeOK
<1>2. Created(r) /\ Enter(t, "log_batch", r, "acquire") /\ "acquire" \in Logging
  BY DEF LogBatch, Logging
<1>3. /\ todo' = [todo EXCEPT ![t] = todo'[t]] /\ logged' = [logged EXCEPT ![t] = logged'[t]]
      /\ UNCHANGED <<status, memory, marquez, request, current, snap, owed, acked>>
  BY <1>1 DEF LogBatch, WithModels
<1> QED BY <1>1, <1>2, <1>3, LoggingBegins

LEMMA SetTagCarries ==
  ASSUME CarriesInv, TypeOK', NEW t \in Threads, NEW r \in Runs, NEW g \in AllTags, SetTag(t, r, g)
  PROVE  CarriesInv'
<1>1. todo'[t] = {g} /\ logged'[t] = {g} \cup ModelsOf({g}) /\ pending'[t] = ModelsOf({g})
  BY DEF SetTag, WithModels, CarriesInv, TypeOK
<1>2. Created(r) /\ Enter(t, "set_tag", r, "acquire") /\ "acquire" \in Logging
  BY DEF SetTag, Logging
<1>3. /\ todo' = [todo EXCEPT ![t] = todo'[t]] /\ logged' = [logged EXCEPT ![t] = logged'[t]]
      /\ pending' = [pending EXCEPT ![t] = pending'[t]]
      /\ UNCHANGED <<status, memory, marquez, request, current, snap, owed, acked>>
  BY <1>1 DEF SetTag, WithModels
<1> QED BY <1>1, <1>2, <1>3, LoggingBegins

LEMMA LogInputsCarries ==
  ASSUME CarriesInv, TypeOK', NEW t \in Threads, NEW r \in Runs, NEW D \in SUBSET Inputs,
         NEW M \in SUBSET Outputs, LogInputs(t, r, D, M)
  PROVE  CarriesInv'
<1>1. todo'[t] = M /\ logged'[t] = D \cup M /\ pending'[t] = D
  BY DEF LogInputs, CarriesInv, TypeOK
<1>2. Created(r) /\ \E label \in {"acquire", "announce"} : Enter(t, "log_inputs", r, label)
  BY DEF LogInputs
<1>3. /\ todo' = [todo EXCEPT ![t] = todo'[t]] /\ logged' = [logged EXCEPT ![t] = logged'[t]]
      /\ pending' = [pending EXCEPT ![t] = pending'[t]]
      /\ UNCHANGED <<status, memory, marquez, request, current, snap, owed, acked>>
  BY <1>1 DEF LogInputs
<1> QED BY <1>1, <1>2, <1>3, LoggingBegins DEF Logging

LEMMA LogOutputsCarries ==
  ASSUME CarriesInv, TypeOK', NEW t \in Threads, NEW r \in Runs, NEW M \in SUBSET Outputs,
         LogOutputs(t, r, M)
  PROVE  CarriesInv'
<1>1. todo[t] = {} /\ logged'[t] = M /\ pending'[t] = M /\ todo' = todo
  BY DEF LogOutputs, Enter, CarriesInv, TypeOK, ThreadInv
<1>2. Created(r) /\ Enter(t, "log_outputs", r, "announce") /\ "announce" \in Logging
  BY DEF LogOutputs, Logging
<1>3. /\ todo' = [todo EXCEPT ![t] = todo'[t]] /\ logged' = [logged EXCEPT ![t] = logged'[t]]
      /\ pending' = [pending EXCEPT ![t] = pending'[t]]
      /\ UNCHANGED <<status, memory, marquez, request, current, snap, owed, acked>>
  BY <1>1 DEF LogOutputs, CarriesInv, TypeOK
<1> QED BY <1>1, <1>2, <1>3, LoggingBegins

LEMMA DelegateRaisesCarries ==
  ASSUME CarriesInv, TypeOK', NEW t \in Threads, NEW r \in Runs, NEW part,
         DelegateRaises(t, r, part)
  PROVE  CarriesInv'
<1> USE DEF CarriesInv, memory, control, local
<1>1. UNCHANGED <<status, live, state, lock, pc, method, run, request, todo, pending, current, snap,
                  logged, owed, acked, marquez>>
  BY DEF DelegateRaises
<1>2. \A u \in Threads : ThreadInv(u)' /\ CreatingInv(u)'
  <2> SUFFICES ASSUME NEW u \in Threads PROVE ThreadInv(u)' /\ CreatingInv(u)'
    OBVIOUS
  <2>1. Outstanding(u)' = Outstanding(u)
    BY <1>1 DEF Outstanding, ModelsOf
  <2> QED BY <1>1, <2>1 DEF ThreadInv, CreatingInv
<1>3. (\A q \in Runs : RunInv(q)') /\ TerminalCarriesLogged'
  BY <1>1 DEF RunInv, TerminalCarriesLogged
<1> QED BY <1>2, <1>3

LEMMA AcquireCarries ==
  ASSUME CarriesInv, TypeOK', NEW t \in Threads, Acquire(t)
  PROVE  CarriesInv'
<1> USE DEF CarriesInv, delegate, local, counters
<1>1. /\ pc[t] = "acquire" /\ pc' = [pc EXCEPT ![t] = "locked"] /\ lock = NoThread /\ lock' = t
      /\ UNCHANGED <<status, live, state, marquez, method, run, request, todo, pending, current,
                     snap, logged, owed, acked>>
  BY DEF Acquire, Goto
<1>2. pc'[t] = "locked" /\ run[t] \in Runs
  BY <1>1 DEF TypeOK
<1>3. Step(t)
  BY <1>1 DEF Step, TypeOK
<1>4. Outstanding(t)' = Outstanding(t)
  BY <1>1 DEF Outstanding, ModelsOf
<1>5. ThreadInv(t)'
  BY <1>1, <1>2, <1>4 DEF ThreadInv, Logging, Finishing
<1>6. TerminalCarriesLogged' /\ (run[t] \in live' => acked'[run[t]] \subseteq state'[run[t]])
  BY <1>1, <1>2 DEF TerminalCarriesLogged, RunInv
<1> QED BY <1>1, <1>2, <1>3, <1>5, <1>6, CallFrame DEF Creating

(* Accumulating a value leaves its models to be announced or nothing.      *)
LEMMA AccumulateCarries ==
  ASSUME CarriesInv, TypeOK', NEW t \in Threads, NEW i \in Item, Accumulate(t, i)
  PROVE  CarriesInv'
<1> USE DEF CarriesInv, delegate, memory, control, counters
<1> DEFINE models == IF method[t] = "log_batch" THEN ModelsOf({i}) ELSE {}
<1>1. /\ pc[t] = "locked" /\ pc' = [pc EXCEPT ![t] = pc'[t]] /\ pc'[t] \in {"locked", "announce"}
      /\ UNCHANGED <<status, live, lock, marquez, method, run, request, current, snap, logged, owed,
                     acked>>
      /\ state' = [state EXCEPT ![run[t]] = @ \cup {i}]
      /\ todo' = [todo EXCEPT ![t] = @ \ {i}]
      /\ pending' = [pending EXCEPT ![t] = @ \cup models]
  BY DEF Accumulate, Goto, TypeOK
<1>2. /\ run[t] \in Runs /\ state'[run[t]] = state[run[t]] \cup {i} /\ todo'[t] = todo[t] \ {i}
      /\ pending'[t] = pending[t] \cup models
  BY <1>1 DEF TypeOK
<1>3. Step(t)
  BY <1>1, <1>2 DEF Step, TypeOK
<1>4. ModelsOf(todo[t]) \subseteq ModelsOf({i}) \cup ModelsOf(todo[t] \ {i})
  BY DEF ModelsOf
<1>5. Outstanding(t)' = todo'[t] \cup pending'[t] \cup current[t]
                          \cup (IF method[t] = "log_batch" THEN ModelsOf(todo[t] \ {i}) ELSE {})
  BY <1>1, <1>2 DEF Outstanding, ModelsOf
<1>6. Outstanding(t) \subseteq {i} \cup Outstanding(t)'
  BY <1>2, <1>4, <1>5 DEF Outstanding
<1>7. ThreadInv(t)'
  <2>1. ThreadInv(t) /\ lock = t
    BY <1>1 DEF ThreadInv
  <2>2. run[t] \in live' => logged'[t] \subseteq state'[run[t]] \cup Outstanding(t)'
    BY <1>1, <1>2, <1>6, <2>1 DEF ThreadInv
  <2> HIDE DEF models
  <2> QED BY <1>1, <2>1, <2>2 DEF ThreadInv, Logging, Finishing
<1>8. TerminalCarriesLogged' /\ (run[t] \in live' => acked'[run[t]] \subseteq state'[run[t]])
  BY <1>1, <1>2 DEF TerminalCarriesLogged, RunInv
<1> QED BY <1>1, <1>3, <1>7, <1>8, CallFrame DEF Creating

LEMMA ReleaseCarries ==
  ASSUME CarriesInv, TypeOK', NEW t \in Threads, Release(t)
  PROVE  CarriesInv'
<1> USE DEF CarriesInv, delegate, local, counters
<1>1. /\ pc[t] = "locked" /\ lock = t /\ lock' = NoThread /\ run[t] \in Runs /\ current[t] = {}
      /\ run[t] \in live => todo[t] = {} /\ logged[t] \subseteq state[run[t]] \cup pending[t]
      /\ UNCHANGED <<status, live, state, marquez>>
  <2>1. ThreadInv(t) /\ run[t] \in Runs /\ pc[t] = "locked"
    BY DEF Release, TypeOK
  <2>2. run[t] \in live => todo[t] = {} /\ ModelsOf({}) = {}
    BY DEF Release, ModelsOf
  <2>3. run[t] \in live => logged[t] \subseteq state[run[t]] \cup pending[t]
    BY <2>1, <2>2 DEF ThreadInv, Outstanding
  <2> QED BY <2>1, <2>2, <2>3 DEF Release, ThreadInv
<1>2. TerminalCarriesLogged'
  BY <1>1 DEF TerminalCarriesLogged
<1>3. CASE pending[t] = {}
  <2>1. Return(t, "ok", logged[t]) /\ logged[t] \in SUBSET Item
    BY <1>3 DEF Release, TypeOK
  <2> QED BY <1>1, <1>2, <1>3, <2>1, ReturnFrame
<1>4. CASE pending[t] # {}
  <2>1. /\ pc' = [pc EXCEPT ![t] = "announce"]
        /\ UNCHANGED <<method, run, request, todo, pending, current, snap, logged, owed, acked>>
    BY <1>4 DEF Release, Goto
  <2>2. pc'[t] = "announce"
    BY <2>1 DEF TypeOK
  <2>3. Step(t)
    BY <1>1, <2>1 DEF Step, TypeOK
  <2>4. pending[t] \subseteq Outstanding(t)'
    BY <2>1 DEF Outstanding
  <2>5. ThreadInv(t)'
    BY <1>1, <2>1, <2>2, <2>4 DEF ThreadInv, Logging, Finishing
  <2>6. run[t] \in live' => acked'[run[t]] \subseteq state'[run[t]]
    BY <1>1, <2>1 DEF RunInv
  <2> QED BY <1>1, <1>2, <2>2, <2>3, <2>5, <2>6, CallFrame DEF Creating
<1> QED BY <1>3, <1>4

LEMMA AnnounceDatasetCarries ==
  ASSUME CarriesInv, TypeOK', NEW t \in Threads, NEW d \in Datasets, AnnounceDataset(t, d)
  PROVE  CarriesInv'
<1> USE DEF CarriesInv, delegate, memory, counters
<1>1. /\ pc[t] = "announce" /\ pc' = [pc EXCEPT ![t] = "append"] /\ current[t] = {}
      /\ current' = [current EXCEPT ![t] = {d}]
      /\ UNCHANGED <<status, live, state, lock, marquez, method, run, request, todo, pending, snap,
                     logged, owed, acked>>
  BY DEF AnnounceDataset, Goto, ThreadInv
<1>2. pc'[t] = "append" /\ run[t] \in Runs
  BY <1>1 DEF TypeOK
<1>3. Step(t)
  BY <1>1 DEF Step, TypeOK
<1>4. Outstanding(t) \subseteq Outstanding(t)'
  BY <1>1 DEF Outstanding, ModelsOf
<1>5. ThreadInv(t)'
  BY <1>1, <1>2, <1>4 DEF ThreadInv, Logging, Finishing
<1>6. TerminalCarriesLogged' /\ (run[t] \in live' => acked'[run[t]] \subseteq state'[run[t]])
  BY <1>1, <1>2 DEF TerminalCarriesLogged, RunInv
<1> QED BY <1>1, <1>2, <1>3, <1>5, <1>6, CallFrame DEF Creating

(* The loop goes on or is over: what is left of it is still to come, or is *)
(* in the state, or has been dropped.                                       *)
LEMMA AdvanceCarries ==
  ASSUME CarriesInv, TypeOK', NEW t \in Threads,
         NEW rest \in SUBSET Datasets, NEW done \in SUBSET Item, Advance(t, rest, done),
         pc[t] \in {"announce", "append"}, UNCHANGED <<status, live, lock, marquez>>,
         \A r \in Runs \ {run[t]} : state'[r] = state[r], state[run[t]] \subseteq state'[run[t]],
         run[t] \in live => done \subseteq state'[run[t]] \cup rest \cup todo[t]
                              \cup (IF method[t] = "log_batch" THEN ModelsOf(todo[t]) ELSE {})
  PROVE  CarriesInv'
<1> USE DEF CarriesInv
<1>1. ThreadInv(t) /\ run[t] \in Runs
  BY DEF TypeOK
<1>2. TerminalCarriesLogged'
  BY DEF TerminalCarriesLogged
<1> DEFINE label == IF rest # {} THEN "announce"
                    ELSE IF lock = t THEN "locked"
                    ELSE IF method[t] = "log_inputs" THEN "acquire" ELSE "idle"
<1>3. CASE label = "idle"
  <2>1. rest = {} /\ lock # t /\ method[t] # "log_inputs" /\ Return(t, "ok", done)
    BY <1>3 DEF Advance
  <2>2. run[t] \in live => todo[t] = {} /\ ModelsOf(todo[t]) = {}
    BY <1>1, <2>1 DEF ThreadInv, ModelsOf
  <2> HIDE DEF label
  <2> QED BY <1>2, <2>1, <2>2, ReturnFrame
<1>4. CASE label # "idle"
  <2>1. /\ pc' = [pc EXCEPT ![t] = label]
        /\ pending' = [pending EXCEPT ![t] = rest]
        /\ current' = [current EXCEPT ![t] = {}]
        /\ logged' = [logged EXCEPT ![t] = done]
        /\ UNCHANGED <<method, run, request, todo, snap, owed, acked>>
    BY <1>4 DEF Advance, Goto
  <2>2. /\ label \in {"announce", "locked", "acquire"} /\ (label = "locked" => lock = t)
        /\ label = "announce" /\ run[t] \in live /\ lock # t /\ method[t] # "log_inputs"
             => todo[t] = {}
    BY <1>1, <1>4 DEF ThreadInv
  <2> HIDE DEF label
  <2>3. pc'[t] = label /\ pending'[t] = rest /\ current'[t] = {} /\ logged'[t] = done
    BY <2>1 DEF TypeOK
  <2>4. Step(t)
    BY <1>1, <2>1 DEF Step, TypeOK
  <2>5. Outstanding(t)' = todo[t] \cup rest
                            \cup (IF method[t] = "log_batch" THEN ModelsOf(todo[t]) ELSE {})
    BY <2>1, <2>3 DEF Outstanding, ModelsOf
  <2>6. ThreadInv(t)'
    BY <1>1, <2>1, <2>2, <2>3, <2>5 DEF ThreadInv, Logging, Finishing
  <2>7. run[t] \in live' => acked'[run[t]] \subseteq state'[run[t]]
    BY <1>1, <2>1 DEF RunInv
  <2> QED BY <1>2, <2>1, <2>2, <2>3, <2>4, <2>6, <2>7, CallFrame DEF Creating
<1> QED BY <1>3, <1>4

LEMMA AppendDatasetCarries ==
  ASSUME CarriesInv, TypeOK', NEW t \in Threads, AppendDataset(t)
  PROVE  CarriesInv'
<1> USE DEF CarriesInv, delegate, counters
<1>1. /\ pc[t] = "append" /\ run[t] \in Runs /\ UNCHANGED <<status, live, lock, marquez>>
      /\ Advance(t, pending[t] \ current[t], logged[t])
      /\ pending[t] \ current[t] \in SUBSET Datasets /\ logged[t] \in SUBSET Item
  BY DEF AppendDataset, TypeOK
<1>2. /\ \A r \in Runs \ {run[t]} : state'[r] = state[r]
      /\ state[run[t]] \subseteq state'[run[t]]
      /\ run[t] \in live => current[t] \subseteq state'[run[t]]
  BY <1>1 DEF AppendDataset, TypeOK
<1>3. run[t] \in live => logged[t] \subseteq state[run[t]] \cup Outstanding(t)
  BY DEF ThreadInv
<1>4. run[t] \in live =>
        logged[t] \subseteq state'[run[t]] \cup (pending[t] \ current[t]) \cup todo[t]
                    \cup (IF method[t] = "log_batch" THEN ModelsOf(todo[t]) ELSE {})
  BY <1>2, <1>3 DEF Outstanding
<1> QED BY <1>1, <1>2, <1>4, AdvanceCarries

LEMMA SkipDatasetCarries ==
  ASSUME CarriesInv, TypeOK', NEW t \in Threads, NEW d \in Datasets, SkipDataset(t, d)
  PROVE  CarriesInv'
<1> USE DEF CarriesInv, delegate, memory, counters
<1> DEFINE dropped == IF method[t] \in {"log_inputs", "log_outputs"} THEN {d} ELSE pending[t]
<1>1. /\ pc[t] = "announce" /\ run[t] \in Runs /\ UNCHANGED <<status, live, state, lock, marquez>>
      /\ Advance(t, pending[t] \ dropped, logged[t] \ dropped)
      /\ pending[t] \ dropped \in SUBSET Datasets /\ logged[t] \ dropped \in SUBSET Item
  BY DEF SkipDataset, TypeOK
<1>2. current[t] = {} /\ (run[t] \in live => logged[t] \subseteq state[run[t]] \cup Outstanding(t))
  BY <1>1 DEF ThreadInv
<1> HIDE DEF dropped
<1>3. run[t] \in live =>
        logged[t] \ dropped \subseteq state'[run[t]] \cup (pending[t] \ dropped) \cup todo[t]
                    \cup (IF method[t] = "log_batch" THEN ModelsOf(todo[t]) ELSE {})
  BY <1>1, <1>2 DEF Outstanding
<1> QED BY <1>1, <1>3, AdvanceCarries

-----------------------------------------------------------------------------
(* A crash leaves nothing accumulated and nobody at work.                  *)
LEMMA CrashCarries ==
  ASSUME CarriesInv, TypeOK', Crash
  PROVE  CarriesInv'
<1> USE DEF CarriesInv, delegate
<1>1. /\ live' = {} /\ UNCHANGED <<status, acked, marquez, run>>
      /\ \A t \in Threads : /\ pc'[t] = "idle" /\ todo'[t] = {} /\ pending'[t] = {}
                            /\ current'[t] = {} /\ logged'[t] = {}
  BY DEF Crash
<1>2. \A t \in Threads : ThreadInv(t)' /\ CreatingInv(t)'
  BY <1>1 DEF ThreadInv, CreatingInv, Logging, Finishing, Creating
<1>3. (\A r \in Runs : RunInv(r)') /\ TerminalCarriesLogged'
  BY <1>1 DEF RunInv, TerminalCarriesLogged
<1> QED BY <1>2, <1>3

LEMMA StutterCarries ==
  ASSUME CarriesInv, UNCHANGED vars
  PROVE  CarriesInv'
<1>1. /\ UNCHANGED <<status, live, state, lock, marquez, pc, method, run, request, todo, pending>>
      /\ UNCHANGED <<current, snap, logged, owed, acked>>
  BY DEF vars, delegate, memory, control, local
<1>2. TypeOK'
  BY DEF CarriesInv, TypeOK, vars, delegate, memory, control, local, counters
<1>3. \A t \in Threads : ThreadInv(t)' /\ CreatingInv(t)'
  <2> SUFFICES ASSUME NEW t \in Threads PROVE ThreadInv(t)' /\ CreatingInv(t)'
    OBVIOUS
  <2>1. Outstanding(t)' = Outstanding(t)
    BY <1>1 DEF Outstanding, ModelsOf
  <2> QED BY <1>1, <2>1 DEF CarriesInv, ThreadInv, CreatingInv
<1> QED BY <1>1, <1>2, <1>3 DEF CarriesInv, RunInv, TerminalCarriesLogged

(* No step of the system disturbs the invariant.                           *)
LEMMA NextCarries ==
  ASSUME CarriesInv, TypeOK', [Next]_vars
  PROVE  CarriesInv'
<1>1. ASSUME NEW t \in Threads, Call(t) PROVE CarriesInv'
  BY <1>1, CreateRunCarries, UpdateRunInfoCarries, LogBatchCarries, SetTagCarries,
     LogInputsCarries, LogOutputsCarries, DelegateRaisesCarries DEF Call
<1>2. ASSUME NEW t \in Threads, Progress(t) PROVE CarriesInv'
  BY <1>2, RegisterRunCarries, EmitStartCarries, LookupStateCarries, BeginFilterCarries,
     EndFilterCarries, EmitTerminalCarries, ForgetRunCarries, AcquireCarries, AccumulateCarries,
     ReleaseCarries, AnnounceDatasetCarries, AppendDatasetCarries, SkipDatasetCarries DEF Progress
<1>3. CASE Crash
  BY <1>3, CrashCarries
<1>4. CASE UNCHANGED vars
  BY <1>4, StutterCarries
<1> QED BY <1>1, <1>2, <1>3, <1>4 DEF Next, Quiescent

LEMMA InitCarries == Init => CarriesInv
<1> SUFFICES ASSUME Init PROVE CarriesInv
  OBVIOUS
<1>1. TypeOK
  BY DEF Init, TypeOK, PCs, Methods
<1>2. \A t \in Threads : ThreadInv(t) /\ CreatingInv(t)
  BY DEF Init, ThreadInv, CreatingInv, Logging, Finishing, Creating
<1>3. (\A r \in Runs : RunInv(r)) /\ TerminalCarriesLogged
  BY DEF Init, RunInv, TerminalCarriesLogged
<1> QED BY <1>1, <1>2, <1>3 DEF CarriesInv

(* For any workload, crashes and losses included, a COMPLETE event carries *)
(* every value, and a FAIL event every dataset, whose logging call had     *)
(* returned when update_run_info was called.                               *)
THEOREM TerminalsCarryLogged == Spec => []TerminalCarriesLogged
<1>1. CarriesInv /\ TypeOK' /\ [Next]_vars => CarriesInv'
  BY NextCarries
<1>2. CarriesInv => TerminalCarriesLogged
  BY DEF CarriesInv
<1> QED BY InitCarries, <1>1, <1>2, TypeCorrect, PTL DEF Spec

-----------------------------------------------------------------------------
(* The steps of a logging call leave the beginning and the end of every    *)
(* run alone: they post no run event, make no run live or forgotten, and   *)
(* add tags to a state only if the call was given tags.                    *)
OthersKept(t) ==
  \A u \in Threads \ {t} :
    /\ pc'[u] = pc[u] /\ method'[u] = method[u] /\ run'[u] = run[u]
    /\ request'[u] = request[u] /\ todo'[u] = todo[u] /\ snap'[u] = snap[u]

LoggingStep(t) ==
  /\ OthersKept(t)
  /\ UNCHANGED <<status, live, marquez>>
  /\ pc[t] \in Logging \cup {"idle"} /\ pc'[t] \in Logging \cup {"idle"}
  /\ \/ run'[t] = run[t] /\ todo'[t] \cap AllTags \subseteq todo[t]
     \/ todo'[t] \cap AllTags = {} \/ t \in Taggers[run'[t]]
  /\ \A r \in Runs : \/ state'[r] \cap AllTags = state[r] \cap AllTags
                     \/ r = run[t] /\ todo[t] \cap AllTags # {}
  /\ \A u \in Threads : result'[u] = "lineage_error" => result[u] = "lineage_error"

LogCall(t, r) ==
  \/ \E I \in SUBSET (Params \cup Metrics \cup BatchTags) : LogBatch(t, r, I)
  \/ \E g \in AllTags : SetTag(t, r, g)
  \/ \E D \in SUBSET Inputs, M \in SUBSET Outputs : LogInputs(t, r, D, M)
  \/ \E M \in SUBSET Outputs : LogOutputs(t, r, M)
  \/ \E part \in SUBSET (Params \cup Metrics \cup BatchTags) : DelegateRaises(t, r, part)

LogProgress(t) ==
  \/ Acquire(t)
  \/ \E i \in Item : Accumulate(t, i)
  \/ Release(t)
  \/ \E d \in Datasets : AnnounceDataset(t, d)
  \/ AppendDataset(t)
  \/ \E d \in Datasets : SkipDataset(t, d)

LEMMA LogCallIsLogging ==
  ASSUME TypeOK, NEW t \in Threads, pc[t] = "idle" => todo[t] = {}, NEW r \in Runs, LogCall(t, r)
  PROVE  LoggingStep(t)
<1> USE DEF TypeOK, LoggingStep, OthersKept, Logging, memory, control, local
<1>1. ASSUME NEW I \in SUBSET (Params \cup Metrics \cup BatchTags), LogBatch(t, r, I)
      PROVE  LoggingStep(t)
  BY <1>1 DEF LogBatch, Enter
<1>2. ASSUME NEW g \in AllTags, SetTag(t, r, g) PROVE LoggingStep(t)
  BY <1>2 DEF SetTag, Enter
<1>3. ASSUME NEW D \in SUBSET Inputs, NEW M \in SUBSET Outputs, LogInputs(t, r, D, M)
      PROVE  LoggingStep(t)
  <2>1. M \cap AllTags = {}
    BY DEF Datasets
  <2> QED BY <1>3, <2>1 DEF LogInputs, Enter
<1>4. ASSUME NEW M \in SUBSET Outputs, LogOutputs(t, r, M) PROVE LoggingStep(t)
  BY <1>4 DEF LogOutputs, Enter
<1>5. ASSUME NEW part, DelegateRaises(t, r, part) PROVE LoggingStep(t)
  BY <1>5 DEF DelegateRaises
<1> QED BY <1>1, <1>2, <1>3, <1>4, <1>5 DEF LogCall

(* A return, and the next iteration of a loop, of a logging call.          *)
LEMMA ReturnIsLogging ==
  ASSUME TypeOK, NEW t \in Threads, NEW done, Return(t, "ok", done), pc[t] \in Logging,
         UNCHANGED <<status, live, marquez>>,
         \A r \in Runs : state'[r] \cap AllTags = state[r] \cap AllTags
  PROVE  LoggingStep(t)
  BY DEF Return, Goto, TypeOK, LoggingStep, OthersKept

LEMMA AdvanceIsLogging ==
  ASSUME TypeOK, NEW t \in Threads, NEW rest, NEW done, Advance(t, rest, done), pc[t] \in Logging,
         UNCHANGED <<status, live, marquez>>,
         \A r \in Runs : state'[r] \cap AllTags = state[r] \cap AllTags
  PROVE  LoggingStep(t)
<1>1. CASE Return(t, "ok", done)
  BY <1>1, ReturnIsLogging
<1>2. CASE ~Return(t, "ok", done)
  <2>1. /\ pc' = [pc EXCEPT ![t] = pc'[t]] /\ pc'[t] \in {"announce", "locked", "acquire"}
        /\ UNCHANGED <<method, run, request, todo, snap, result>>
    BY <1>2 DEF Advance, Goto, TypeOK
  <2> QED BY <2>1 DEF TypeOK, LoggingStep, OthersKept, Logging
<1> QED BY <1>1, <1>2

LEMMA LogProgressIsLogging ==
  ASSUME TypeOK, NEW t \in Threads, LogProgress(t)
  PROVE  LoggingStep(t)
<1> USE DEF Logging, memory, control, local, delegate, counters
<1>1. CASE Acquire(t)
  BY <1>1 DEF Acquire, Goto, TypeOK, LoggingStep, OthersKept
<1>2. ASSUME NEW i \in Item, Accumulate(t, i) PROVE LoggingStep(t)
  <2>1. /\ pc[t] = "locked" /\ i \in todo[t]
        /\ pc' = [pc EXCEPT ![t] = pc'[t]] /\ pc'[t] \in {"locked", "announce"}
        /\ UNCHANGED <<status, live, marquez, method, run, request, snap, result>>
        /\ state' = [state EXCEPT ![run[t]] = @ \cup {i}]
        /\ todo' = [todo EXCEPT ![t] = @ \ {i}]
    BY <1>2 DEF Accumulate, Goto, TypeOK
  <2> QED BY <2>1 DEF TypeOK, LoggingStep, OthersKept
<1>3. CASE Release(t)
  <2>1. pc[t] = "locked" /\ UNCHANGED <<status, live, marquez, state>>
    BY <1>3 DEF Release
  <2>2. CASE Return(t, "ok", logged[t])
    BY <2>1, <2>2, ReturnIsLogging
  <2>3. CASE ~Return(t, "ok", logged[t])
    <3>1. pc' = [pc EXCEPT ![t] = "announce"] /\ UNCHANGED <<method, run, request, todo, snap, result>>
      BY <1>3, <2>3 DEF Release, Goto
    <3> QED BY <2>1, <3>1 DEF TypeOK, LoggingStep, OthersKept
  <2> QED BY <2>2, <2>3
<1>4. ASSUME NEW d \in Datasets, AnnounceDataset(t, d) PROVE LoggingStep(t)
  BY <1>4 DEF AnnounceDataset, Goto, TypeOK, LoggingStep, OthersKept
<1>5. CASE AppendDataset(t)
  <2>1. /\ pc[t] = "append" /\ UNCHANGED <<status, live, marquez>>
        /\ Advance(t, pending[t] \ current[t], logged[t])
    BY <1>5 DEF AppendDataset
  <2>2. \A r \in Runs : state'[r] \cap AllTags = state[r] \cap AllTags
    <3>1. current[t] \cap AllTags = {} /\ run[t] \in Runs
      BY DEF TypeOK
    <3> QED BY <1>5, <3>1 DEF AppendDataset, TypeOK
  <2> QED BY <2>1, <2>2, AdvanceIsLogging
<1>6. ASSUME NEW d \in Datasets, SkipDataset(t, d) PROVE LoggingStep(t)
  <2>1. /\ pc[t] = "announce" /\ UNCHANGED <<status, live, marquez, state>>
        /\ \E rest, done : Advance(t, rest, done)
    BY <1>6 DEF SkipDataset
  <2> QED BY <2>1, AdvanceIsLogging
<1> QED BY <1>1, <1>2, <1>3, <1>4, <1>5, <1>6 DEF LogProgress

-----------------------------------------------------------------------------
(* A step that posts nothing and makes no run live.                        *)
LEMMA StartKept ==
  ASSUME StartInv, UNCHANGED marquez, live' \subseteq live,
         \A u \in Threads :
           /\ pc[u] = "start" => pc'[u] = "start" /\ run'[u] = run[u]
           /\ pc'[u] \in Finishing => marquez[run'[u]] # <<>>
  PROVE  StartInv'
<1>1. StartOpensRun'
  BY DEF StartInv, StartOpensRun
<1> QED BY <1>1 DEF StartInv

LEMMA CallKeepsStart ==
  ASSUME StartInv, CarriesInv, NEW t \in Threads, Call(t)
  PROVE  StartInv'
<1> USE DEF Finishing, memory
<1>0. TypeOK /\ (pc[t] = "idle" => todo[t] = {})
  BY DEF CarriesInv, ThreadInv
<1> PICK r \in Runs : \/ CreateRun(t, r) \/ LogCall(t, r)
                      \/ \E s \in Statuses : UpdateRunInfo(t, r, s)
  BY DEF Call, LogCall
<1>1. CASE CreateRun(t, r)
  <2>1. /\ UNCHANGED <<marquez, live>> /\ pc[t] = "idle" /\ pc'[t] = "register"
        /\ \A u \in Threads \ {t} : pc'[u] = pc[u] /\ run'[u] = run[u]
    BY <1>0, <1>1 DEF CreateRun, Enter, TypeOK
  <2> QED BY <2>1, StartKept DEF StartInv
<1>2. CASE LogCall(t, r)
  <2>1. LoggingStep(t)
    BY <1>0, <1>2, LogCallIsLogging
  <2> QED BY <2>1, StartKept DEF StartInv, LoggingStep, OthersKept, Logging
<1>3. ASSUME NEW s \in Statuses, UpdateRunInfo(t, r, s) PROVE StartInv'
  <2>1. /\ UNCHANGED <<marquez, live>> /\ pc[t] = "idle" /\ pc'[t] = "lookup"
        /\ \A u \in Threads \ {t} : pc'[u] = pc[u] /\ run'[u] = run[u]
    BY <1>0, <1>3 DEF UpdateRunInfo, Enter, TypeOK
  <2> QED BY <2>1, StartKept DEF StartInv
<1> QED BY <1>1, <1>2, <1>3

(* A run is registered before its START is posted, by the same thread.     *)
LEMMA RegisterKeepsStart ==
  ASSUME StartInv, TypeOK, NEW t \in Threads, RegisterRun(t)
  PROVE  StartInv'
<1>1. /\ UNCHANGED <<marquez, run>> /\ live' = live \cup {run[t]} /\ pc[t] = "register"
      /\ pc'[t] = "start" /\ \A u \in Threads \ {t} : pc'[u] = pc[u]
  BY DEF RegisterRun, Goto, TypeOK
<1>2. StartOpensRun'
  BY <1>1 DEF StartInv, StartOpensRun
<1>3. ASSUME NEW r \in live'
      PROVE  marquez'[r] # <<>> \/ \E u \in Threads : pc'[u] = "start" /\ run'[u] = r
  <2>1. CASE r = run[t]
    BY <1>1, <2>1
  <2>2. CASE r \in live
    BY <1>1, <2>2 DEF StartInv
  <2> QED BY <1>1, <1>3, <2>1, <2>2
<1>4. \A u \in Threads : pc'[u] \in Finishing => marquez'[run'[u]] # <<>>
  BY <1>1 DEF StartInv, Finishing
<1> QED BY <1>2, <1>3, <1>4 DEF StartInv

LEMMA EmitStartKeepsStart ==
  ASSUME CarriesInv, StartInv, ~Lossy, NEW t \in Threads, EmitStart(t)
  PROVE  StartInv'
<1> USE DEF CarriesInv, memory
<1> DEFINE event == [type |-> "START", items |-> {}, owed |-> {}]
<1>1. /\ pc[t] = "start" /\ run[t] \in Runs /\ marquez[run[t]] = <<>>
      /\ marquez' = [marquez EXCEPT ![run[t]] = Append(@, event)] /\ UNCHANGED <<run, live>>
      /\ pc'[t] = "idle" /\ \A u \in Threads \ {t} : pc'[u] = pc[u]
  BY DEF EmitStart, Post, Return, Goto, CreatingInv, Creating, TypeOK
<1>2. /\ marquez'[run[t]] = <<event>> /\ \A r \in Runs \ {run[t]} : marquez'[r] = marquez[r]
      /\ marquez'[run[t]] # <<>>
  <2>1. /\ marquez'[run[t]] = Append(<<>>, event)
        /\ \A r \in Runs \ {run[t]} : marquez'[r] = marquez[r]
    BY <1>1 DEF TypeOK
  <2> HIDE DEF event
  <2>2. Append(<<>>, event) = <<event>>
    OBVIOUS
  <2> QED BY <2>1, <2>2
<1>3. StartOpensRun'
  <2>1. \A i \in DOMAIN marquez'[run[t]] : marquez'[run[t]][i].type = "START" /\ i = 1
    BY <1>2
  <2> QED BY <1>2, <2>1 DEF StartInv, StartOpensRun
<1>4. \A r \in live' :
        marquez'[r] # <<>> \/ \E u \in Threads : pc'[u] = "start" /\ run'[u] = r
  <2>1. live \subseteq Runs
    BY DEF TypeOK
  <2> QED BY <1>1, <1>2, <2>1 DEF StartInv
<1>5. \A u \in Threads : pc'[u] \in Finishing => marquez'[run'[u]] # <<>>
  <2>1. \A u \in Threads : run[u] \in Runs
    BY DEF TypeOK
  <2> QED BY <1>1, <1>2, <2>1 DEF StartInv, Finishing
<1> QED BY <1>3, <1>4, <1>5 DEF StartInv

(* A run that is looked up is not one whose START is still to be posted.   *)
LEMMA LookupKeepsStart ==
  ASSUME CarriesInv, StartInv, NEW t \in Threads, LookupState(t)
  PROVE  StartInv'
<1> USE DEF CarriesInv, memory
<1>1. /\ pc[t] = "lookup" /\ UNCHANGED <<marquez, live, run>>
      /\ pc' = [pc EXCEPT ![t] = pc'[t]] /\ pc'[t] # "start"
      /\ pc'[t] \in Finishing => run[t] \in live
  BY DEF LookupState, Return, Goto, Finishing, TypeOK
<1>2. \A u \in Threads \ {t} : pc'[u] = pc[u]
  BY <1>1 DEF TypeOK
<1>3. run[t] \in live => marquez[run[t]] # <<>>
  <2>1. \A u \in Threads : pc[u] = "start" => run[u] # run[t]
    BY <1>1 DEF CreatingInv, Creating
  <2> QED BY <2>1 DEF StartInv
<1> QED BY <1>1, <1>2, <1>3, StartKept DEF StartInv

LEMMA EmitTerminalKeepsStart ==
  ASSUME TypeOK, StartInv, ~Lossy, NEW t \in Threads, EmitTerminal(t)
  PROVE  StartInv'
<1> USE DEF memory
<1>1. /\ pc[t] = "emit" /\ run[t] \in Runs /\ UNCHANGED <<live, run>>
      /\ pc'[t] = "forget" /\ \A u \in Threads \ {t} : pc'[u] = pc[u]
  BY DEF EmitTerminal, Goto, TypeOK
<1>2. \E event : /\ event.type # "START"
                 /\ marquez' = [marquez EXCEPT ![run[t]] = Append(@, event)]
  <2>1. CASE request[t] = "FINISHED"
    <3> DEFINE e == [type |-> "COMPLETE", items |-> CompleteItems(t), owed |-> owed[t]]
    <3>1. e.type # "START" /\ marquez' = [marquez EXCEPT ![run[t]] = Append(@, e)]
      BY <2>1 DEF EmitTerminal, Post
    <3> QED BY <3>1
  <2>2. CASE request[t] # "FINISHED"
    <3> DEFINE e == [type |-> "FAIL", items |-> state[run[t]] \cap Datasets,
                     owed |-> owed[t] \cap Datasets]
    <3>1. e.type # "START" /\ marquez' = [marquez EXCEPT ![run[t]] = Append(@, e)]
      BY <2>2 DEF EmitTerminal, Post
    <3> QED BY <3>1
  <2> QED BY <2>1, <2>2
<1> PICK event : /\ event.type # "START"
                 /\ marquez' = [marquez EXCEPT ![run[t]] = Append(@, event)]
  BY <1>2
<1>3. /\ \A r \in Runs \ {run[t]} : marquez'[r] = marquez[r]
      /\ marquez[run[t]] \in Seq(Event) /\ marquez[run[t]] # <<>>
      /\ marquez'[run[t]] = Append(marquez[run[t]], event)
  BY <1>1 DEF TypeOK, StartInv, Finishing
<1>4. /\ Len(marquez[run[t]]) >= 1 /\ marquez'[run[t]] # <<>>
      /\ \A i \in DOMAIN marquez'[run[t]] :
           \/ i \in DOMAIN marquez[run[t]] /\ marquez'[run[t]][i] = marquez[run[t]][i]
           \/ i # 1 /\ marquez'[run[t]][i] = event
  BY <1>3
<1>5. StartOpensRun'
  BY <1>1, <1>3, <1>4 DEF StartInv, StartOpensRun
<1>6. \A r \in Runs : marquez[r] # <<>> => marquez'[r] # <<>>
  BY <1>3, <1>4
<1>7. live \subseteq Runs /\ \A u \in Threads : run[u] \in Runs
  BY DEF TypeOK
<1>8. \A r \in live' :
        marquez'[r] # <<>> \/ \E u \in Threads : pc'[u] = "start" /\ run'[u] = r
  BY <1>1, <1>6, <1>7 DEF StartInv
<1>9. \A u \in Threads : pc'[u] \in Finishing => marquez'[run'[u]] # <<>>
  BY <1>1, <1>6, <1>7 DEF StartInv, Finishing
<1> QED BY <1>5, <1>8, <1>9 DEF StartInv

(* The other steps of an ending, which leave the record alone.             *)
LEMMA EndingKeepsStart ==
  ASSUME TypeOK, StartInv, NEW t \in Threads, BeginFilter(t) \/ EndFilter(t) \/ ForgetRun(t)
  PROVE  StartInv'
<1>1. /\ pc[t] \in Finishing /\ pc' = [pc EXCEPT ![t] = pc'[t]] /\ pc'[t] # "start"
      /\ UNCHANGED <<run, marquez>> /\ live' \subseteq live
  BY DEF BeginFilter, EndFilter, ForgetRun, Return, Goto, Finishing, memory, TypeOK
<1>2. \A u \in Threads \ {t} : pc'[u] = pc[u]
  BY <1>1 DEF TypeOK
<1>3. pc[t] # "start"
  BY <1>1 DEF Finishing
<1> QED BY <1>1, <1>2, <1>3, StartKept DEF StartInv

LEMMA NextKeepsStart ==
  ASSUME CarriesInv, StartInv, ~Lossy, [Next]_vars
  PROVE  StartInv'
<1>0. TypeOK
  BY DEF CarriesInv
<1>1. ASSUME NEW t \in Threads, Call(t) PROVE StartInv'
  BY <1>1, CallKeepsStart
<1>2. ASSUME NEW t \in Threads, Progress(t) PROVE StartInv'
  <2>1. CASE LogProgress(t)
    <3>1. LoggingStep(t)
      BY <1>0, <2>1, LogProgressIsLogging
    <3> QED BY <3>1, StartKept DEF StartInv, LoggingStep, OthersKept, Logging, Finishing
  <2>2. CASE ~LogProgress(t)
    BY <1>0, <1>2, <2>2, RegisterKeepsStart, EmitStartKeepsStart, LookupKeepsStart,
       EmitTerminalKeepsStart, EndingKeepsStart DEF Progress, LogProgress
  <2> QED BY <2>1, <2>2
<1>3. CASE Crash
  <2>1. UNCHANGED marquez /\ live' = {} /\ \A u \in Threads : pc'[u] = "idle"
    BY <1>3 DEF Crash
  <2>2. StartOpensRun'
    BY <2>1 DEF StartInv, StartOpensRun
  <2> QED BY <2>1, <2>2 DEF StartInv, Finishing
<1>4. CASE UNCHANGED vars
  BY <1>4, StartKept DEF StartInv, vars, memory, control
<1> QED BY <1>1, <1>2, <1>3, <1>4 DEF Next, Quiescent

LEMMA InitStarts == Init => StartInv
  BY DEF Init, StartInv, StartOpensRun, Finishing

LEMMA CarriesAlways == Spec => [](TypeOK /\ CarriesInv)
<1>1. CarriesInv /\ TypeOK' /\ [Next]_vars => CarriesInv'
  BY NextCarries
<1> QED BY InitCarries, <1>1, TypeCorrect, PTL DEF Spec

(* With a backend that loses nothing, and whatever crashes, the first event *)
(* of a run is its START and no later one is.                               *)
THEOREM RunsOpenWithStart == ASSUME ~Lossy PROVE Spec => []StartOpensRun
<1>1. CarriesInv /\ StartInv /\ [Next]_vars => StartInv'
  BY NextKeepsStart
<1>2. StartInv => StartOpensRun
  BY DEF StartInv
<1> QED BY InitStarts, <1>1, <1>2, CarriesAlways, PTL DEF Spec

-----------------------------------------------------------------------------
(* A post ends the run it is for, and no run twice.                        *)
LEMMA PostEnds ==
  ASSUME TypeOK, AtMostOneTerminal, NEW r \in Runs, NEW event \in Event, Post(r, event),
         IsTerminal(event) => r \notin Ended
  PROVE  /\ AtMostOneTerminal'
         /\ Ended \subseteq Ended'
         /\ Ended' \subseteq Ended \cup {r}
         /\ ~IsTerminal(event) => Ended' = Ended
         /\ ~Lossy /\ IsTerminal(event) => r \in Ended'
<1>1. CASE UNCHANGED marquez /\ Lossy
  BY <1>1 DEF AtMostOneTerminal, Ended
<1>2. CASE marquez' = [marquez EXCEPT ![r] = Append(@, event)]
  <2>1. \A q \in Runs \ {r} : marquez'[q] = marquez[q]
    BY <1>2 DEF TypeOK
  <2>2. marquez[r] \in Seq(Event) /\ marquez'[r] = Append(marquez[r], event)
    BY <1>2 DEF TypeOK
  <2> DEFINE n == Len(marquez[r]) + 1
  <2>3. /\ n \in DOMAIN marquez'[r] /\ marquez'[r][n] = event
        /\ \A i \in DOMAIN marquez'[r] :
             \/ i \in DOMAIN marquez[r] /\ marquez'[r][i] = marquez[r][i]
             \/ i = n
        /\ \A i \in DOMAIN marquez[r] : i \in DOMAIN marquez'[r] /\ marquez'[r][i] = marquez[r][i]
    BY <2>2
  <2> HIDE DEF n
  <2>4. \A i, j \in DOMAIN marquez'[r] :
          IsTerminal(marquez'[r][i]) /\ IsTerminal(marquez'[r][j]) => i = j
    BY <2>3 DEF AtMostOneTerminal, Ended
  <2>5. AtMostOneTerminal'
    BY <2>1, <2>4 DEF AtMostOneTerminal
  <2> QED BY <2>1, <2>3, <2>5 DEF Ended
<1> QED BY <1>1, <1>2 DEF Post

(* A step that posts nothing ends nothing.                                 *)
LEMMA NothingEnds ==
  ASSUME UNCHANGED marquez
  PROVE  Ended' = Ended /\ (AtMostOneTerminal => AtMostOneTerminal')
  BY DEF Ended, AtMostOneTerminal

(* The threads that do not move: a step of one that does not register      *)
(* their run, or add a tag to it, or end or forget it.                     *)
LEMMA OthersKeepEnd ==
  ASSUME TypeOK, NEW own, EndInv(own), NEW t \in Threads,
         \A u \in Threads \ {t} :
           /\ pc'[u] = pc[u] /\ method'[u] = method[u] /\ run'[u] = run[u]
           /\ todo'[u] = todo[u] /\ snap'[u] = snap[u]
           /\ pc[u] = "register" => status'[run[u]] = status[run[u]]
           /\ pc[u] = "iterate" => state'[run[u]] \cap AllTags = state[run[u]] \cap AllTags
           /\ pc[u] \in Finishing => run[u] \in live'
           /\ pc[u] \in Finishing /\ run[u] \in Ended' => run[u] \in Ended
  PROVE  \A u \in Threads \ {t} : EnderInv(own, u)'
<1> SUFFICES ASSUME NEW u \in Threads \ {t} PROVE EnderInv(own, u)'
  OBVIOUS
<1>1. EnderInv(own, u)
  BY DEF EndInv
<1> QED BY <1>1 DEF EnderInv, AtEnd, Finishing

(* The owner of a run is the only one that is ending it.                   *)
LEMMA EndersApart ==
  ASSUME NEW own, EndInv(own), NEW t \in Threads, NEW u \in Threads,
         run[u] = run[t], pc[u] \in AtEnd,
         pc[t] \in AtEnd \/ todo[t] \cap AllTags # {}
  PROVE  u = t
  BY DEF EndInv, EnderInv

LEMMA LoggingKeepsEnd ==
  ASSUME CarriesInv, TypeOK', NEW own, OneEnder(own), EndInv(own), NEW t \in Threads,
         LoggingStep(t)
  PROVE  EndInv(own)' /\ (ReportedInv(own) => ReportedInv(own)')
<1> USE DEF AtEnd, Finishing, Logging
<1>0. TypeOK
  BY DEF CarriesInv
<1>1. Ended' = Ended /\ AtMostOneTerminal'
  BY NothingEnds DEF LoggingStep, EndInv
<1>2. /\ pc[t] \in Logging \cup {"idle"} /\ pc'[t] \in Logging \cup {"idle"}
      /\ UNCHANGED <<status, live>>
      /\ \A u \in Threads \ {t} :
           /\ pc'[u] = pc[u] /\ method'[u] = method[u] /\ run'[u] = run[u]
           /\ request'[u] = request[u] /\ todo'[u] = todo[u] /\ snap'[u] = snap[u]
  BY DEF LoggingStep, OthersKept
<1>3. MLflowStillSucceeds'
  BY DEF EndInv, MLflowStillSucceeds, LoggingStep
<1>4. /\ run \in [Threads -> Runs] /\ run' \in [Threads -> Runs] /\ own \in [Runs -> Threads]
  BY <1>0 DEF TypeOK, OneEnder
<1>5. EnderInv(own, t)'
  <2>1. todo'[t] \cap AllTags # {} => own[run'[t]] = t
    BY <1>4 DEF LoggingStep, OneEnder, EndInv, EnderInv
  <2> QED BY <1>2, <2>1 DEF EnderInv
<1>6. \A u \in Threads \ {t} : EnderInv(own, u)'
  <2>1. ASSUME NEW u \in Threads \ {t}, pc[u] = "iterate"
        PROVE  state'[run[u]] \cap AllTags = state[run[u]] \cap AllTags
    <3>1. run[u] = run[t] => todo[t] \cap AllTags = {}
      BY <2>1, EndersApart
    <3> QED BY <1>4, <3>1 DEF LoggingStep
  <2>2. \A u \in Threads \ {t} : pc[u] \in Finishing => run[u] \in live'
    BY <1>2 DEF EndInv, EnderInv
  <2> QED BY <1>0, <1>1, <1>2, <2>1, <2>2, OthersKeepEnd
<1>7. \A r \in Runs : OpenInv(own, r)'
  <2> SUFFICES ASSUME NEW r \in Runs PROVE OpenInv(own, r)'
    OBVIOUS
  <2>1. own[r] \in Threads /\ OpenInv(own, r)
    BY <1>4 DEF EndInv
  <2>2. pc[own[r]] \in AtEnd => pc'[own[r]] = pc[own[r]] /\ run'[own[r]] = run[own[r]]
    BY <1>2, <2>1
  <2> QED BY <1>1, <1>2, <2>1, <2>2 DEF OpenInv, EndedBy
<1>8. EndInv(own)'
  BY <1>1, <1>3, <1>5, <1>6, <1>7 DEF EndInv
<1>9. ASSUME ReportedInv(own) PROVE ReportedInv(own)'
  <2>1. \A u \in Threads : TellingInv(u)'
    BY <1>1, <1>2, <1>9 DEF ReportedInv, TellingInv
  <2>2. ASSUME NEW r \in Runs PROVE ToldInv(own, r)'
    <3>1. own[r] \in Threads /\ ToldInv(own, r)
      BY <1>4, <1>9 DEF ReportedInv
    <3>2. pc[own[r]] \in AtEnd => pc'[own[r]] = pc[own[r]] /\ run'[own[r]] = run[own[r]]
      BY <1>2, <3>1
    <3>3. \A u \in Threads : pc[u] = "register" => pc'[u] = "register" /\ run'[u] = run[u]
      BY <1>2
    <3> QED BY <1>1, <1>2, <3>1, <3>2, <3>3 DEF ToldInv, EndedBy
  <2> QED BY <2>1, <2>2 DEF ReportedInv
<1> QED BY <1>8, <1>9

-----------------------------------------------------------------------------
(* A step of t that ends no run: a run it is not about stays as it is.     *)
LEMMA OtherRunsKeepEnd ==
  ASSUME TypeOK, NEW own, OneEnder(own), EndInv(own), NEW t \in Threads, NEW r \in Runs,
         r \in Ended' <=> r \in Ended, r \in live' <=> r \in live, status'[r] = status[r],
         run[t] # r \/ pc[t] \notin {"register"} \cup AtEnd,
         \A u \in Threads \ {t} : pc'[u] = pc[u] /\ run'[u] = run[u]
  PROVE  OpenInv(own, r)' /\ (ReportedInv(own) => ToldInv(own, r)')
<1>1. own[r] \in Threads /\ OpenInv(own, r)
  BY DEF EndInv, OneEnder
<1>2. EndedBy(own[r], r) => pc'[own[r]] = pc[own[r]] /\ run'[own[r]] = run[own[r]]
  BY <1>1 DEF EndedBy
<1>3. OpenInv(own, r)'
  BY <1>1, <1>2 DEF OpenInv, EndedBy, AtEnd, Finishing
<1>4. ASSUME ReportedInv(own) PROVE ToldInv(own, r)'
  <2>1. \A u \in Threads : pc[u] = "register" /\ run[u] = r => pc'[u] = "register" /\ run'[u] = r
    OBVIOUS
  <2> QED BY <1>1, <1>2, <1>4, <2>1 DEF ReportedInv, ToldInv, EndedBy
<1> QED BY <1>3, <1>4

(* A run that is being created is not ended meanwhile.                     *)
LEMMA CreateKeepsEnd ==
  ASSUME CarriesInv, NEW own, OneEnder(own), EndInv(own), NEW t \in Threads, NEW r \in Runs,
         CreateRun(t, r)
  PROVE  EndInv(own)' /\ (ReportedInv(own) => ReportedInv(own)')
<1> USE DEF memory, local
<1>0. TypeOK /\ todo[t] = {}
  BY DEF CarriesInv, ThreadInv, CreateRun, Enter
<1>1. Ended' = Ended /\ AtMostOneTerminal'
  BY NothingEnds DEF CreateRun, EndInv
<1>2. /\ pc[t] = "idle" /\ pc'[t] = "register" /\ run'[t] = r /\ status[r] = "none"
      /\ status'[r] = "RUNNING" /\ \A q \in Runs \ {r} : status'[q] = status[q]
      /\ UNCHANGED <<live, state, todo, snap, request, result>>
      /\ \A u \in Threads \ {t} : pc'[u] = pc[u] /\ method'[u] = method[u] /\ run'[u] = run[u]
  BY <1>0 DEF CreateRun, Enter, TypeOK
<1>3. \A u \in Threads : pc[u] # "idle" => run[u] # r
  BY <1>2 DEF CarriesInv, RunInv
<1>4. MLflowStillSucceeds'
  BY <1>2 DEF EndInv, MLflowStillSucceeds
<1>5. EnderInv(own, t)'
  BY <1>0, <1>2 DEF EnderInv, AtEnd, Finishing
<1>6. \A u \in Threads \ {t} : EnderInv(own, u)'
  <2>1. \A u \in Threads \ {t} : pc[u] # "idle" => status'[run[u]] = status[run[u]]
    BY <1>0, <1>2, <1>3 DEF TypeOK
  <2>2. \A u \in Threads \ {t} : pc[u] \in Finishing => run[u] \in live'
    BY <1>2 DEF EndInv, EnderInv
  <2> QED BY <1>0, <1>1, <1>2, <2>1, <2>2, OthersKeepEnd
<1>7. \A q \in Runs \ {r} : OpenInv(own, q)' /\ (ReportedInv(own) => ToldInv(own, q)')
  BY <1>0, <1>1, <1>2, OtherRunsKeepEnd DEF AtEnd, Finishing
<1>8. OpenInv(own, r)' /\ ToldInv(own, r)'
  <2>1. r \notin live
    BY <1>2 DEF CarriesInv, RunInv
  <2> QED BY <1>2, <2>1 DEF OpenInv, ToldInv
<1>9. ReportedInv(own) => \A u \in Threads : TellingInv(u)'
  BY <1>1, <1>2 DEF ReportedInv, TellingInv
<1> QED BY <1>1, <1>4, <1>5, <1>6, <1>7, <1>8, <1>9 DEF EndInv, ReportedInv

LEMMA RegisterKeepsEnd ==
  ASSUME CarriesInv, NEW own, OneEnder(own), EndInv(own), NEW t \in Threads, RegisterRun(t)
  PROVE  EndInv(own)' /\ (ReportedInv(own) => ReportedInv(own)')
<1> USE DEF delegate, local
<1>0. TypeOK /\ todo'[t] = todo[t] /\ EnderInv(own, t)
  BY DEF CarriesInv, RegisterRun, EndInv
<1>1. Ended' = Ended /\ AtMostOneTerminal'
  BY NothingEnds DEF RegisterRun, EndInv
<1>2. /\ pc[t] = "register" /\ pc'[t] = "start" /\ live' = live \cup {run[t]}
      /\ \A q \in Runs \ {run[t]} : state'[q] = state[q]
      /\ UNCHANGED <<status, method, run, todo, snap, request, result>>
      /\ \A u \in Threads \ {t} : pc'[u] = pc[u]
  BY <1>0 DEF RegisterRun, Goto, TypeOK
<1>3. run[t] \in Runs /\ \A u \in Threads : run[u] \in Runs
  BY <1>0 DEF TypeOK
<1>4. run[t] \notin Ended /\ \A u \in Threads \ {t} : run[u] = run[t] => pc[u] = "idle"
  <2>1. CreatingInv(t)
    BY DEF CarriesInv
  <2> QED BY <1>2, <1>3, <2>1 DEF Ended, CreatingInv, Creating
<1>5. MLflowStillSucceeds'
  BY <1>2 DEF EndInv, MLflowStillSucceeds
<1>6. EnderInv(own, t)'
  BY <1>0, <1>2 DEF EnderInv, AtEnd, Finishing
<1>7. \A u \in Threads \ {t} : EnderInv(own, u)'
  <2>1. \A u \in Threads \ {t} :
          /\ pc[u] = "iterate" => state'[run[u]] \cap AllTags = state[run[u]] \cap AllTags
          /\ pc[u] \in Finishing => run[u] \in live'
    BY <1>2, <1>3, <1>4 DEF EndInv, EnderInv
  <2> QED BY <1>0, <1>1, <1>2, <2>1, OthersKeepEnd
<1>8. \A q \in Runs \ {run[t]} : OpenInv(own, q)' /\ (ReportedInv(own) => ToldInv(own, q)')
  BY <1>0, <1>1, <1>2, OtherRunsKeepEnd
<1>9. OpenInv(own, run[t])' /\ (ReportedInv(own) => ToldInv(own, run[t])')
  <2>1. status'[run[t]] = "RUNNING" /\ run[t] \in live' /\ run[t] \notin Ended'
    BY <1>0, <1>1, <1>2, <1>4 DEF EnderInv
  <2> QED BY <1>2, <1>3, <2>1 DEF OpenInv, ToldInv
<1>10. ReportedInv(own) => \A u \in Threads : TellingInv(u)'
  BY <1>1, <1>2 DEF ReportedInv, TellingInv
<1> QED BY <1>1, <1>2, <1>3, <1>5, <1>6, <1>7, <1>8, <1>9, <1>10 DEF EndInv, ReportedInv

LEMMA EmitStartKeepsEnd ==
  ASSUME CarriesInv, NEW own, OneEnder(own), EndInv(own), NEW t \in Threads, EmitStart(t)
  PROVE  EndInv(own)' /\ (ReportedInv(own) => ReportedInv(own)')
<1> USE DEF delegate, memory
<1> DEFINE event == [type |-> "START", items |-> {}, owed |-> {}]
<1>0. TypeOK
  BY DEF CarriesInv
<1>1. Ended' = Ended /\ AtMostOneTerminal'
  <2>1. event \in Event /\ ~IsTerminal(event) /\ run[t] \in Runs /\ TypeOK
    BY DEF Event, IsTerminal, CarriesInv, TypeOK
  <2>2. Post(run[t], event) /\ AtMostOneTerminal
    BY DEF EmitStart, EndInv
  <2> HIDE DEF event
  <2> QED BY <2>1, <2>2, PostEnds
<1>2. /\ pc[t] = "start" /\ pc'[t] = "idle" /\ todo'[t] = {}
      /\ UNCHANGED <<status, live, state, method, run>>
      /\ \A u \in Threads \ {t} : /\ pc'[u] = pc[u] /\ request'[u] = request[u]
                                   /\ todo'[u] = todo[u] /\ snap'[u] = snap[u]
      /\ result' = [result EXCEPT ![t] = "ok"]
  BY <1>0 DEF EmitStart, Return, Goto, TypeOK
<1>3. MLflowStillSucceeds'
  BY <1>0, <1>2 DEF EndInv, MLflowStillSucceeds, TypeOK
<1>4. EnderInv(own, t)'
  BY <1>2 DEF EnderInv, AtEnd, Finishing
<1>5. \A u \in Threads \ {t} : EnderInv(own, u)'
  <2>1. \A u \in Threads \ {t} : pc[u] \in Finishing => run[u] \in live'
    BY <1>2 DEF EndInv, EnderInv
  <2> QED BY <1>0, <1>1, <1>2, <2>1, OthersKeepEnd
<1>6. \A q \in Runs : OpenInv(own, q)' /\ (ReportedInv(own) => ToldInv(own, q)')
  BY <1>0, <1>1, <1>2, OtherRunsKeepEnd DEF AtEnd, Finishing
<1>7. ReportedInv(own) => \A u \in Threads : TellingInv(u)'
  BY <1>1, <1>2 DEF ReportedInv, TellingInv
<1> QED BY <1>1, <1>3, <1>4, <1>5, <1>6, <1>7 DEF EndInv, ReportedInv

-----------------------------------------------------------------------------
(* The steps of a thread that ends one of its runs.                        *)
LEMMA UpdateKeepsEnd ==
  ASSUME CarriesInv, NEW own, OneEnder(own), EndInv(own), NEW t \in Threads, NEW r \in Runs,
         NEW s \in Statuses, UpdateRunInfo(t, r, s)
  PROVE  EndInv(own)' /\ (NothingFails /\ ReportedInv(own) => ReportedInv(own)')
<1> USE DEF memory
<1>0. TypeOK /\ todo[t] = {} /\ own[r] = t
  BY DEF CarriesInv, ThreadInv, UpdateRunInfo, Enter, OneEnder
<1>1. Ended' = Ended /\ AtMostOneTerminal'
  BY NothingEnds DEF UpdateRunInfo, EndInv
<1>2. /\ pc[t] = "idle" /\ pc'[t] = "lookup" /\ run'[t] = r /\ method'[t] = "update_run_info"
      /\ status'[r] = s /\ request'[t] = s /\ \A q \in Runs \ {r} : status'[q] = status[q]
      /\ UNCHANGED <<live, state, todo, snap, result>>
      /\ \A u \in Threads \ {t} : /\ pc'[u] = pc[u] /\ run'[u] = run[u]
                                   /\ method'[u] = method[u] /\ request'[u] = request[u]
  BY <1>0 DEF UpdateRunInfo, Enter, TypeOK
<1>3. /\ status[r] # "none" /\ \A u \in Threads : pc[u] = "register" => run[u] # r
      /\ \A u \in Threads : run[u] \in Runs
  BY <1>0 DEF UpdateRunInfo, Created, TypeOK
<1>4. MLflowStillSucceeds'
  BY <1>2 DEF EndInv, MLflowStillSucceeds
<1>5. EnderInv(own, t)'
  BY <1>0, <1>2 DEF EnderInv, AtEnd, Finishing
<1>6. \A u \in Threads \ {t} : EnderInv(own, u)'
  <2>1. \A u \in Threads \ {t} : /\ pc[u] = "register" => status'[run[u]] = status[run[u]]
                                 /\ pc[u] \in Finishing => run[u] \in live'
    BY <1>2, <1>3 DEF EndInv, EnderInv
  <2> QED BY <1>0, <1>1, <1>2, <2>1, OthersKeepEnd
<1>7. \A q \in Runs \ {r} : OpenInv(own, q)' /\ (ReportedInv(own) => ToldInv(own, q)')
  BY <1>0, <1>1, <1>2, OtherRunsKeepEnd DEF AtEnd, Finishing
<1>8. OpenInv(own, r)' /\ (ReportedInv(own) => ToldInv(own, r)')
  <2>1. r \in live => r \notin Ended
    BY <1>0, <1>2 DEF EndInv, OpenInv
  <2>2. EndedBy(own[r], r)'
    BY <1>0, <1>2 DEF EndedBy, AtEnd
  <2>3. ReportedInv(own) => r \in live \/ r \in Ended
    BY <1>3 DEF ReportedInv, ToldInv
  <2> QED BY <1>1, <1>2, <2>1, <2>2, <2>3 DEF OpenInv, ToldInv
<1>9. NothingFails /\ ReportedInv(own) => \A u \in Threads : TellingInv(u)'
  BY <1>1, <1>2 DEF ReportedInv, TellingInv, NothingFails
<1> QED BY <1>1, <1>4, <1>5, <1>6, <1>7, <1>8, <1>9 DEF EndInv, ReportedInv

LEMMA LookupKeepsEnd ==
  ASSUME CarriesInv, NEW own, OneEnder(own), EndInv(own), NEW t \in Threads, LookupState(t)
  PROVE  EndInv(own)' /\ (ReportedInv(own) => ReportedInv(own)')
<1> USE DEF delegate, memory
<1>0. TypeOK /\ EnderInv(own, t)
  BY DEF CarriesInv, EndInv
<1>1. Ended' = Ended /\ AtMostOneTerminal'
  BY NothingEnds DEF LookupState, EndInv
<1>2. pc[t] = "lookup" /\ run[t] \in Runs /\ own[run[t]] = t
  BY <1>0 DEF LookupState, EnderInv, AtEnd, TypeOK
<1>3. /\ UNCHANGED <<status, live, state, run, method>>
      /\ \A u \in Threads \ {t} : /\ pc'[u] = pc[u] /\ todo'[u] = todo[u] /\ snap'[u] = snap[u]
                                   /\ request'[u] = request[u]
      /\ todo'[t] \in {{}, todo[t]}
      /\ \A u \in Threads : result'[u] \in {"ok", result[u]}
  <2>1. CASE Return(t, "ok", logged[t])
    BY <1>0, <1>2, <2>1 DEF LookupState, Return, Goto, TypeOK
  <2>2. CASE ~Return(t, "ok", logged[t])
    BY <1>0, <1>2, <2>2 DEF LookupState, Goto, control, local, TypeOK
  <2> QED BY <2>1, <2>2
<1>4. \/ run[t] \notin live /\ pc'[t] = "idle"
      \/ /\ run[t] \in live /\ pc'[t] \in {"filter", "emit", "forget"}
         /\ pc'[t] = "forget" => request[t] \notin {"FINISHED", "FAILED"}
  BY <1>0, <1>2 DEF LookupState, Return, Goto, TypeOK
<1>5. MLflowStillSucceeds'
  BY <1>3 DEF EndInv, MLflowStillSucceeds
<1>6. OpenInv(own, run[t])
  BY <1>2 DEF EndInv
<1>7. run[t] \in live => run[t] \notin Ended
  BY <1>2, <1>6 DEF OpenInv
<1>8. EnderInv(own, t)'
  BY <1>0, <1>1, <1>2, <1>3, <1>4, <1>7 DEF EnderInv, AtEnd, Finishing
<1>9. \A u \in Threads \ {t} : EnderInv(own, u)'
  <2>1. \A u \in Threads \ {t} : pc[u] \in Finishing => run[u] \in live'
    BY <1>3 DEF EndInv, EnderInv
  <2> QED BY <1>0, <1>1, <1>3, <2>1, OthersKeepEnd
<1>10. \A q \in Runs \ {run[t]} : OpenInv(own, q)' /\ (ReportedInv(own) => ToldInv(own, q)')
  BY <1>0, <1>1, <1>3, OtherRunsKeepEnd
<1>11. OpenInv(own, run[t])'
  BY <1>1, <1>2, <1>3, <1>4, <1>7 DEF OpenInv, EndedBy, AtEnd, Finishing
<1>12. ASSUME ReportedInv(own) PROVE ReportedInv(own)'
  <2>1. ToldInv(own, run[t]) /\ TellingInv(t)
    BY <1>2, <1>12 DEF ReportedInv
  <2>2. run[t] \notin live => run[t] \in Ended
    <3>1. status[run[t]] # "none"
      BY <1>2 DEF CarriesInv, RunInv
    <3>2. \A u \in Threads : pc[u] = "register" => run[u] # run[t]
      BY <1>2 DEF CarriesInv, CreatingInv, Creating
    <3> QED BY <2>1, <3>1, <3>2 DEF ToldInv
  <2>3. ToldInv(own, run[t])'
    BY <1>1, <1>2, <1>3, <1>4, <2>2 DEF ToldInv, EndedBy, AtEnd, Finishing
  <2>4. TellingInv(t)'
    BY <1>2, <1>4, <2>1 DEF TellingInv
  <2>5. \A u \in Threads \ {t} : TellingInv(u)'
    BY <1>1, <1>3, <1>12 DEF ReportedInv, TellingInv
  <2> QED BY <1>3, <1>10, <1>12, <2>3, <2>4, <2>5 DEF ReportedInv
<1> QED BY <1>1, <1>3, <1>5, <1>8, <1>9, <1>10, <1>11, <1>12 DEF EndInv

(* Nobody else inserts a tag, so the iteration ends well.                  *)
LEMMA FilterKeepsEnd ==
  ASSUME TypeOK, NEW own, OneEnder(own), EndInv(own), NEW t \in Threads,
         BeginFilter(t) \/ EndFilter(t)
  PROVE  EndInv(own)' /\ (ReportedInv(own) => ReportedInv(own)')
<1> USE DEF delegate, memory
<1>1. Ended' = Ended /\ AtMostOneTerminal'
  BY NothingEnds DEF BeginFilter, EndFilter, EndInv
<1>2. pc[t] \in {"filter", "iterate"} /\ run[t] \in Runs /\ EnderInv(own, t)
  BY DEF BeginFilter, EndFilter, EndInv, TypeOK
<1>3. /\ UNCHANGED <<status, live, state, run, method, todo, request, result>>
      /\ pc' = [pc EXCEPT ![t] = pc'[t]] /\ pc'[t] \in {"iterate", "emit"}
      /\ pc'[t] = "iterate" => snap'[t] = state[run[t]]
      /\ snap' = [snap EXCEPT ![t] = snap'[t]]
  <2>1. CASE BeginFilter(t)
    BY <1>2, <2>1 DEF BeginFilter, Goto, TypeOK
  <2>2. CASE EndFilter(t)
    <3>1. state[run[t]] \cap AllTags = snap[t] \cap AllTags
      BY <1>2, <2>2 DEF EndFilter, EnderInv
    <3> QED BY <1>2, <2>2, <3>1 DEF EndFilter, Goto, TypeOK
  <2> QED BY <2>1, <2>2
<1>4. \A u \in Threads \ {t} : pc'[u] = pc[u] /\ snap'[u] = snap[u]
  BY <1>3 DEF TypeOK
<1>5. MLflowStillSucceeds'
  BY <1>3 DEF EndInv, MLflowStillSucceeds
<1>6. EnderInv(own, t)'
  BY <1>1, <1>2, <1>3 DEF EnderInv, AtEnd, Finishing
<1>7. \A u \in Threads \ {t} : EnderInv(own, u)'
  <2>1. \A u \in Threads \ {t} : pc[u] \in Finishing => run[u] \in live'
    BY <1>3 DEF EndInv, EnderInv
  <2> QED BY <1>1, <1>3, <1>4, <2>1, OthersKeepEnd
<1>8. \A q \in Runs \ {run[t]} : OpenInv(own, q)' /\ (ReportedInv(own) => ToldInv(own, q)')
  BY <1>1, <1>3, <1>4, OtherRunsKeepEnd
<1>9. EndedBy(own[run[t]], run[t])' /\ run[t] \notin Ended /\ run[t] \in live
  BY <1>2, <1>3 DEF EnderInv, EndedBy, AtEnd, Finishing
<1>10. OpenInv(own, run[t])' /\ ToldInv(own, run[t])'
  BY <1>1, <1>3, <1>9 DEF OpenInv, ToldInv
<1>11. ReportedInv(own) => \A u \in Threads : TellingInv(u)'
  BY <1>1, <1>3, <1>4 DEF ReportedInv, TellingInv
<1> QED BY <1>1, <1>3, <1>5, <1>6, <1>7, <1>8, <1>10, <1>11 DEF EndInv, ReportedInv

LEMMA EmitTerminalKeepsEnd ==
  ASSUME TypeOK, NEW own, OneEnder(own), EndInv(own), NEW t \in Threads, EmitTerminal(t)
  PROVE  EndInv(own)' /\ (NothingFails /\ ReportedInv(own) => ReportedInv(own)')
<1> USE DEF delegate, memory
<1>1. /\ pc[t] = "emit" /\ run[t] \in Runs /\ EnderInv(own, t)
      /\ own[run[t]] = t /\ run[t] \notin Ended /\ run[t] \in live
  BY DEF EmitTerminal, EndInv, EnderInv, AtEnd, Finishing, TypeOK
<1>2. \E event \in Event : IsTerminal(event) /\ Post(run[t], event)
  <2>1. CompleteItems(t) \subseteq Item
    BY <1>1 DEF CompleteItems, TypeOK
  <2>2. CASE request[t] = "FINISHED"
    <3> DEFINE event == [type |-> "COMPLETE", items |-> CompleteItems(t), owed |-> owed[t]]
    <3>1. event \in Event /\ IsTerminal(event) /\ Post(run[t], event)
      BY <1>1, <2>1, <2>2 DEF Event, IsTerminal, EmitTerminal, TypeOK
    <3> QED BY <3>1
  <2>3. CASE request[t] # "FINISHED"
    <3> DEFINE event == [type |-> "FAIL", items |-> state[run[t]] \cap Datasets,
                         owed |-> owed[t] \cap Datasets]
    <3>1. event \in Event /\ IsTerminal(event) /\ Post(run[t], event)
      BY <1>1, <2>3 DEF Event, IsTerminal, EmitTerminal, TypeOK
    <3> QED BY <3>1
  <2> QED BY <2>2, <2>3
<1>3. /\ AtMostOneTerminal' /\ Ended \subseteq Ended' /\ Ended' \subseteq Ended \cup {run[t]}
      /\ ~Lossy => run[t] \in Ended'
  <2>1. AtMostOneTerminal
    BY DEF EndInv
  <2> QED BY <1>1, <1>2, <2>1, PostEnds
<1>4. /\ UNCHANGED <<status, live, state, run, method, todo, snap, request, result>>
      /\ pc'[t] = "forget" /\ \A u \in Threads \ {t} : pc'[u] = pc[u]
  BY <1>1 DEF EmitTerminal, Goto, local, TypeOK
<1>5. MLflowStillSucceeds'
  BY <1>4 DEF EndInv, MLflowStillSucceeds
<1>6. EnderInv(own, t)'
  BY <1>1, <1>4 DEF EnderInv, AtEnd, Finishing
<1>7. \A u \in Threads \ {t} : EnderInv(own, u)'
  <2>1. ASSUME NEW u \in Threads \ {t}, pc[u] \in Finishing
        PROVE  run[u] \in live' /\ (run[u] \in Ended' => run[u] \in Ended)
    <3>1. run[u] # run[t]
      BY <1>1, <2>1, EndersApart DEF AtEnd, Finishing
    <3> QED BY <1>3, <1>4, <2>1, <3>1 DEF EndInv, EnderInv
  <2> QED BY <1>4, <2>1, OthersKeepEnd
<1>8. \A q \in Runs \ {run[t]} : OpenInv(own, q)' /\ (ReportedInv(own) => ToldInv(own, q)')
  BY <1>3, <1>4, OtherRunsKeepEnd
<1>9. EndedBy(own[run[t]], run[t])' /\ pc'[own[run[t]]] = "forget" /\ run[t] \in live'
  BY <1>1, <1>4 DEF EndedBy, AtEnd, Finishing
<1>10. OpenInv(own, run[t])' /\ ToldInv(own, run[t])'
  BY <1>1, <1>4, <1>9 DEF OpenInv, ToldInv, EndedBy
<1>11. NothingFails /\ ReportedInv(own) => \A u \in Threads : TellingInv(u)'
  BY <1>3, <1>4 DEF ReportedInv, TellingInv, NothingFails
<1> QED BY <1>3, <1>4, <1>5, <1>6, <1>7, <1>8, <1>10, <1>11 DEF EndInv, ReportedInv

LEMMA ForgetKeepsEnd ==
  ASSUME TypeOK, NEW own, OneEnder(own), EndInv(own), NEW t \in Threads, ForgetRun(t)
  PROVE  EndInv(own)' /\ (ReportedInv(own) => ReportedInv(own)')
<1> USE DEF delegate
<1>1. Ended' = Ended /\ AtMostOneTerminal'
  BY NothingEnds DEF ForgetRun, EndInv
<1>2. /\ pc[t] = "forget" /\ run[t] \in Runs /\ own[run[t]] = t
  BY DEF ForgetRun, EndInv, EnderInv, AtEnd, Finishing, TypeOK
<1>3. /\ UNCHANGED <<status, state, run, method>> /\ live' = live \ {run[t]} /\ pc'[t] = "idle"
      /\ todo'[t] = {}
      /\ \A u \in Threads \ {t} : /\ pc'[u] = pc[u] /\ todo'[u] = todo[u] /\ snap'[u] = snap[u]
                                   /\ request'[u] = request[u]
      /\ \A u \in Threads : result'[u] \in {"ok", result[u]}
  BY <1>2 DEF ForgetRun, Return, Goto, TypeOK
<1>4. MLflowStillSucceeds'
  BY <1>3 DEF EndInv, MLflowStillSucceeds
<1>5. EnderInv(own, t)'
  BY <1>3 DEF EnderInv, AtEnd, Finishing
<1>6. \A u \in Threads \ {t} : EnderInv(own, u)'
  <2>1. ASSUME NEW u \in Threads \ {t}, pc[u] \in Finishing PROVE run[u] \in live'
    <3>1. run[u] # run[t]
      BY <1>2, <2>1, EndersApart DEF AtEnd, Finishing
    <3> QED BY <1>3, <2>1, <3>1 DEF EndInv, EnderInv
  <2> QED BY <1>1, <1>3, <2>1, OthersKeepEnd
<1>7. \A q \in Runs \ {run[t]} : OpenInv(own, q)' /\ (ReportedInv(own) => ToldInv(own, q)')
  BY <1>1, <1>3, OtherRunsKeepEnd
<1>8. OpenInv(own, run[t])' /\ (ReportedInv(own) => ToldInv(own, run[t])')
  BY <1>1, <1>2, <1>3 DEF OpenInv, ToldInv, ReportedInv, TellingInv
<1>9. ReportedInv(own) => \A u \in Threads : TellingInv(u)'
  BY <1>1, <1>3 DEF ReportedInv, TellingInv
<1> QED BY <1>1, <1>3, <1>4, <1>5, <1>6, <1>7, <1>8, <1>9 DEF EndInv, ReportedInv

-----------------------------------------------------------------------------
LEMMA NextKeepsEnd ==
  ASSUME CarriesInv, TypeOK', NEW own, OneEnder(own), EndInv(own), [Next]_vars
  PROVE  EndInv(own)' /\ (NothingFails /\ ReportedInv(own) => ReportedInv(own)')
<1> DEFINE Kept == EndInv(own)' /\ (NothingFails /\ ReportedInv(own) => ReportedInv(own)')
<1>0. TypeOK
  BY DEF CarriesInv
<1>1. ASSUME NEW t \in Threads, Call(t) PROVE Kept
  <2> PICK r \in Runs : \/ CreateRun(t, r) \/ LogCall(t, r)
                        \/ \E s \in Statuses : UpdateRunInfo(t, r, s)
    BY <1>1 DEF Call, LogCall
  <2>1. CASE LogCall(t, r)
    <3>1. pc[t] = "idle" => todo[t] = {}
      BY DEF CarriesInv, ThreadInv
    <3>2. LoggingStep(t)
      BY <1>0, <2>1, <3>1, LogCallIsLogging
    <3> QED BY <3>2, LoggingKeepsEnd
  <2> QED BY <2>1, CreateKeepsEnd, UpdateKeepsEnd
<1>2. ASSUME NEW t \in Threads, Progress(t) PROVE Kept
  <2>1. CASE LogProgress(t)
    <3>1. LoggingStep(t)
      BY <1>0, <2>1, LogProgressIsLogging
    <3> QED BY <3>1, LoggingKeepsEnd
  <2>2. CASE ~LogProgress(t)
    BY <1>0, <1>2, <2>2, RegisterKeepsEnd, EmitStartKeepsEnd, LookupKeepsEnd, FilterKeepsEnd,
       EmitTerminalKeepsEnd, ForgetKeepsEnd DEF Progress, LogProgress
  <2> QED BY <2>1, <2>2
<1>3. CASE Crash
  <2>1. ~NothingFails
    BY <1>0, <1>3 DEF Crash, NothingFails, TypeOK
  <2>2. Ended' = Ended /\ AtMostOneTerminal'
    BY <1>3, NothingEnds DEF Crash, EndInv
  <2>3. /\ live' = {} /\ UNCHANGED result
        /\ \A u \in Threads : pc'[u] = "idle" /\ todo'[u] = {}
    BY <1>3 DEF Crash
  <2>4. MLflowStillSucceeds'
    BY <2>3 DEF EndInv, MLflowStillSucceeds
  <2>5. EndInv(own)'
    BY <2>2, <2>3, <2>4 DEF EndInv, EnderInv, OpenInv, AtEnd, Finishing
  <2> QED BY <2>1, <2>5
<1>4. CASE UNCHANGED vars
  <2>1. /\ UNCHANGED <<status, live, state, marquez, pc, method, run, request, todo, snap>>
        /\ UNCHANGED result
    BY <1>4 DEF vars, delegate, memory, control, local
  <2>2. Ended' = Ended /\ AtMostOneTerminal'
    BY <2>1, NothingEnds DEF EndInv
  <2>3. MLflowStillSucceeds'
    BY <2>1 DEF EndInv, MLflowStillSucceeds
  <2>4. EndInv(own)'
    BY <2>1, <2>2, <2>3 DEF EndInv, EnderInv, OpenInv, EndedBy
  <2>5. ReportedInv(own) => ReportedInv(own)'
    BY <2>1, <2>2 DEF ReportedInv, TellingInv, ToldInv, EndedBy
  <2> QED BY <2>4, <2>5
<1> QED BY <1>1, <1>2, <1>3, <1>4 DEF Next, Quiescent

LEMMA InitEnds ==
  ASSUME NEW own, OneEnder(own), Init
  PROVE  EndInv(own) /\ ReportedInv(own)
<1>1. /\ live = {} /\ \A r \in Runs : status[r] = "none" /\ marquez[r] = <<>>
      /\ \A t \in Threads : pc[t] = "idle" /\ todo[t] = {} /\ result[t] = "ok"
  BY DEF Init
<1>2. MLflowStillSucceeds /\ AtMostOneTerminal
  BY <1>1 DEF MLflowStillSucceeds, AtMostOneTerminal
<1>3. EndInv(own)
  BY <1>1, <1>2 DEF EndInv, EnderInv, OpenInv, AtEnd, Finishing
<1>4. ReportedInv(own)
  BY <1>1 DEF ReportedInv, TellingInv, ToldInv
<1> QED BY <1>3, <1>4

LEMMA EndAlways == ASSUME NEW own, OneEnder(own) PROVE Spec => []EndInv(own)
<1>1. CarriesInv /\ TypeOK' /\ EndInv(own) /\ [Next]_vars => EndInv(own)'
  BY NextKeepsEnd
<1>2. Init => EndInv(own)
  BY InitEnds
<1> QED BY <1>1, <1>2, CarriesAlways, PTL DEF Spec

(* When each run has one thread that sets its tags and ends it, crashes    *)
(* and losses included, no run gets a second terminal event.               *)
THEOREM RunsEndOnce == ASSUME NEW own, OneEnder(own) PROVE Spec => []AtMostOneTerminal
<1>1. EndInv(own) => AtMostOneTerminal
  BY DEF EndInv
<1> QED BY <1>1, EndAlways, PTL

(* Then no lineage problem reaches the caller of an MLflow method either.  *)
THEOREM LineageNeverRaises == ASSUME NEW own, OneEnder(own) PROVE Spec => []MLflowStillSucceeds
<1>1. EndInv(own) => MLflowStillSucceeds
  BY DEF EndInv
<1> QED BY <1>1, EndAlways, PTL

(* And the memory of a run that is over is kept only while the call that   *)
(* ends it is at work.                                                     *)
THEOREM MemoryIsReleased == ASSUME NEW own, OneEnder(own) PROVE Spec => []StateReleased
<1>1. TypeOK /\ EndInv(own) => StateReleased
  <2> SUFFICES ASSUME TypeOK, EndInv(own), NEW r \in live PROVE status[r] = "RUNNING" \/ Ending(r)
    BY DEF StateReleased
  <2>1. r \in Runs /\ own[r] \in Threads /\ OpenInv(own, r) /\ EnderInv(own, own[r])
    BY DEF TypeOK, OneEnder, EndInv
  <2> QED BY <2>1 DEF OpenInv, EnderInv, EndedBy, Ending, AtEnd, Finishing
<1> QED BY <1>1, EndAlways, TypeCorrect, PTL

(* If moreover nothing is lost, the process does not crash and runs end as *)
(* finished or failed, a run that MLflow holds as over has been reported   *)
(* once the call that ended it is over.                                    *)
THEOREM FinishedRunsAreReported ==
  ASSUME NEW own, OneEnder(own), NothingFails
  PROVE  Spec => []FinishedRunReported
<1>1. CarriesInv /\ TypeOK' /\ EndInv(own) /\ ReportedInv(own) /\ [Next]_vars => ReportedInv(own)'
  BY NextKeepsEnd
<1>2. Init => ReportedInv(own)
  BY InitEnds
<1>3. EndInv(own) /\ ReportedInv(own) => FinishedRunReported
  <2> SUFFICES ASSUME EndInv(own), ReportedInv(own), NEW r \in Runs,
                      status[r] \in {"FINISHED", "FAILED"}, ~Ending(r)
               PROVE  \E i \in DOMAIN marquez[r] : IsTerminal(marquez[r][i])
    BY DEF FinishedRunReported
  <2>1. own[r] \in Threads /\ ToldInv(own, r) /\ EnderInv(own, own[r])
    BY DEF OneEnder, EndInv, ReportedInv
  <2>2. ~EndedBy(own[r], r)
    BY <2>1 DEF EnderInv, EndedBy, Ending, AtEnd, Finishing
  <2> QED BY <2>1, <2>2 DEF ToldInv, Ended
<1> QED BY <1>1, <1>2, <1>3, EndAlways, CarriesAlways, PTL DEF Spec
=============================================================================
